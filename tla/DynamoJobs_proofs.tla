------------------------- MODULE DynamoJobs_proofs -------------------------
(***************************************************************************)
(* Theorems about the DynamoDB job store, for every set of processes and   *)
(* tasks and for every policy and bound: its conditional transactions      *)
(* implement the atomic ledger of a job, and the rows stay sound.          *)
(*                                                                         *)
(* The operations of the port are functions of the rows, so what a step    *)
(* may do to the table is shown of rows s and x, without any behaviour.    *)
(***************************************************************************)
EXTENDS DynamoJobs, JobState_proofs

LedgerRows == [job : JobRow, runs : [RunIds -> RunRow], attempts : SUBSET AttemptRow,
               outbox : Seq(OutboxRow), results : SUBSET ResultRow]

CurrentRow(s) == s.runs[s.job.run]
AttemptOf(r, n, e) == [run |-> r, token |-> n, outcome |-> e]
Waiting == {"queued", "dispatched"}

\* Job and current run agree, the lease is there exactly while the job runs and is held
\* under the newest token, by the one attempt that is open.
Consistent(s) ==
    /\ CurrentRow(s).status = s.job.status
    /\ CurrentRow(s).lease # "none" <=> s.job.status = "running"
    /\ s.job.status = "running" =>
          /\ CurrentRow(s).holder = CurrentRow(s).token
          /\ AttemptOf(s.job.run, CurrentRow(s).token, "running") \in s.attempts
    /\ \A a \in s.attempts : a.outcome = "running" =>
          s.job.status = "running" /\ a.run = s.job.run /\ a.token = CurrentRow(s).token

\* Runs to come have no row yet, and earlier runs hold no lease.
RunsInTurn(s) ==
    \A q \in RunIds : /\ q > s.job.run => s.runs[q] = NoRun
                      /\ q < s.job.run => s.runs[q].lease = "none"

\* One attempt row per token that was handed out.
Logged(s) ==
    /\ \A a \in s.attempts : a.token <= s.runs[a.run].token
    /\ \A a, b \in s.attempts : a.run = b.run /\ a.token = b.token => a = b

\* A committed result is that of the job's one publication.
Published(s) ==
    /\ \A x, y \in s.results : x.run = y.run => x = y
    /\ \A x \in s.results :
          /\ AttemptOf(x.run, x.token, "publish_result") \in s.attempts
          /\ s.runs[x.run].version = x.version
          /\ s.job.status = "succeeded" /\ s.job.run = x.run
    /\ \A q \in RunIds : s.runs[q].version # 0 => s.job.status = "succeeded"

Limited(s) == s.job.status \notin Terminal
                => s.job.attempts < MaxAttempts /\ s.job.takeovers < MaxTakeovers

SoundRows(s) ==
    /\ s \in LedgerRows
    /\ s.job.status = "absent" => s = Empty
    /\ s.job.status # "absent" => Consistent(s)
    /\ RunsInTurn(s) /\ Logged(s) /\ Published(s) /\ Limited(s)

\* What any step makes of rows s, where n is the round it marks: it writes the rows of the
\* run that is current afterwards, keeps what has ended, and takes no round from a job that
\* waits, except one that it marks.
OneRunWritten(s, x) ==
    /\ x.job.run >= s.job.run
    /\ \A q \in RunIds \ {x.job.run} : x.runs[q] = s.runs[q]
EndedIsKept(s, x) ==
    /\ \A a \in s.attempts : a.outcome # "running" => a \in x.attempts
    /\ \A a \in s.attempts : \E b \in x.attempts : b.run = a.run /\ b.token = a.token
    /\ s.results \subseteq x.results
    /\ s.job.status \in Terminal => x.job = s.job
RoundsAreKept(s, n, x) ==
    /\ Len(x.outbox) \in {Len(s.outbox), Len(s.outbox) + 1}
    /\ \A m \in DOMAIN s.outbox :
          /\ x.outbox[m].run = s.outbox[m].run
          /\ s.outbox[m].state = "pending" /\ m # n /\ x.job.status \notin Terminal
                => x.outbox[m].state = "pending"
WaitsForARound(s, n, x) ==
    /\ x.job.status \in Waiting =>
          \/ s.job.status \in Waiting /\ x.job.run = s.job.run
          \/ \E m \in DOMAIN x.outbox : x.outbox[m].run = x.job.run /\ x.outbox[m].state = "pending"
    /\ x.job.status = "dispatched" =>
          \/ s.job.status = "dispatched" /\ x.job.run = s.job.run
          \/ n \in DOMAIN s.outbox /\ s.outbox[n].run = x.job.run
Lawful(s, n, x) ==
    SoundRows(x) /\ OneRunWritten(s, x) /\ EndedIsKept(s, x) /\ RoundsAreKept(s, n, x)
        /\ WaitsForARound(s, n, x)

-----------------------------------------------------------------------------
(***************************************************************************)
(* The rows that the helpers of the operations write                       *)
(***************************************************************************)

LEMMA RowsTyped ==
    ASSUME NEW s \in LedgerRows
    PROVE  /\ s.job \in JobRow /\ s.job.run \in RunIds /\ RunIds \subseteq Nat \ {0}
           /\ s.runs \in [RunIds -> RunRow] /\ CurrentRow(s) \in RunRow
           /\ s.attempts \subseteq AttemptRow /\ s.results \subseteq ResultRow
           /\ s.outbox \in Seq(OutboxRow)
           /\ s.job.status # "absent" => \A open \in BOOLEAN : Facts(s, open) \in FactRows
BY RowsAssumption, PolicyAssumption
   DEF LedgerRows, JobRow, CurrentRow, RunIds, Facts, FactRows, Statuses

LEMMA RunTyped ==
    ASSUME NEW s \in LedgerRows, NEW q \in RunIds
    PROVE  /\ s.runs[q].token \in Nat /\ s.runs[q].holder \in Nat /\ s.runs[q].version \in Nat
           /\ s.runs[q].lease \in {"none", "valid", "lapsed"}
           /\ s.runs[q].status \in Statuses \cup {"absent"}
BY RowsTyped DEF RunRow

\* A job that is not running has no open attempt, and one that has not succeeded has
\* published nothing.
LEMMA RestingRows ==
    ASSUME NEW s, SoundRows(s)
    PROVE  /\ s.job.status # "running" =>
                 \A a \in s.attempts : a.outcome # "running" /\ a.token \in Nat
           /\ s.job.status # "succeeded" =>
                 s.results = {} /\ \A q \in RunIds : s.runs[q].version = 0
<1>1. s.job.status = "absent" => s.attempts = {}
  BY DEF SoundRows, Empty
<1>2. \A a \in s.attempts : a.token \in Nat
  BY RowsTyped DEF SoundRows, AttemptRow
<1> QED
  BY <1>1, <1>2 DEF SoundRows, Consistent, Published

LEMMA StatusWritten ==
    ASSUME NEW s \in LedgerRows, NEW t \in Transitions, t.status \in Statuses
    PROVE  LET x == WithStatus(s, t)
           IN  /\ x \in LedgerRows
               /\ x.job = [s.job EXCEPT !.status = t.status]
               /\ x.attempts = s.attempts /\ x.outbox = s.outbox /\ x.results = s.results
               /\ \A q \in RunIds \ {s.job.run} : x.runs[q] = s.runs[q]
               /\ x.runs[s.job.run].status = t.status
               /\ x.runs[s.job.run].token = CurrentRow(s).token
               /\ x.runs[s.job.run].version = CurrentRow(s).version
               /\ t.release => x.runs[s.job.run].lease = "none"
               /\ ~t.release => /\ x.runs[s.job.run].lease = CurrentRow(s).lease
                                /\ x.runs[s.job.run].holder = CurrentRow(s).holder
<1>1. PICK row : row = CurrentRow(s)
  OBVIOUS
<1>2. PICK new : new = [row EXCEPT !.status = t.status,
                                   !.holder = IF t.release THEN None ELSE row.holder,
                                   !.lease = IF t.release THEN "none" ELSE row.lease]
  OBVIOUS
<1>3. PICK j : j = [s.job EXCEPT !.status = t.status]
  OBVIOUS
<1>4. PICK f : f = [s.runs EXCEPT ![s.job.run] = new]
  OBVIOUS
<1>5. /\ row \in RunRow /\ t.release \in BOOLEAN /\ None \in Nat
  BY <1>1, RowsTyped DEF Transitions, None
<1>6. /\ new \in RunRow /\ new.status = t.status /\ new.token = row.token /\ new.version = row.version
      /\ new.holder = (IF t.release THEN None ELSE row.holder)
      /\ new.lease = (IF t.release THEN "none" ELSE row.lease)
  BY <1>2, <1>5 DEF RunRow
<1>7. j \in JobRow
  BY <1>3, RowsTyped DEF JobRow
<1>8. f \in [RunIds -> RunRow] /\ f[s.job.run] = new /\ \A q \in RunIds \ {s.job.run} : f[q] = s.runs[q]
  BY <1>4, <1>6, RowsTyped
<1>9. WithStatus(s, t) = [s EXCEPT !.job = j, !.runs = f]
  BY <1>1, <1>2, <1>3, <1>4 DEF WithStatus, CurrentRow, LedgerRows
<1>10. PICK x : x = WithStatus(s, t)
  OBVIOUS
<1>11. /\ x \in LedgerRows /\ x.job = j /\ x.runs = f /\ x.attempts = s.attempts
       /\ x.outbox = s.outbox /\ x.results = s.results
  BY <1>7, <1>8, <1>9, <1>10 DEF LedgerRows
<1> QED
  BY <1>1, <1>3, <1>6, <1>8, <1>10, <1>11

LEMMA EnqueuedWritten ==
    ASSUME NEW s \in LedgerRows, NEW r \in RunIds, NEW due \in BOOLEAN
    PROVE  LET x == Enqueued(s, r, due)
               n == Len(s.outbox) + 1
           IN  /\ x \in LedgerRows
               /\ x.job = s.job /\ x.runs = s.runs
               /\ x.attempts = s.attempts /\ x.results = s.results
               /\ Len(x.outbox) = n /\ DOMAIN x.outbox = 1..n /\ DOMAIN s.outbox = 1..Len(s.outbox)
               /\ \A m \in DOMAIN s.outbox : x.outbox[m] = s.outbox[m]
               /\ x.outbox[n].run = r /\ x.outbox[n].state = "pending"
<1>1. [run |-> r, state |-> "pending", due |-> due, gen |-> 0] \in OutboxRow
  BY RowsAssumption DEF OutboxRow
<1>2. PICK row : row = [run |-> r, state |-> "pending", due |-> due, gen |-> 0]
  OBVIOUS
<1>3. PICK out : out = Append(s.outbox, row)
  OBVIOUS
<1>4. /\ out \in Seq(OutboxRow) /\ Len(out) = Len(s.outbox) + 1
      /\ DOMAIN out = 1..Len(s.outbox) + 1 /\ DOMAIN s.outbox = 1..Len(s.outbox)
      /\ \A m \in DOMAIN s.outbox : out[m] = s.outbox[m]
      /\ out[Len(s.outbox) + 1] = row
  BY <1>1, <1>2, <1>3, RowsTyped
<1>5. Enqueued(s, r, due) = [s EXCEPT !.outbox = out]
  BY <1>2, <1>3 DEF Enqueued, LedgerRows
<1>6. PICK x : x = Enqueued(s, r, due)
  OBVIOUS
<1>7. /\ x \in LedgerRows /\ x.job = s.job /\ x.runs = s.runs /\ x.attempts = s.attempts
      /\ x.outbox = out /\ x.results = s.results
  BY <1>4, <1>5, <1>6 DEF LedgerRows
<1> QED
  BY <1>2, <1>4, <1>6, <1>7

LEMMA ClosedWritten ==
    ASSUME NEW s \in LedgerRows, NEW e \in Outcomes, CurrentRow(s).token # 0
    PROVE  LET x == Closed(s, e)
               n == CurrentRow(s).token
           IN  /\ x \in LedgerRows
               /\ x.job = s.job /\ x.runs = s.runs
               /\ x.outbox = s.outbox /\ x.results = s.results
               /\ x.attempts = (s.attempts \ {AttemptOf(s.job.run, n, "running")})
                                   \cup {AttemptOf(s.job.run, n, e)}
<1>1. PICK b : b = AttemptOf(s.job.run, CurrentRow(s).token, e)
  OBVIOUS
<1>2. b \in AttemptRow
  BY <1>1, RowsTyped DEF AttemptRow, RunRow, AttemptOf
<1>3. PICK old : old = s.attempts \ {AttemptOf(s.job.run, CurrentRow(s).token, "running")}
  OBVIOUS
<1>4. Closed(s, e) = [s EXCEPT !.attempts = old \cup {b}]
  <2>1. PICK a : a = AttemptOf(s.job.run, CurrentRow(s).token, "running")
    OBVIOUS
  <2>2. [a EXCEPT !.outcome = e] = b
    BY <1>1, <2>1 DEF AttemptOf
  <2>3. Closed(s, e) = [s EXCEPT !.attempts = (@ \ {a}) \cup {[a EXCEPT !.outcome = e]}]
    BY <2>1, Zenon DEF Closed, CurrentRow, AttemptOf
  <2>4. @ = [s EXCEPT !.attempts = (s.attempts \ {a}) \cup {b}]
    BY <2>2 DEF LedgerRows
  <2> QED
    BY <1>3, <2>1, <2>3, <2>4
<1>5. old \cup {b} \in SUBSET AttemptRow
  BY <1>2, <1>3, RowsTyped
<1>6. PICK x : x = Closed(s, e)
  OBVIOUS
<1>7. /\ x \in LedgerRows /\ x.job = s.job /\ x.runs = s.runs /\ x.attempts = old \cup {b}
      /\ x.outbox = s.outbox /\ x.results = s.results
  BY <1>4, <1>5, <1>6 DEF LedgerRows
<1> QED
  BY <1>1, <1>3, <1>6, <1>7

-----------------------------------------------------------------------------
(***************************************************************************)
(* Each operation, applied to sound rows                                   *)
(***************************************************************************)

\* Where the job's row only says more, and its attempts and results stay, nothing breaks.
LEMMA CreateIsLawful ==
    ASSUME NEW s, SoundRows(s), NEW x \in Created(s)
    PROVE  Lawful(s, 0, x) /\ x.job.run = s.job.run
<1>1. s = Empty /\ s \in LedgerRows
  BY DEF Created, SoundRows
<1>2. PICK y : y = [s EXCEPT !.job.status = "queued", !.runs[1].status = "queued"]
  OBVIOUS
<1>3. InitialTransition.status = "queued"
  BY DEF InitialTransition, Enqueue, Move
<1>4. x = Enqueued(y, 1, TRUE)
  BY <1>2, <1>3 DEF Created
<1>5. PICK j : j = [s.job EXCEPT !.status = "queued"]
  OBVIOUS
<1>6. PICK row : row = [NoRun EXCEPT !.status = "queued"]
  OBVIOUS
<1>7. PICK f : f = [s.runs EXCEPT ![1] = row]
  OBVIOUS
<1>8. 1 \in RunIds /\ s.job.run = 1 /\ s.runs[1] = NoRun
  BY <1>1, RowsAssumption DEF RunIds, Empty
<1>9. y = [s EXCEPT !.job = j, !.runs = f]
  BY <1>1, <1>2, <1>5, <1>6, <1>7, <1>8 DEF LedgerRows
<1>10. /\ row \in RunRow /\ row.status = "queued" /\ row.lease = "none" /\ row.version = 0
       /\ row.token = 0
  BY <1>6 DEF NoRun, RunRow, Statuses, Claimable, None
<1>11. /\ j \in JobRow /\ j.status = "queued" /\ j.run = 1 /\ j.attempts = 0 /\ j.takeovers = 0
  BY <1>1, <1>5, RowsTyped DEF JobRow, Statuses, Claimable, Empty
<1>12. f \in [RunIds -> RunRow] /\ f[1] = row /\ \A q \in RunIds : q # 1 => f[q] = NoRun
  BY <1>1, <1>7, <1>8, <1>10, RowsTyped DEF Empty
<1>13. /\ y \in LedgerRows /\ y.job = j /\ y.runs = f /\ y.attempts = {}
       /\ y.outbox = << >> /\ y.results = {}
  <2>1. s.attempts = {} /\ s.outbox = << >> /\ s.results = {}
    BY <1>1 DEF Empty
  <2> QED
    BY <1>1, <1>9, <1>11, <1>12, <2>1 DEF LedgerRows
<1>14. /\ x \in LedgerRows /\ x.job = j /\ x.runs = f /\ x.attempts = {} /\ x.results = {}
       /\ Len(x.outbox) = 1 /\ DOMAIN x.outbox = 1..1
       /\ x.outbox[1].run = 1 /\ x.outbox[1].state = "pending"
  <2>1. Len(y.outbox) = 0 /\ Len(y.outbox) + 1 = 1
    BY <1>13
  <2>2. /\ x \in LedgerRows /\ x.job = y.job /\ x.runs = y.runs
        /\ x.attempts = y.attempts /\ x.results = y.results
        /\ Len(x.outbox) = Len(y.outbox) + 1 /\ DOMAIN x.outbox = 1..Len(y.outbox) + 1
        /\ x.outbox[Len(y.outbox) + 1].run = 1 /\ x.outbox[Len(y.outbox) + 1].state = "pending"
    BY <1>4, <1>8, <1>13, EnqueuedWritten
  <2> QED
    BY <1>13, <2>1, <2>2
<1>15. s.attempts = {} /\ s.outbox = << >> /\ s.results = {} /\ s.job.status = "absent"
  BY <1>1 DEF Empty
<1>16. SoundRows(x)
  BY <1>8, <1>10, <1>11, <1>12, <1>14, PolicyAssumption
     DEF SoundRows, Consistent, CurrentRow, RunsInTurn, NoRun, Logged, Published, Limited, RunIds
<1> QED
  BY <1>1, <1>8, <1>11, <1>12, <1>14, <1>15, <1>16
     DEF Lawful, OneRunWritten, EndedIsKept, RoundsAreKept, WaitsForARound, Terminal, RunIds, Empty

LEMMA ClaimIsLawful ==
    ASSUME NEW s, SoundRows(s), NEW r \in RunIds, NEW x \in Claimed(s, r)
    PROVE  /\ Lawful(s, 0, x) /\ x.job.run = s.job.run /\ r = s.job.run
           /\ s.runs[r].version = 0
           /\ \E a \in x.attempts : a.run = r /\ a.token = s.runs[r].token + 1
<1>1. /\ s \in LedgerRows /\ s.job.run = r /\ s.runs[r].lease # "valid"
      /\ Transition(s, "claim") # Conflict /\ s.job.status # "absent"
  BY DEF Claimed, Transition, SoundRows
<1>2. PICK t : t = Transition(s, "claim")
  OBVIOUS
<1>3. /\ t.status = "running" /\ ~t.release /\ t \in Transitions
      /\ s.job.status \in Claimable
  <2>1. PICK f : f = Facts(s, s.job.open # {})
    OBVIOUS
  <2>2. f \in FactRows /\ f.status = s.job.status /\ t = NextState(f, "claim")
    BY <1>1, <1>2, <2>1, RowsTyped DEF Transition, Facts
  <2>3. f.status \in Claimable
    BY <1>1, <1>2, <2>2, UnleasedEvents
  <2>4. t = Move("running")
    BY <2>2, <2>3 DEF NextState, Decide, Claimable, Terminal, LeaseBound
  <2> QED
    BY <2>2, <2>3, <2>4, NextStateType DEF Move
<1>4. PICK y : y = WithStatus(s, t)
  OBVIOUS
<1>5. PICK n : n = s.runs[r].token + 1
  OBVIOUS
<1>6. PICK a : a = AttemptOf(r, n, "running")
  OBVIOUS
<1>7. PICK row : row = [y.runs[r] EXCEPT !.token = n, !.holder = n, !.lease = "valid"]
  OBVIOUS
<1>8. x = [y EXCEPT !.runs[r] = row, !.attempts = y.attempts \cup {a}]
  BY <1>1, <1>2, <1>4, <1>5, <1>6, <1>7 DEF Claimed, AttemptOf, LedgerRows
<1>9. /\ y \in LedgerRows /\ y.job = [s.job EXCEPT !.status = "running"]
      /\ y.attempts = s.attempts /\ y.outbox = s.outbox /\ y.results = s.results
      /\ \A q \in RunIds \ {r} : y.runs[q] = s.runs[q]
      /\ y.runs[r].status = "running" /\ y.runs[r].version = s.runs[r].version
  <2>1. t.status \in Statuses
    BY <1>3 DEF Statuses
  <2> QED
    BY <1>1, <1>3, <1>4, <2>1, StatusWritten DEF CurrentRow
<1>10. /\ n \in Nat /\ n = s.runs[r].token + 1 /\ n # 0
       /\ s.runs[r].version = 0 /\ s.results = {}
       /\ \A b \in s.attempts : b.outcome # "running" /\ b.token \in Nat
       /\ s.job.status \notin Terminal
  BY <1>1, <1>3, <1>5, RunTyped, RestingRows DEF Claimable, Terminal
<1>11. /\ row \in RunRow /\ row.status = "running" /\ row.token = n /\ row.holder = n
       /\ row.lease = "valid" /\ row.version = 0
  <2>1. PICK old : old = y.runs[r]
    OBVIOUS
  <2>2. old \in RunRow /\ old.status = "running" /\ old.version = 0
    BY <1>9, <1>10, <2>1, RowsTyped
  <2>3. row = [old EXCEPT !.token = n, !.holder = n, !.lease = "valid"]
    BY <1>7, <2>1
  <2> QED
    BY <1>10, <2>2, <2>3 DEF RunRow
<1>12. /\ a \in AttemptRow /\ a.run = r /\ a.token = n /\ a.outcome = "running"
  BY <1>6, <1>10 DEF AttemptRow, AttemptOf, Outcomes
<1>13. PICK f : f = [y.runs EXCEPT ![r] = row]
  OBVIOUS
<1>14. /\ f \in [RunIds -> RunRow] /\ f[r] = row /\ \A q \in RunIds \ {r} : f[q] = s.runs[q]
  BY <1>9, <1>11, <1>13, RowsTyped
<1>15. /\ x \in LedgerRows /\ x.job = y.job /\ x.runs = f /\ x.attempts = s.attempts \cup {a}
       /\ x.outbox = s.outbox /\ x.results = {}
  <2>1. x = [y EXCEPT !.runs = f, !.attempts = s.attempts \cup {a}]
    BY <1>8, <1>9, <1>13 DEF LedgerRows
  <2> QED
    BY <1>9, <1>10, <1>12, <1>14, <2>1, RowsTyped DEF LedgerRows
<1>16. /\ x.job.status = "running" /\ x.job.run = r
       /\ x.job.attempts = s.job.attempts /\ x.job.takeovers = s.job.takeovers
  BY <1>1, <1>9, <1>15, RowsTyped DEF JobRow
<1>17. SoundRows(x)
  <2>1. Consistent(x)
    BY <1>6, <1>10, <1>11, <1>12, <1>14, <1>15, <1>16 DEF Consistent, CurrentRow
  <2>2. RunsInTurn(x)
    BY <1>1, <1>11, <1>14, <1>15, <1>16, RowsTyped DEF RunsInTurn, SoundRows
  <2>3. Logged(x)
    <3>1. \A b \in s.attempts : b.run \in RunIds /\ b.token <= s.runs[b.run].token
      BY <1>1, RowsTyped DEF AttemptRow, SoundRows, Logged
    <3>2. \A b \in s.attempts : b.token <= f[b.run].token /\ (b.run = r => b.token < n)
      BY <1>5, <1>10, <1>11, <1>14, <3>1, RunTyped, <1>1
    <3> QED
      BY <1>10, <1>11, <1>12, <1>14, <1>15, <3>2 DEF Logged, SoundRows
  <2>4. Published(x)
    BY <1>1, <1>3, <1>10, <1>11, <1>14, <1>15, <1>16, RestingRows DEF Published, Claimable
  <2>5. Limited(x)
    BY <1>10, <1>16 DEF Limited, SoundRows
  <2> QED
    BY <1>15, <1>16, <2>1, <2>2, <2>3, <2>4, <2>5 DEF SoundRows
<1> QED
  BY <1>1, <1>5, <1>10, <1>12, <1>14, <1>15, <1>16, <1>17, RowsTyped
     DEF Lawful, OneRunWritten, EndedIsKept, RoundsAreKept, WaitsForARound, Waiting

\* The lease of a running attempt is renewed, or lapses.
LEMMA LeaseMoves ==
    ASSUME NEW s, SoundRows(s), s.job.status = "running", NEW l \in {"valid", "lapsed"},
           NEW x, x = [s EXCEPT !.runs[s.job.run].lease = l]
    PROVE  Lawful(s, 0, x) /\ x.job = s.job
<1>1. /\ s \in LedgerRows /\ s.job.run \in RunIds /\ s.runs \in [RunIds -> RunRow]
  BY RowsTyped DEF SoundRows
<1>2. PICK r \in RunIds : r = s.job.run
  BY <1>1
<1>3. PICK old : old = s.runs[r]
  OBVIOUS
<1>4. PICK row : row = [old EXCEPT !.lease = l]
  OBVIOUS
<1>5. PICK f : f = [s.runs EXCEPT ![r] = row]
  OBVIOUS
<1>6. old \in RunRow
  BY <1>1, <1>3
<1>7. /\ row \in RunRow /\ row.status = old.status /\ row.token = old.token
      /\ row.holder = old.holder /\ row.lease = l /\ row.version = old.version
  BY <1>4, <1>6 DEF RunRow
<1>8. f \in [RunIds -> RunRow] /\ f[r] = row /\ \A q \in RunIds \ {r} : f[q] = s.runs[q]
  BY <1>1, <1>5, <1>7
<1>9. x = [s EXCEPT !.runs = f]
  BY <1>1, <1>2, <1>3, <1>4, <1>5 DEF LedgerRows
<1>10. /\ x \in LedgerRows /\ x.job = s.job /\ x.runs = f /\ x.attempts = s.attempts
       /\ x.outbox = s.outbox /\ x.results = s.results
  BY <1>1, <1>8, <1>9 DEF LedgerRows
<1>11. SoundRows(x)
  <2>1. Consistent(x)
    BY <1>2, <1>3, <1>7, <1>8, <1>10 DEF SoundRows, Consistent, CurrentRow
  <2>2. RunsInTurn(x)
    BY <1>1, <1>2, <1>8, <1>10, RowsTyped DEF RunsInTurn, SoundRows
  <2>3. Logged(x)
    <3>1. \A a \in s.attempts : a.run \in RunIds
      BY <1>1, RowsTyped DEF AttemptRow
    <3>2. \A q \in RunIds : f[q].token = s.runs[q].token
      BY <1>3, <1>7, <1>8
    <3> QED
      BY <1>10, <3>1, <3>2 DEF SoundRows, Logged
  <2>4. Published(x)
    <3>1. s.results = {} /\ \A q \in RunIds : s.runs[q].version = 0
      BY RestingRows
    <3> QED
      BY <1>3, <1>7, <1>8, <1>10, <3>1 DEF Published
  <2> QED
    BY <1>10, <2>1, <2>2, <2>3, <2>4 DEF SoundRows, Limited
<1> QED
  BY <1>1, <1>2, <1>8, <1>10, <1>11, RowsTyped
     DEF Lawful, OneRunWritten, EndedIsKept, RoundsAreKept, WaitsForARound, Waiting

LEMMA HeartbeatIsLawful ==
    ASSUME NEW s, SoundRows(s), NEW a, NEW x \in Heartbeaten(s, a)
    PROVE  Lawful(s, 0, x) /\ x.job = s.job
<1>1. /\ s.job.status = "running" /\ a.run = s.job.run
      /\ x = [s EXCEPT !.runs[s.job.run].lease = "valid"]
  BY DEF Heartbeaten, Authority
<1> QED
  BY <1>1, LeaseMoves

\* A round is confirmed, put off or given up, or becomes due.
LEMMA RoundMoves ==
    ASSUME NEW s, SoundRows(s), NEW n \in DOMAIN s.outbox, NEW row \in OutboxRow,
           row.run = s.outbox[n].run, NEW m \in {0, n},
           m = n \/ row.state = s.outbox[n].state \/ s.job.status \in Terminal,
           NEW x, x = [s EXCEPT !.outbox[n] = row]
    PROVE  /\ Lawful(s, m, x) /\ x.job = s.job /\ x.runs = s.runs /\ x.attempts = s.attempts
           /\ x.results = s.results
<1>1. s \in LedgerRows /\ s.outbox \in Seq(OutboxRow) /\ s.job.run \in RunIds
  BY RowsTyped DEF SoundRows
<1>2. PICK out : out = [s.outbox EXCEPT ![n] = row]
  OBVIOUS
<1>3. /\ out \in Seq(OutboxRow) /\ Len(out) = Len(s.outbox) /\ out[n] = row
      /\ DOMAIN out = DOMAIN s.outbox
      /\ \A i \in DOMAIN s.outbox : i # n => out[i] = s.outbox[i]
  BY <1>1, <1>2
<1>4. x = [s EXCEPT !.outbox = out]
  BY <1>1, <1>2 DEF LedgerRows
<1>5. /\ x \in LedgerRows /\ x.job = s.job /\ x.runs = s.runs /\ x.attempts = s.attempts
      /\ x.outbox = out /\ x.results = s.results
  BY <1>1, <1>3, <1>4 DEF LedgerRows
<1>6. s.job.status # "absent"
  <2>1. s.outbox # << >>
    BY <1>1
  <2> QED
    BY <2>1 DEF SoundRows, Empty
<1>7. SoundRows(x)
  BY <1>5, <1>6 DEF SoundRows, Consistent, CurrentRow, RunsInTurn, Logged, Published, Limited
<1> QED
  BY <1>1, <1>3, <1>5, <1>7, RowsTyped
     DEF Lawful, OneRunWritten, EndedIsKept, RoundsAreKept, WaitsForARound, Waiting

LEMMA DeferIsLawful ==
    ASSUME NEW s, SoundRows(s), NEW n, NEW gen \in 0..MaxDefers, NEW x \in Deferred(s, n, gen)
    PROVE  Lawful(s, 0, x) /\ x.job = s.job
<1>1. PICK old : old = s.outbox[n]
  OBVIOUS
<1>2. /\ n \in DOMAIN s.outbox /\ gen # MaxDefers
      /\ x = [s EXCEPT !.outbox[n] = IF s.job.status \in Terminal THEN [old EXCEPT !.state = "abandoned"]
                                     ELSE [old EXCEPT !.due = FALSE, !.gen = gen + 1]]
  BY <1>1 DEF Deferred, IsPending
<1>3. old \in OutboxRow
  BY <1>1, <1>2, RowsTyped DEF SoundRows
<1>4. CASE s.job.status \in Terminal
  <2>1. PICK row : row = [old EXCEPT !.state = "abandoned"]
    OBVIOUS
  <2>2. row \in OutboxRow /\ row.run = old.run
    BY <1>3, <2>1 DEF OutboxRow
  <2>3. x = [s EXCEPT !.outbox[n] = row]
    BY <1>2, <1>4, <2>1
  <2> QED
    BY <1>1, <1>2, <1>4, <2>2, <2>3, RoundMoves
<1>5. CASE s.job.status \notin Terminal
  <2>1. PICK row : row = [old EXCEPT !.due = FALSE, !.gen = gen + 1]
    OBVIOUS
  <2>2. gen + 1 \in 0..MaxDefers
    BY <1>2, RowsAssumption
  <2>3. row \in OutboxRow /\ row.run = old.run /\ row.state = old.state
    BY <1>3, <2>1, <2>2 DEF OutboxRow
  <2>4. x = [s EXCEPT !.outbox[n] = row]
    BY <1>2, <1>5, <2>1
  <2> QED
    BY <1>1, <1>2, <2>3, <2>4, RoundMoves
<1> QED
  BY <1>4, <1>5

\* Time only lets the current lease lapse, or a round become due.
LEMMA LaterIsLawful ==
    ASSUME NEW s, SoundRows(s), NEW x \in Later(s)
    PROVE  Lawful(s, 0, x) /\ x.job = s.job
<1>1. CASE \E r \in RunIds : s.runs[r].lease = "valid" /\ x = [s EXCEPT !.runs[r].lease = "lapsed"]
  <2>1. PICK r \in RunIds : s.runs[r].lease = "valid" /\ x = [s EXCEPT !.runs[r].lease = "lapsed"]
    BY <1>1
  <2>2. s.job.status # "absent"
    BY <2>1 DEF SoundRows, Empty, NoRun
  <2>3. s.job.run \in RunIds /\ ~(r > s.job.run) /\ ~(r < s.job.run)
    BY <2>1, RowsTyped DEF SoundRows, RunsInTurn, NoRun
  <2>4. r = s.job.run
    BY <2>3, RowsTyped DEF SoundRows
  <2>5. s.job.status = "running"
    BY <2>1, <2>2, <2>4 DEF SoundRows, Consistent, CurrentRow
  <2> QED
    BY <2>1, <2>4, <2>5, LeaseMoves
<1>2. CASE \E n \in DOMAIN s.outbox : x = [s EXCEPT !.outbox[n].due = TRUE]
  <2>1. PICK n \in DOMAIN s.outbox : x = [s EXCEPT !.outbox[n].due = TRUE]
    BY <1>2
  <2>2. PICK old : old = s.outbox[n]
    OBVIOUS
  <2>3. PICK row : row = [old EXCEPT !.due = TRUE]
    OBVIOUS
  <2>4. old \in OutboxRow
    BY <2>2, RowsTyped DEF SoundRows
  <2>5. row \in OutboxRow /\ row.run = old.run /\ row.state = old.state
    BY <2>3, <2>4 DEF OutboxRow
  <2>6. x = [s EXCEPT !.outbox[n] = row]
    BY <2>1, <2>2, <2>3
  <2> QED
    BY <2>2, <2>5, <2>6, RoundMoves
<1> QED
  BY <1>1, <1>2 DEF Later

\* A job that nobody works on moves, and stays unpublished.
LEMMA StatusMoves ==
    ASSUME NEW s, SoundRows(s), s.job.status \in Statuses \ (Terminal \cup {"running"}),
           NEW t \in Transitions, t.status \in Statuses \ {"running", "succeeded"},
           NEW y, y = WithStatus(s, t), NEW x \in LedgerRows,
           x.job.status = t.status, x.job.run = s.job.run,
           x.job.attempts = s.job.attempts, x.job.takeovers = s.job.takeovers,
           x.runs = y.runs, x.attempts = s.attempts, x.results = s.results
    PROVE  /\ SoundRows(x)
           /\ \A q \in RunIds \ {s.job.run} : x.runs[q] = s.runs[q]
<1>1. /\ s \in LedgerRows /\ s.job.run \in RunIds
  BY RowsTyped DEF SoundRows
<1>2. t.status \in Statuses /\ t.release \in BOOLEAN
  BY DEF Transitions
<1>3. /\ \A q \in RunIds \ {s.job.run} : y.runs[q] = s.runs[q]
      /\ y.runs[s.job.run].status = t.status
      /\ y.runs[s.job.run].token = s.runs[s.job.run].token
      /\ y.runs[s.job.run].version = s.runs[s.job.run].version
      /\ y.runs[s.job.run].lease \in {"none", s.runs[s.job.run].lease}
  <2>1. y.runs[s.job.run].status = t.status
    BY <1>1, <1>2, StatusWritten
  <2>5. \A q \in RunIds \ {s.job.run} : y.runs[q] = s.runs[q]
    <3>1. \A q \in RunIds \ {s.job.run} : WithStatus(s, t).runs[q] = s.runs[q]
      BY <1>1, <1>2, StatusWritten, Zenon
    <3> QED
      BY <3>1
  <2>2. /\ y.runs[s.job.run].token = CurrentRow(s).token
        /\ y.runs[s.job.run].version = CurrentRow(s).version
    BY <1>1, <1>2, StatusWritten
  <2>3. t.release => y.runs[s.job.run].lease = "none"
    BY <1>1, <1>2, StatusWritten
  <2>4. ~t.release => y.runs[s.job.run].lease = CurrentRow(s).lease
    BY <1>1, <1>2, StatusWritten
  <2> QED
    BY <2>1, <2>2, <2>3, <2>4, <2>5 DEF CurrentRow
<1>4. x.job \in JobRow /\ x.runs = y.runs
  BY RowsTyped
<1>5. /\ s.job.status \notin {"absent", "succeeded"} /\ s.runs[s.job.run].lease = "none"
      /\ t.status # "absent"
  BY DEF Statuses, Terminal, Claimable, SoundRows, Consistent, CurrentRow
<1>6. Consistent(x)
  BY <1>3, <1>4, <1>5, RestingRows DEF Consistent, CurrentRow
<1>7. RunsInTurn(x)
  BY <1>1, <1>3, <1>4, RowsTyped DEF RunsInTurn, SoundRows
<1>8. Logged(x)
  <2>1. \A a \in s.attempts : a.run \in RunIds
    BY <1>1, RowsTyped DEF AttemptRow
  <2>2. \A q \in RunIds : y.runs[q].token = s.runs[q].token
    BY <1>3
  <2> QED
    BY <1>4, <2>1, <2>2 DEF SoundRows, Logged
<1>9. Published(x)
  <2>1. s.results = {} /\ \A q \in RunIds : s.runs[q].version = 0
    BY <1>5, RestingRows
  <2> QED
    BY <1>3, <1>4, <2>1 DEF Published
<1> QED
  BY <1>3, <1>4, <1>5, <1>6, <1>7, <1>8, <1>9 DEF SoundRows, Limited

LEMMA CancelIsLawful ==
    ASSUME NEW s, SoundRows(s), NEW x \in Cancelled(s)
    PROVE  Lawful(s, 0, x) /\ x.job.run = s.job.run
<1>1. PICK t : t = Transition(s, "cancel")
  OBVIOUS
<1>2. s \in LedgerRows /\ t # Conflict /\ s.job.status # "absent"
  BY <1>1 DEF Cancelled, Transition, SoundRows
<1>3. /\ s.job.run \in RunIds /\ s.job \in JobRow
      /\ \/ s.job.status = "running" /\ t.cancel
         \/ s.job.status \in Cancellable /\ t = Release("cancelled") /\ t \in Transitions
  <2>1. PICK f : f = Facts(s, s.job.open # {})
    OBVIOUS
  <2>2. f \in FactRows /\ f.status = s.job.status /\ t = NextState(f, "cancel")
    BY <1>1, <1>2, <2>1, RowsTyped DEF Transition, Facts
  <2> QED
    BY <1>2, <2>2, NextStateType, UnleasedEvents, RowsTyped
<1>4. CASE t.cancel
  <2>1. PICK j : j = [s.job EXCEPT !.cancel = TRUE]
    OBVIOUS
  <2>2. x = [s EXCEPT !.job = j]
    BY <1>1, <1>2, <1>4, <2>1 DEF Cancelled, LedgerRows
  <2>3. /\ j \in JobRow /\ j.status = s.job.status /\ j.run = s.job.run
        /\ j.attempts = s.job.attempts /\ j.takeovers = s.job.takeovers
    BY <1>3, <2>1 DEF JobRow
  <2>4. /\ x \in LedgerRows /\ x.job = j /\ x.runs = s.runs /\ x.attempts = s.attempts
        /\ x.outbox = s.outbox /\ x.results = s.results
    BY <1>2, <2>2, <2>3 DEF LedgerRows
  <2>5. s.job.status = "running"
    <3>1. ~Release("cancelled").cancel
      BY DEF Release, Move
    <3> QED
      BY <1>3, <1>4, <3>1
  <2>6. SoundRows(x)
    BY <1>2, <2>3, <2>4
       DEF SoundRows, Consistent, CurrentRow, RunsInTurn, Logged, Published, Limited
  <2> QED
    BY <1>2, <1>3, <2>3, <2>4, <2>5, <2>6, RowsTyped
       DEF Lawful, OneRunWritten, EndedIsKept, RoundsAreKept, WaitsForARound, Waiting, Terminal
<1>5. CASE ~t.cancel
  <2>1. PICK y : y = WithStatus(s, t)
    OBVIOUS
  <2>2. x = [y EXCEPT !.job.problem = TRUE, !.job.open = {}]
    BY <1>1, <1>2, <1>5, <2>1 DEF Cancelled
  <2>3. s.job.status \in Cancellable /\ t.status = "cancelled" /\ t \in Transitions
    BY <1>3, <1>5 DEF Release, Move
  <2>4. /\ s.job.status \in Statuses \ (Terminal \cup {"running"})
        /\ t.status \in Statuses \ {"running", "succeeded"} /\ t.status \in Terminal
        /\ s.job.status \notin Terminal
    BY <2>3 DEF Cancellable, Statuses, Terminal, Claimable
  <2>5. PICK i : i = [s.job EXCEPT !.status = "cancelled"]
    OBVIOUS
  <2>6. y \in LedgerRows /\ y.job = i /\ i \in JobRow
    BY <1>2, <2>1, <2>3, <2>4, <2>5, StatusWritten, RowsTyped
  <2>7. PICK j : j = [i EXCEPT !.problem = TRUE, !.open = {}]
    OBVIOUS
  <2>8. /\ j \in JobRow /\ j.status = "cancelled" /\ j.run = s.job.run
        /\ j.attempts = s.job.attempts /\ j.takeovers = s.job.takeovers
    BY <1>3, <2>5, <2>6, <2>7 DEF JobRow
  <2>9. x = [y EXCEPT !.job = j]
    BY <2>2, <2>6, <2>7 DEF LedgerRows
  <2>10. /\ SoundRows(x) /\ x.job = j /\ x.attempts = s.attempts /\ x.results = s.results
         /\ x.outbox = s.outbox /\ \A q \in RunIds \ {s.job.run} : x.runs[q] = s.runs[q]
    <3>1. /\ y.attempts = s.attempts /\ y.outbox = s.outbox /\ y.results = s.results
      BY <1>2, <2>1, <2>3, <2>4, StatusWritten
    <3>2. /\ x \in LedgerRows /\ x.job = j /\ x.attempts = s.attempts /\ x.results = s.results
          /\ x.outbox = s.outbox /\ x.runs = y.runs
      BY <2>6, <2>8, <2>9, <3>1 DEF LedgerRows
    <3> QED
      BY <2>1, <2>3, <2>4, <2>8, <3>2, StatusMoves
  <2> QED
    BY <1>2, <1>3, <2>4, <2>8, <2>10, RowsTyped
       DEF Lawful, OneRunWritten, EndedIsKept, RoundsAreKept, WaitsForARound, Waiting
<1> QED
  BY <1>4, <1>5

\* Sound rows get a round for their current run.
LEMMA RoundAdded ==
    ASSUME NEW s, SoundRows(s), s.job.status \notin Terminal,
           NEW z, SoundRows(z), z.job.status # "absent", z.job.run >= s.job.run,
           \A q \in RunIds \ {z.job.run} : z.runs[q] = s.runs[q],
           \A a \in s.attempts : a.outcome # "running" => a \in z.attempts,
           \A a \in s.attempts : \E b \in z.attempts : b.run = a.run /\ b.token = a.token,
           s.results \subseteq z.results, z.outbox = s.outbox, z.job.status # "dispatched",
           NEW due \in BOOLEAN, NEW x, x = Enqueued(z, z.job.run, due)
    PROVE  Lawful(s, 0, x) /\ x.job = z.job
<1>1. s \in LedgerRows /\ z \in LedgerRows /\ z.job.run \in RunIds
  BY RowsTyped DEF SoundRows
<1>2. PICK n : n = Len(z.outbox) + 1
  OBVIOUS
<1>3. /\ x \in LedgerRows
      /\ x.job = z.job /\ x.runs = z.runs
      /\ x.attempts = z.attempts /\ x.results = z.results
      /\ Len(x.outbox) = n /\ DOMAIN x.outbox = 1..n /\ DOMAIN z.outbox = 1..Len(z.outbox)
      /\ \A m \in DOMAIN z.outbox : x.outbox[m] = z.outbox[m]
      /\ x.outbox[n].run = z.job.run /\ x.outbox[n].state = "pending"
  BY <1>1, <1>2, EnqueuedWritten, SMTT(30)
<1>4. n \in DOMAIN x.outbox
  BY <1>1, <1>2, <1>3, RowsTyped
<1>5. SoundRows(x)
  BY <1>3 DEF SoundRows, Consistent, CurrentRow, RunsInTurn, Logged, Published, Limited
<1> QED
  BY <1>2, <1>3, <1>4, <1>5 DEF Lawful, OneRunWritten, EndedIsKept, RoundsAreKept, WaitsForARound

LEMMA RetryIsLawful ==
    ASSUME NEW s, SoundRows(s), NEW x \in RetryScheduled(s)
    PROVE  Lawful(s, 0, x) /\ x.job.run = s.job.run
<1>1. PICK t : t = Transition(s, "schedule_retry")
  OBVIOUS
<1>2. s \in LedgerRows /\ t # Conflict /\ s.job.status # "absent"
  BY <1>1 DEF RetryScheduled, Transition, SoundRows
<1>3. /\ s.job.run \in RunIds /\ s.job \in JobRow
      /\ s.job.status = "retryable_failed" /\ t = Enqueue("queued") /\ t \in Transitions
  <2>1. PICK f : f = Facts(s, s.job.open # {})
    OBVIOUS
  <2>2. f \in FactRows /\ f.status = s.job.status /\ t = NextState(f, "schedule_retry")
    BY <1>1, <1>2, <2>1, RowsTyped DEF Transition, Facts
  <2> QED
    BY <1>2, <2>2, NextStateType, UnleasedEvents, RowsTyped
<1>4. /\ t.status = "queued" /\ t.status \in Statuses \ {"running", "succeeded"}
      /\ s.job.status \in Statuses \ (Terminal \cup {"running"}) /\ s.job.status \notin Terminal
  BY <1>3 DEF Enqueue, Move, Statuses, Claimable, Terminal
<1>5. PICK y : y = WithStatus(s, t)
  OBVIOUS
<1>6. PICK i : i = [s.job EXCEPT !.status = "queued"]
  OBVIOUS
<1>7. y \in LedgerRows /\ y.job = i /\ i \in JobRow
  BY <1>2, <1>3, <1>4, <1>5, <1>6, StatusWritten, RowsTyped
<1>8. /\ y.attempts = s.attempts /\ y.outbox = s.outbox /\ y.results = s.results
  BY <1>2, <1>3, <1>4, <1>5, StatusWritten
<1>9. PICK j : j = [i EXCEPT !.problem = FALSE]
  OBVIOUS
<1>10. /\ j \in JobRow /\ j.status = "queued" /\ j.run = s.job.run
       /\ j.attempts = s.job.attempts /\ j.takeovers = s.job.takeovers
  BY <1>3, <1>6, <1>7, <1>9 DEF JobRow
<1>11. PICK z : z = [y EXCEPT !.job = j]
  OBVIOUS
<1>12. /\ z \in LedgerRows /\ z.job = j /\ z.attempts = s.attempts /\ z.results = s.results
       /\ z.outbox = s.outbox /\ z.runs = y.runs
  BY <1>7, <1>8, <1>10, <1>11 DEF LedgerRows
<1>13. SoundRows(z) /\ \A q \in RunIds \ {s.job.run} : z.runs[q] = s.runs[q]
  BY <1>3, <1>4, <1>5, <1>10, <1>12, StatusMoves
<1>14. x = Enqueued(z, s.job.run, FALSE)
  <2>1. z = [y EXCEPT !.job.problem = FALSE]
    BY <1>7, <1>9, <1>11 DEF LedgerRows
  <2> QED
    BY <1>1, <1>2, <1>5, <2>1 DEF RetryScheduled
<1> QED
  <2>1. /\ z.job.status # "absent" /\ z.job.status # "dispatched" /\ z.job.run = s.job.run
        /\ z.job.run >= s.job.run
    BY <1>3, <1>10, <1>12, RowsTyped, <1>2
  <2>2. \A a \in s.attempts : a \in z.attempts /\ \E b \in z.attempts : b.run = a.run /\ b.token = a.token
    BY <1>12
  <2>3. PICK due \in BOOLEAN : x = Enqueued(z, z.job.run, due)
    BY <1>14, <2>1
  <2> QED
    BY <1>4, <1>12, <1>13, <2>1, <2>2, <2>3, RoundAdded

LEMMA RejectIsLawful ==
    ASSUME NEW s, SoundRows(s), NEW r, NEW task, NEW x \in TaskRejected(s, r, task)
    PROVE  Lawful(s, 0, x) /\ x.job.run = s.job.run
<1>1. PICK left : left = s.job.open \ {task}
  OBVIOUS
<1>2. PICK f : f = Facts(s, left # {})
  OBVIOUS
<1>3. PICK t : t = NextState(f, "human_rejected")
  OBVIOUS
<1>4. /\ s \in LedgerRows /\ t # Conflict /\ s.job.status # "absent"
      /\ s.job.run \in RunIds /\ s.job \in JobRow
  <2>1. s.job.open # {} /\ t # Conflict
    BY <1>1, <1>2, <1>3 DEF TaskRejected
  <2> QED
    BY <2>1, RowsTyped DEF SoundRows, Empty
<1>5. /\ s.job.status = "waiting_for_human" /\ t \in Transitions
      /\ t.status \in {"waiting_for_human", "failed"}
  <2>1. f \in FactRows /\ f.status = s.job.status
    BY <1>2, <1>4, RowsTyped DEF Facts
  <2>2. /\ s.job.status = "waiting_for_human" /\ t \in Transitions
        /\ t = Move(IF f.open THEN "waiting_for_human" ELSE "failed")
    BY <1>3, <1>4, <2>1, NextStateType, UnleasedEvents
  <2> QED
    BY <2>2 DEF Move
<1>6. /\ t.status \in Statuses \ {"running", "succeeded"}
      /\ s.job.status \in Statuses \ (Terminal \cup {"running"}) /\ s.job.status \notin Terminal
  BY <1>5 DEF Statuses, Claimable, Terminal
<1>7. PICK y : y = WithStatus(s, t)
  OBVIOUS
<1>8. PICK i : i = [s.job EXCEPT !.status = t.status]
  OBVIOUS
<1>9. y \in LedgerRows /\ y.job = i /\ i \in JobRow
  BY <1>4, <1>5, <1>6, <1>7, <1>8, StatusWritten, RowsTyped
<1>10. /\ y.attempts = s.attempts /\ y.outbox = s.outbox /\ y.results = s.results
  BY <1>4, <1>5, <1>6, <1>7, StatusWritten
<1>11. PICK j : j = [i EXCEPT !.open = left, !.problem = t.status = "failed"]
  OBVIOUS
<1>12. /\ j \in JobRow /\ j.status = t.status /\ j.run = s.job.run
       /\ j.attempts = s.job.attempts /\ j.takeovers = s.job.takeovers
  BY <1>1, <1>4, <1>8, <1>9, <1>11 DEF JobRow
<1>13. x = [y EXCEPT !.job = j]
  <2>1. x = [y EXCEPT !.job.open = left, !.job.problem = t.status = "failed"]
    BY <1>1, <1>2, <1>3, <1>7 DEF TaskRejected
  <2> QED
    BY <1>9, <1>11, <2>1 DEF LedgerRows
<1>14. /\ x \in LedgerRows /\ x.job = j /\ x.attempts = s.attempts /\ x.results = s.results
       /\ x.outbox = s.outbox /\ x.runs = y.runs
  BY <1>9, <1>10, <1>12, <1>13 DEF LedgerRows
<1>15. SoundRows(x) /\ \A q \in RunIds \ {s.job.run} : x.runs[q] = s.runs[q]
  BY <1>5, <1>6, <1>7, <1>12, <1>14, StatusMoves
<1> QED
  BY <1>4, <1>5, <1>6, <1>12, <1>14, <1>15, RowsTyped
     DEF Lawful, OneRunWritten, EndedIsKept, RoundsAreKept, WaitsForARound, Waiting

LEMMA ResumeIsLawful ==
    ASSUME NEW s, SoundRows(s), NEW x \in Resumed(s)
    PROVE  Lawful(s, 0, x)
<1>1. PICK t : t = Transition(s, "human_response_committed")
  OBVIOUS
<1>2. PICK r : r = s.job.run + 1
  OBVIOUS
<1>3. s \in LedgerRows /\ t # Conflict /\ s.job.status # "absent" /\ r \in RunIds
  BY <1>1, <1>2 DEF Resumed, Transition, SoundRows
<1>4. /\ s.job.run \in RunIds /\ s.job \in JobRow
      /\ s.job.status = "waiting_for_human" /\ t.status = "queued"
  <2>1. PICK f : f = Facts(s, s.job.open # {})
    OBVIOUS
  <2>2. f \in FactRows /\ f.status = s.job.status /\ t = NextState(f, "human_response_committed")
    BY <1>1, <1>3, <2>1, RowsTyped DEF Transition, Facts
  <2>3. s.job.status = "waiting_for_human" /\ t = Enqueue("queued")
    BY <1>3, <2>2, UnleasedEvents
  <2> QED
    BY <1>3, <2>3, RowsTyped DEF Enqueue, Move
<1>5. PICK j : j = [s.job EXCEPT !.status = "queued", !.run = r, !.open = {}]
  OBVIOUS
<1>6. PICK row : row = [NoRun EXCEPT !.status = "queued"]
  OBVIOUS
<1>7. PICK f : f = [s.runs EXCEPT ![r] = row]
  OBVIOUS
<1>8. PICK y : y = [s EXCEPT !.job = j, !.runs = f]
  OBVIOUS
<1>9. r > s.job.run /\ s.runs[r] = NoRun
  BY <1>2, <1>3, <1>4, RowsTyped DEF SoundRows, RunsInTurn
<1>10. x = Enqueued(y, r, TRUE)
  <2>1. y = [s EXCEPT !.job = [@ EXCEPT !.status = t.status, !.run = r, !.open = {}],
                      !.runs[r].status = t.status]
    BY <1>3, <1>4, <1>5, <1>6, <1>7, <1>8, <1>9 DEF LedgerRows
  <2> QED
    BY <1>1, <1>2, <2>1 DEF Resumed
<1>11. /\ row \in RunRow /\ row.status = "queued" /\ row.lease = "none" /\ row.version = 0
       /\ row.token = 0
  BY <1>6 DEF NoRun, RunRow, Statuses, Claimable, None
<1>12. /\ j \in JobRow /\ j.status = "queued" /\ j.run = r
       /\ j.attempts = s.job.attempts /\ j.takeovers = s.job.takeovers
  BY <1>3, <1>4, <1>5 DEF JobRow, Statuses, Claimable
<1>13. f \in [RunIds -> RunRow] /\ f[r] = row /\ \A q \in RunIds \ {r} : f[q] = s.runs[q]
  BY <1>3, <1>7, <1>11, RowsTyped
<1>14. /\ y \in LedgerRows /\ y.job = j /\ y.runs = f /\ y.attempts = s.attempts
       /\ y.outbox = s.outbox /\ y.results = s.results
  BY <1>3, <1>8, <1>12, <1>13 DEF LedgerRows
<1>15. /\ s.results = {} /\ \A q \in RunIds : s.runs[q].version = 0 /\ s.runs[s.job.run].lease = "none"
       /\ \A a \in s.attempts : a.outcome # "running"
  BY <1>4, RestingRows DEF SoundRows, Consistent, CurrentRow
<1>16. SoundRows(y)
  <2>1. Consistent(y)
    BY <1>11, <1>12, <1>13, <1>14, <1>15 DEF Consistent, CurrentRow
  <2>2. RunsInTurn(y)
    <3>1. ASSUME NEW q \in RunIds, q > r
          PROVE  y.runs[q] = NoRun
      <4>1. q \in Nat /\ s.job.run \in Nat /\ q # r /\ q > s.job.run
        BY <1>2, <1>4, <3>1 DEF RunIds
      <4> QED
        BY <1>13, <1>14, <4>1 DEF SoundRows, RunsInTurn
    <3>2. ASSUME NEW q \in RunIds, q < r
          PROVE  y.runs[q].lease = "none"
      <4>1. q = s.job.run \/ q < s.job.run
        BY <1>2, <1>4, <3>2 DEF RunIds
      <4>2. s.runs[q].lease = "none"
        BY <1>15, <4>1, <3>2 DEF SoundRows, RunsInTurn
      <4> QED
        BY <1>3, <1>13, <1>14, <3>2, <4>2, RowsTyped
    <3> QED
      BY <1>12, <1>14, <3>1, <3>2 DEF RunsInTurn
  <2>3. Logged(y)
    <3>1. \A a \in s.attempts : a.run \in RunIds
      BY <1>3, RowsTyped DEF AttemptRow
    <3>2. \A q \in RunIds : f[q].token = s.runs[q].token
      BY <1>9, <1>11, <1>13 DEF NoRun
    <3> QED
      BY <1>14, <3>1, <3>2 DEF SoundRows, Logged
  <2>4. Published(y)
    BY <1>11, <1>13, <1>14, <1>15 DEF Published
  <2> QED
    BY <1>4, <1>12, <1>14, <2>1, <2>2, <2>3, <2>4 DEF SoundRows, Limited, Terminal
<1>17. \A a \in s.attempts : a \in y.attempts /\ \E b \in y.attempts : b.run = a.run /\ b.token = a.token
  BY <1>14
<1>18. /\ y.job.status # "absent" /\ y.job.status # "dispatched" /\ y.job.run >= s.job.run
       /\ s.job.status \notin Terminal /\ y.job.run = r
  BY <1>3, <1>4, <1>9, <1>12, <1>14, RowsTyped DEF Terminal
<1>19. \A q \in RunIds \ {y.job.run} : y.runs[q] = s.runs[q]
  BY <1>13, <1>14, <1>18
<1>20. PICK due \in BOOLEAN : x = Enqueued(y, y.job.run, due)
  BY <1>10, <1>18
<1> QED
  BY <1>14, <1>16, <1>17, <1>18, <1>19, <1>20, RoundAdded

LEMMA MarkIsLawful ==
    ASSUME NEW s, SoundRows(s), NEW n, NEW gen, NEW x \in Marked(s, n, gen)
    PROVE  /\ Lawful(s, n, x) /\ x.job.run = s.job.run
           /\ n \in DOMAIN s.outbox /\ s.outbox[n].gen = gen
<1>1. PICK old : old = s.outbox[n]
  OBVIOUS
<1>2. PICK row : row = [old EXCEPT !.state = "sent"]
  OBVIOUS
<1>3. PICK y : y = [s EXCEPT !.outbox[n] = row]
  OBVIOUS
<1>4. /\ n \in DOMAIN s.outbox /\ old.gen = gen
      /\ x = IF s.job.status = "queued" /\ old.run = s.job.run
             THEN WithStatus(y, Transition(s, "dispatch_succeeded")) ELSE y
  BY <1>1, <1>2, <1>3 DEF Marked, IsPending
<1>5. row \in OutboxRow /\ row.run = old.run
  <2>1. old \in OutboxRow
    BY <1>1, <1>4, RowsTyped DEF SoundRows
  <2> QED
    BY <1>2, <2>1 DEF OutboxRow
<1>6. /\ Lawful(s, n, y) /\ y.job = s.job /\ y.runs = s.runs /\ y.attempts = s.attempts
      /\ y.results = s.results
  BY <1>1, <1>3, <1>4, <1>5, RoundMoves
<1>7. CASE ~(s.job.status = "queued" /\ old.run = s.job.run)
  BY <1>1, <1>4, <1>6, <1>7
<1>8. CASE s.job.status = "queued" /\ old.run = s.job.run
  <2>1. PICK t : t = Transition(s, "dispatch_succeeded")
    OBVIOUS
  <2>2. t = Move("dispatched") /\ t \in Transitions
    <3>1. PICK f : f = Facts(s, s.job.open # {})
      OBVIOUS
    <3>2. f \in FactRows /\ f.status = s.job.status /\ t = NextState(f, "dispatch_succeeded")
      BY <1>8, <2>1, <3>1, RowsTyped DEF Transition, Facts, SoundRows
    <3> QED
      BY <1>8, <3>2, NextStateType, UnleasedEvents
  <2>3. /\ t.status = "dispatched" /\ t.status \in Statuses \ {"running", "succeeded"}
        /\ s.job.status \in Statuses \ (Terminal \cup {"running"}) /\ t.status \notin Terminal
    BY <1>8, <2>2 DEF Move, Statuses, Claimable, Terminal
  <2>4. y \in LedgerRows /\ SoundRows(y) /\ y.job.run \in RunIds /\ y.job \in JobRow /\ s \in LedgerRows
    BY <1>6, RowsTyped DEF Lawful, SoundRows
  <2>5. x = WithStatus(y, t)
    BY <1>4, <1>8, <2>1
  <2>6. /\ x \in LedgerRows /\ x.job = [y.job EXCEPT !.status = t.status]
        /\ x.attempts = y.attempts /\ x.outbox = y.outbox /\ x.results = y.results
    BY <2>2, <2>3, <2>4, <2>5, StatusWritten
  <2>7. /\ x.job.status = t.status /\ x.job.run = y.job.run
        /\ x.job.attempts = y.job.attempts /\ x.job.takeovers = y.job.takeovers
    BY <2>4, <2>6 DEF JobRow
  <2>8. SoundRows(x) /\ \A q \in RunIds \ {y.job.run} : x.runs[q] = y.runs[q]
    BY <1>6, <2>2, <2>3, <2>4, <2>5, <2>6, <2>7, StatusMoves
  <2>9. OneRunWritten(s, x)
    BY <1>6, <2>4, <2>7, <2>8, RowsTyped DEF OneRunWritten
  <2>10. EndedIsKept(s, x)
    BY <1>6, <1>8, <2>6, <2>7, <2>8 DEF EndedIsKept, Terminal
  <2>11. RoundsAreKept(s, n, x)
    BY <1>6, <1>8, <2>6 DEF RoundsAreKept, Lawful, Terminal
  <2>12. WaitsForARound(s, n, x)
    BY <1>1, <1>4, <1>6, <1>8, <2>7 DEF WaitsForARound, Waiting
  <2> QED
    BY <1>1, <1>4, <1>6, <2>7, <2>8, <2>9, <2>10, <2>11, <2>12 DEF Lawful
<1> QED
  BY <1>7, <1>8

\* A running job's attempt ends: its row is closed under its own token, its lease is given
\* back, and only a publication leaves a result.
LEMMA AttemptEnds ==
    ASSUME NEW s, SoundRows(s), s.job.status = "running",
           NEW n, n = CurrentRow(s).token, NEW e \in Outcomes \ {"running"},
           NEW x \in LedgerRows, x.job.run = s.job.run,
           x.job.status \notin {"running", "absent"}, Limited(x),
           \A q \in RunIds \ {s.job.run} : x.runs[q] = s.runs[q],
           CurrentRow(x).status = x.job.status, CurrentRow(x).lease = "none",
           CurrentRow(x).token = n,
           x.attempts = (s.attempts \ {AttemptOf(s.job.run, n, "running")})
                            \cup {AttemptOf(s.job.run, n, e)},
           \/ x.results = {} /\ CurrentRow(x).version = 0
           \/ /\ x.job.status = "succeeded" /\ e = "publish_result"
              /\ x.results = {[run |-> s.job.run, version |-> CurrentRow(x).version, token |-> n]}
    PROVE  SoundRows(x) /\ OneRunWritten(s, x) /\ EndedIsKept(s, x)
<1>1. s \in LedgerRows /\ s.job.run \in RunIds /\ n \in Nat
  BY RowsTyped, RunTyped DEF SoundRows, CurrentRow
<1>2. PICK old : old = AttemptOf(s.job.run, n, "running")
  OBVIOUS
<1>3. PICK new : new = AttemptOf(s.job.run, n, e)
  OBVIOUS
<1>4. /\ new.run = s.job.run /\ new.token = n /\ new.outcome = e
      /\ old.run = s.job.run /\ old.token = n /\ old.outcome = "running"
  BY <1>2, <1>3 DEF AttemptOf
<1>5. /\ old \in s.attempts
      /\ \A a \in s.attempts : a.run = s.job.run /\ a.token = n => a = old
      /\ \A a \in s.attempts : a.outcome = "running" => a = old
  <2>1. Consistent(s)
    BY DEF SoundRows
  <2>2. old \in s.attempts
    BY <1>2, <2>1 DEF Consistent
  <2>3. \A a \in s.attempts : a.outcome = "running" => a.run = s.job.run /\ a.token = n
    BY <2>1 DEF Consistent
  <2> QED
    BY <1>4, <2>2, <2>3 DEF SoundRows, Logged
<1>6. x.attempts = (s.attempts \ {old}) \cup {new} /\ e # "running"
  BY <1>2, <1>3
<1>7. \A a \in x.attempts : a.outcome # "running"
  BY <1>4, <1>5, <1>6
<1>8. s.results = {} /\ \A q \in RunIds : s.runs[q].version = 0
  BY RestingRows
<1>9. Consistent(x)
  BY <1>7 DEF Consistent
<1>10. RunsInTurn(x)
  <2>1. ASSUME NEW q \in RunIds
        PROVE  /\ q > s.job.run => x.runs[q] = NoRun
               /\ q < s.job.run => x.runs[q].lease = "none"
    <3>1. CASE q = s.job.run
      BY <3>1, <1>1 DEF RunIds
    <3>2. CASE q # s.job.run
      BY <3>2 DEF SoundRows, RunsInTurn
    <3> QED
      BY <3>1, <3>2
  <2> QED
    BY <2>1 DEF RunsInTurn
<1>11. Logged(x)
  <2>1. \A q \in RunIds : x.runs[q].token = s.runs[q].token
    BY DEF CurrentRow
  <2>2. \A a \in x.attempts : a.token <= x.runs[a.run].token
    <3>1. \A a \in s.attempts : a.run \in RunIds /\ a.token <= s.runs[a.run].token
      BY <1>1, RowsTyped DEF AttemptRow, SoundRows, Logged
    <3>2. new.token <= x.runs[new.run].token
      BY <1>1, <1>4 DEF CurrentRow
    <3> QED
      BY <1>6, <2>1, <3>1, <3>2
  <2>3. \A a, b \in x.attempts : a.run = b.run /\ a.token = b.token => a = b
    <3>1. \A a, b \in s.attempts : a.run = b.run /\ a.token = b.token => a = b
      BY DEF SoundRows, Logged
    <3> QED
      BY <1>4, <1>5, <1>6, <3>1
  <2> QED
    BY <2>2, <2>3 DEF Logged
<1>12. Published(x)
  <2>1. \A q \in RunIds \ {s.job.run} : x.runs[q].version = 0
    BY <1>8
  <2>2. CASE x.results = {} /\ CurrentRow(x).version = 0
    BY <2>1, <2>2 DEF Published, CurrentRow
  <2>3. CASE /\ x.job.status = "succeeded" /\ e = "publish_result"
             /\ x.results = {[run |-> s.job.run, version |-> CurrentRow(x).version, token |-> n]}
    <3>1. PICK v : v = [run |-> s.job.run, version |-> CurrentRow(x).version, token |-> n]
      OBVIOUS
    <3>2. v.run = s.job.run /\ v.version = CurrentRow(x).version /\ v.token = n
      BY <3>1
    <3>3. x.results = {v} /\ AttemptOf(v.run, v.token, "publish_result") \in x.attempts
      BY <1>3, <1>6, <2>3, <3>1, <3>2
    <3> QED
      BY <2>1, <2>3, <3>2, <3>3 DEF Published, CurrentRow
  <2> QED
    BY <2>2, <2>3
<1>13. SoundRows(x)
  BY <1>9, <1>10, <1>11, <1>12 DEF SoundRows
<1>14. EndedIsKept(s, x)
  <2>1. \A a \in s.attempts : a.outcome # "running" => a \in x.attempts
    BY <1>4, <1>6
  <2>2. \A a \in s.attempts : \E b \in x.attempts : b.run = a.run /\ b.token = a.token
    BY <1>4, <1>6
  <2> QED
    BY <1>8, <2>1, <2>2 DEF EndedIsKept, Terminal
<1> QED
  BY <1>1, <1>13, <1>14 DEF OneRunWritten, RunIds

\* What WithStatus and _close_attempt write when a running job's attempt ends.
LEMMA EndWritten ==
    ASSUME NEW s, SoundRows(s), s.job.status = "running", NEW t \in Transitions,
           t.status \in Statuses, t.release, NEW e \in Outcomes,
           NEW y, y = Closed(WithStatus(s, t), e)
    PROVE  /\ y \in LedgerRows /\ y.job = [s.job EXCEPT !.status = t.status]
           /\ y.outbox = s.outbox /\ y.results = s.results /\ s.results = {}
           /\ \A q \in RunIds \ {s.job.run} : y.runs[q] = s.runs[q]
           /\ y.runs[s.job.run].status = t.status /\ y.runs[s.job.run].lease = "none"
           /\ y.runs[s.job.run].token = CurrentRow(s).token
           /\ y.runs[s.job.run].version = 0
           /\ y.attempts = (s.attempts \ {AttemptOf(s.job.run, CurrentRow(s).token, "running")})
                               \cup {AttemptOf(s.job.run, CurrentRow(s).token, e)}
<1>1. s \in LedgerRows /\ s.job.run \in RunIds /\ s.job \in JobRow
  BY RowsTyped DEF SoundRows
<1>2. PICK w : w = WithStatus(s, t)
  OBVIOUS
<1>3. /\ w \in LedgerRows /\ w.job = [s.job EXCEPT !.status = t.status]
      /\ w.attempts = s.attempts /\ w.outbox = s.outbox /\ w.results = s.results
      /\ \A q \in RunIds \ {s.job.run} : w.runs[q] = s.runs[q]
      /\ w.runs[s.job.run].status = t.status /\ w.runs[s.job.run].lease = "none"
      /\ w.runs[s.job.run].token = CurrentRow(s).token
      /\ w.runs[s.job.run].version = CurrentRow(s).version
  BY <1>1, <1>2, StatusWritten
<1>4. s.results = {} /\ CurrentRow(s).version = 0
  BY <1>1, RestingRows DEF CurrentRow
<1>5. w.job.run = s.job.run
  BY <1>1, <1>3 DEF JobRow
<1>6. CurrentRow(w).token = CurrentRow(s).token /\ CurrentRow(s).token # 0
  <2>1. AttemptOf(s.job.run, CurrentRow(s).token, "running") \in AttemptRow
    BY <1>1, RowsTyped DEF SoundRows, Consistent
  <2>2. CurrentRow(s).token # 0
    BY <2>1 DEF AttemptRow, AttemptOf
  <2> QED
    BY <1>3, <1>5, <2>2 DEF CurrentRow
<1>7. /\ y \in LedgerRows /\ y.job = w.job /\ y.runs = w.runs
      /\ y.outbox = w.outbox /\ y.results = w.results
      /\ y.attempts = (w.attempts \ {AttemptOf(w.job.run, CurrentRow(w).token, "running")})
                          \cup {AttemptOf(w.job.run, CurrentRow(w).token, e)}
  BY <1>2, <1>3, <1>6, ClosedWritten
<1> QED
  BY <1>3, <1>4, <1>5, <1>6, <1>7

LEMMA ExpireIsLawful ==
    ASSUME NEW s, SoundRows(s), NEW r, NEW token, NEW x \in Expired(s, r, token)
    PROVE  Lawful(s, 0, x) /\ x.job.run = s.job.run
<1>1. PICK t : t = Transition(s, "lease_expired")
  OBVIOUS
<1>2. PICK y : y = Closed(WithStatus(s, t), "lease_expired")
  OBVIOUS
<1>3. PICK z : z = [y EXCEPT !.job.takeovers = @ + t.takeover]
  OBVIOUS
<1>4. /\ s.job.run = r /\ s.runs[r].lease = "lapsed" /\ t # Conflict
      /\ x = IF t.enqueue THEN Enqueued(z, r, TRUE)
             ELSE [z EXCEPT !.job.problem = TRUE, !.job.open = {}]
  BY <1>1, <1>2, <1>3, Zenon DEF Expired
<1>5. s \in LedgerRows /\ s.job.run \in RunIds /\ s.job \in JobRow /\ s.job.status # "absent"
  BY <1>1, <1>4, RowsTyped DEF SoundRows, Transition
<1>6. s.job.status = "running" /\ s.job.status \notin Terminal
  BY <1>4, <1>5 DEF SoundRows, Consistent, CurrentRow, Terminal
<1>7. /\ t \in Transitions /\ t.status \in {"queued", "failed", "cancelled"} /\ t.release
      /\ t.status = "queued" <=> t.enqueue
      /\ s.job.takeovers + t.takeover \in 0..MaxTakeovers
      /\ t.status \notin Terminal => s.job.takeovers + t.takeover < MaxTakeovers
  <2>1. PICK f : f = Facts(s, s.job.open # {})
    OBVIOUS
  <2>2. /\ f \in FactRows /\ f.status = s.job.status /\ t = NextState(f, "lease_expired")
        /\ f.attempts = s.job.attempts /\ f.takeovers = s.job.takeovers
    BY <1>1, <1>5, <2>1, RowsTyped DEF Transition, Facts
  <2>3. t \in Transitions /\ t.takeover \in {0, 1}
    BY <2>2, NextStateType DEF Transitions
  <2>4. s.job.takeovers < MaxTakeovers /\ s.job.attempts < MaxAttempts /\ s.job.takeovers \in Nat
    BY <1>5, <1>6 DEF SoundRows, Limited, JobRow
  <2>5. /\ s.job.takeovers + t.takeover <= MaxTakeovers
        /\ t.status \notin Terminal => s.job.takeovers + t.takeover < MaxTakeovers
    BY <1>4, <2>2, <2>4, TableKeepsLimits
  <2> QED
    BY <1>6, <2>2, <2>3, <2>4, <2>5, ExpiryReleases, PolicyAssumption
<1>8. t.status \in Statuses /\ t.status \notin {"running", "absent", "succeeded", "dispatched"}
  BY <1>7 DEF Statuses, Claimable, Terminal
<1>9. PICK i : i = [s.job EXCEPT !.status = t.status]
  OBVIOUS
<1>10. PICK n : n = CurrentRow(s).token
  OBVIOUS
<1>11. /\ y \in LedgerRows /\ y.job = i
       /\ y.outbox = s.outbox /\ y.results = {}
       /\ \A q \in RunIds \ {s.job.run} : y.runs[q] = s.runs[q]
       /\ y.runs[s.job.run].status = t.status /\ y.runs[s.job.run].lease = "none"
       /\ y.runs[s.job.run].token = n
       /\ y.runs[s.job.run].version = 0
       /\ y.attempts = (s.attempts \ {AttemptOf(s.job.run, n, "running")})
                           \cup {AttemptOf(s.job.run, n, "lease_expired")}
  <2>1. "lease_expired" \in Outcomes
    BY DEF Outcomes
  <2> QED
    BY <1>2, <1>6, <1>7, <1>8, <1>9, <1>10, <2>1, EndWritten
<1>12. PICK j : j = [i EXCEPT !.takeovers = s.job.takeovers + t.takeover]
  OBVIOUS
<1>13. /\ j \in JobRow /\ j.status = t.status /\ j.run = s.job.run
       /\ j.attempts = s.job.attempts /\ j.takeovers = s.job.takeovers + t.takeover
       /\ i.takeovers = s.job.takeovers
  BY <1>5, <1>7, <1>8, <1>9, <1>12 DEF JobRow
<1>14. z = [y EXCEPT !.job = j]
  BY <1>3, <1>11, <1>12, <1>13 DEF LedgerRows
<1>15. PICK k : k = [j EXCEPT !.problem = TRUE, !.open = {}]
  OBVIOUS
<1>16. /\ k \in JobRow /\ k.status = t.status /\ k.run = s.job.run
       /\ k.attempts = j.attempts /\ k.takeovers = j.takeovers
  BY <1>13, <1>15 DEF JobRow
<1>17. ASSUME NEW w \in LedgerRows, w.job \in {j, k}, w.runs = y.runs, w.attempts = y.attempts,
              w.results = y.results
       PROVE  SoundRows(w) /\ OneRunWritten(s, w) /\ EndedIsKept(s, w)
  <2>1. w.job.status = t.status /\ w.job.run = s.job.run
    BY <1>13, <1>16, <1>17
  <2>2. Limited(w)
    BY <1>6, <1>7, <1>13, <1>16, <1>17 DEF Limited, SoundRows
  <2>3. /\ \A q \in RunIds \ {s.job.run} : w.runs[q] = s.runs[q]
        /\ CurrentRow(w).status = w.job.status /\ CurrentRow(w).lease = "none"
        /\ CurrentRow(w).token = n /\ CurrentRow(w).version = 0 /\ w.results = {}
    BY <1>11, <1>17, <2>1 DEF CurrentRow
  <2>4. "lease_expired" \in Outcomes \ {"running"}
    BY DEF Outcomes
  <2>5. w.job.status \notin {"running", "absent"}
    BY <1>8, <2>1
  <2>6. w.attempts = (s.attempts \ {AttemptOf(s.job.run, n, "running")})
                           \cup {AttemptOf(s.job.run, n, "lease_expired")}
    BY <1>11, <1>17
  <2> QED
    BY <1>6, <1>10, <2>1, <2>2, <2>3, <2>4, <2>5, <2>6, AttemptEnds
<1>18. CASE t.enqueue
  <2>1. /\ z \in LedgerRows /\ z.job = j /\ z.runs = y.runs /\ z.attempts = y.attempts
        /\ z.outbox = s.outbox /\ z.results = y.results
    BY <1>11, <1>13, <1>14 DEF LedgerRows
  <2>2. SoundRows(z) /\ OneRunWritten(s, z) /\ EndedIsKept(s, z)
    BY <1>17, <2>1
  <2>3. x = Enqueued(z, z.job.run, TRUE) /\ z.job.run = s.job.run /\ z.job.status = t.status
    BY <1>4, <1>13, <1>18, <2>1
  <2>4. PICK due \in BOOLEAN : x = Enqueued(z, z.job.run, due)
    BY <2>3
  <2>5. /\ z.job.run >= s.job.run
        /\ \A q \in RunIds \ {z.job.run} : z.runs[q] = s.runs[q]
        /\ \A a \in s.attempts : a.outcome # "running" => a \in z.attempts
        /\ \A a \in s.attempts : \E b \in z.attempts : b.run = a.run /\ b.token = a.token
        /\ s.results \subseteq z.results
    BY <2>2 DEF OneRunWritten, EndedIsKept
  <2> QED
    <3>1. z.job.status # "absent" /\ z.job.status # "dispatched" /\ SoundRows(z)
      BY <1>8, <2>2, <2>3
    <3>2. Lawful(s, 0, x) /\ x.job = z.job
      BY <1>6, <2>1, <2>4, <2>5, <3>1, RoundAdded
    <3> QED
      BY <2>3, <3>2
<1>19. CASE ~t.enqueue
  <2>1. x = [y EXCEPT !.job = k]
    BY <1>4, <1>11, <1>14, <1>15, <1>19 DEF LedgerRows
  <2>2. /\ x \in LedgerRows /\ x.job = k /\ x.runs = y.runs /\ x.attempts = y.attempts
        /\ x.outbox = s.outbox /\ x.results = y.results
    BY <1>11, <1>16, <2>1 DEF LedgerRows
  <2>3. SoundRows(x) /\ OneRunWritten(s, x) /\ EndedIsKept(s, x)
    BY <1>17, <2>2
  <2>4. x.job.status \notin Waiting /\ x.job.run = s.job.run
    BY <1>7, <1>8, <1>16, <1>19, <2>2 DEF Waiting
  <2>5. RoundsAreKept(s, 0, x)
    BY <1>5, <2>2, RowsTyped DEF RoundsAreKept
  <2>6. WaitsForARound(s, 0, x)
    BY <2>4 DEF WaitsForARound, Waiting
  <2> QED
    BY <2>3, <2>4, <2>5, <2>6 DEF Lawful
<1> QED
  BY <1>18, <1>19

LEMMA FinishIsLawful ==
    ASSUME NEW s, SoundRows(s), NEW a, NEW event \in FinishEvents, NEW open \in SUBSET Tasks,
           NEW x \in Finished(s, a, event, open)
    PROVE  Lawful(s, 0, x) /\ x.job.run = s.job.run
<1>1. PICK f : f = Facts(s, open # {})
  OBVIOUS
<1>2. PICK t : t = NextState(f, event)
  OBVIOUS
<1>3. PICK y : y = Closed(WithStatus(s, t), event)
  OBVIOUS
<1>4. PICK j : j = [y.job EXCEPT !.attempts = s.job.attempts + t.attempt,
                                 !.problem = t.status \in {"failed", "cancelled"},
                                 !.open = IF t.status = "cancelled" THEN {} ELSE open]
  OBVIOUS
<1>5. PICK z : z = [y EXCEPT !.job = j]
  OBVIOUS
<1>6. PICK n : n = CurrentRow(s).token
  OBVIOUS
<1>7. /\ s.job.status = "running" /\ a.run = s.job.run /\ a.token = n /\ a.expected = CurrentRow(s).version
      /\ t # Conflict
      /\ x = IF event # "publish_result" THEN z
             ELSE [z EXCEPT !.runs[a.run].version = a.expected + 1,
                            !.results = @ \cup {[run |-> a.run, version |-> a.expected + 1, token |-> a.token]}]
  <2>1. Authority(s, a) /\ t # Conflict
    BY <1>1, <1>2, Zenon DEF Finished
  <2>2. x = IF event # "publish_result" THEN z
             ELSE [z EXCEPT !.runs[a.run].version = a.expected + 1,
                            !.results = @ \cup {[run |-> a.run, version |-> a.expected + 1, token |-> a.token]}]
    BY <1>1, <1>2, <1>3, <1>4, <1>5, <2>1, Zenon DEF Finished
  <2> QED
    BY <1>6, <2>1, <2>2 DEF Authority, CurrentRow
<1>8. s \in LedgerRows /\ s.job.run \in RunIds /\ s.job \in JobRow /\ s.job.status \notin Terminal
  BY <1>7, RowsTyped DEF SoundRows, Terminal
<1>9. /\ t \in Transitions /\ t.release
      /\ t.status \in {"waiting_for_human", "succeeded", "failed", "cancelled", "retryable_failed"}
      /\ t.status = "succeeded" <=> event = "publish_result"
      /\ s.job.attempts + t.attempt \in 0..MaxAttempts
      /\ t.status \notin Terminal => s.job.attempts + t.attempt < MaxAttempts
  <2>1. /\ f \in FactRows /\ f.attempts = s.job.attempts /\ f.takeovers = s.job.takeovers
    BY <1>1, <1>7, <1>8, RowsTyped DEF Facts
  <2>2. t \in Transitions /\ t.attempt \in {0, 1}
    BY <1>2, <2>1, NextStateType DEF Transitions
  <2>3. s.job.takeovers < MaxTakeovers /\ s.job.attempts < MaxAttempts /\ s.job.attempts \in Nat
    BY <1>8 DEF SoundRows, Limited, JobRow
  <2>4. /\ s.job.attempts + t.attempt <= MaxAttempts
        /\ t.status \notin Terminal => s.job.attempts + t.attempt < MaxAttempts
    BY <1>2, <1>7, <2>1, <2>3, TableKeepsLimits
  <2>5. s.job.attempts + t.attempt \in 0..MaxAttempts
    BY <2>2, <2>3, <2>4, PolicyAssumption
  <2> QED
    BY <1>2, <1>7, <2>1, <2>2, <2>4, <2>5, FinishReleases
<1>10. /\ t.status \in Statuses /\ t.status \notin {"running", "absent"} /\ t.status \notin Waiting
       /\ event \in Outcomes \ {"running"}
  BY <1>9 DEF Statuses, Claimable, Terminal, Waiting, FinishEvents, Outcomes
<1>11. PICK i : i = [s.job EXCEPT !.status = t.status]
  OBVIOUS
<1>12. /\ y \in LedgerRows /\ y.job = i
       /\ y.outbox = s.outbox /\ y.results = {}
       /\ \A q \in RunIds \ {s.job.run} : y.runs[q] = s.runs[q]
       /\ y.runs[s.job.run].status = t.status /\ y.runs[s.job.run].lease = "none"
       /\ y.runs[s.job.run].token = n
       /\ y.runs[s.job.run].version = 0
       /\ y.attempts = (s.attempts \ {AttemptOf(s.job.run, n, "running")})
                           \cup {AttemptOf(s.job.run, n, event)}
  BY <1>3, <1>6, <1>7, <1>9, <1>10, <1>11, EndWritten
<1>13. /\ j \in JobRow /\ j.status = t.status /\ j.run = s.job.run
       /\ j.attempts = s.job.attempts + t.attempt /\ j.takeovers = s.job.takeovers
  <2>1. PICK left : left = IF t.status = "cancelled" THEN {} ELSE open
    OBVIOUS
  <2>2. PICK bad : bad = (t.status \in {"failed", "cancelled"})
    OBVIOUS
  <2>3. left \in SUBSET Tasks /\ bad \in BOOLEAN
    BY <2>1, <2>2
  <2>4. j = [i EXCEPT !.attempts = s.job.attempts + t.attempt, !.problem = bad, !.open = left]
    BY <1>4, <1>12, <2>1, <2>2
  <2>5. i \in JobRow /\ i.status = t.status /\ i.run = s.job.run /\ i.takeovers = s.job.takeovers
    BY <1>8, <1>10, <1>11 DEF JobRow
  <2> QED
    BY <1>9, <2>3, <2>4, <2>5 DEF JobRow
<1>14. /\ z \in LedgerRows /\ z.job = j /\ z.runs = y.runs /\ z.attempts = y.attempts
       /\ z.outbox = s.outbox /\ z.results = {}
  BY <1>5, <1>12, <1>13 DEF LedgerRows
<1>15. ASSUME NEW w \in LedgerRows, w.job = j, w.outbox = s.outbox, w.attempts = z.attempts,
              \A q \in RunIds \ {s.job.run} : w.runs[q] = s.runs[q],
              CurrentRow(w).status = t.status, CurrentRow(w).lease = "none",
              CurrentRow(w).token = n,
              \/ w.results = {} /\ CurrentRow(w).version = 0
              \/ /\ w.job.status = "succeeded" /\ event = "publish_result"
                 /\ w.results = {[run |-> s.job.run, version |-> CurrentRow(w).version, token |-> n]}
       PROVE  Lawful(s, 0, w) /\ w.job.run = s.job.run
  <2>1. Limited(w)
    BY <1>8, <1>9, <1>13, <1>15 DEF Limited, SoundRows
  <2>2. w.attempts = (s.attempts \ {AttemptOf(s.job.run, n, "running")})
                           \cup {AttemptOf(s.job.run, n, event)}
    BY <1>12, <1>14, <1>15
  <2>3. /\ w.job.run = s.job.run /\ w.job.status = t.status
        /\ w.job.status \notin {"running", "absent"} /\ w.job.status \notin Waiting
    BY <1>10, <1>13, <1>15
  <2>4. SoundRows(w) /\ OneRunWritten(s, w) /\ EndedIsKept(s, w)
    BY <1>6, <1>7, <1>10, <1>15, <2>1, <2>2, <2>3, AttemptEnds
  <2>5. RoundsAreKept(s, 0, w)
    BY <1>8, <1>15, RowsTyped DEF RoundsAreKept
  <2>6. WaitsForARound(s, 0, w)
    BY <2>3 DEF WaitsForARound, Waiting
  <2> QED
    BY <2>3, <2>4, <2>5, <2>6 DEF Lawful
<1>16. CASE event # "publish_result"
  <2>1. x = z
    BY <1>7, <1>16
  <2>2. /\ CurrentRow(z).status = t.status /\ CurrentRow(z).lease = "none"
        /\ CurrentRow(z).token = n /\ CurrentRow(z).version = 0
    BY <1>12, <1>13, <1>14 DEF CurrentRow
  <2> QED
    BY <1>12, <1>14, <1>15, <2>1, <2>2
<1>17. CASE event = "publish_result"
  <2>1. PICK row : row = [y.runs[s.job.run] EXCEPT !.version = 1]
    OBVIOUS
  <2>2. PICK g : g = [y.runs EXCEPT ![s.job.run] = row]
    OBVIOUS
  <2>3. PICK v : v = [run |-> s.job.run, version |-> 1, token |-> n]
    OBVIOUS
  <2>4. a.expected + 1 = 1
    BY <1>7, <1>8, RestingRows DEF CurrentRow
  <2>5. x = [z EXCEPT !.runs[s.job.run].version = 1, !.results = @ \cup {v}]
    BY <1>7, <1>17, <2>3, <2>4
  <2>6. x = [z EXCEPT !.runs = g, !.results = {v}]
    BY <1>8, <1>14, <2>1, <2>2, <2>5 DEF LedgerRows
  <2>7. /\ row \in RunRow /\ row.status = t.status /\ row.lease = "none" /\ row.token = n
        /\ row.version = 1
    <3>1. PICK old : old = y.runs[s.job.run]
      OBVIOUS
    <3>2. old \in RunRow /\ old.status = t.status /\ old.lease = "none" /\ old.token = n
      BY <1>8, <1>12, <3>1, RowsTyped
    <3>3. row = [old EXCEPT !.version = 1]
      BY <2>1, <3>1
    <3> QED
      BY <3>2, <3>3 DEF RunRow
  <2>8. g \in [RunIds -> RunRow] /\ g[s.job.run] = row /\ \A q \in RunIds \ {s.job.run} : g[q] = s.runs[q]
    BY <1>8, <1>12, <2>2, <2>7, RowsTyped
  <2>9. v \in ResultRow
    <3>1. AttemptOf(s.job.run, n, "running") \in AttemptRow
      BY <1>6, <1>7, <1>8, RowsTyped DEF SoundRows, Consistent
    <3>2. n \in Nat \ {0}
      BY <3>1 DEF AttemptRow, AttemptOf
    <3> QED
      BY <1>8, <2>3, <3>2 DEF ResultRow
  <2>10. /\ x \in LedgerRows /\ x.job = j /\ x.runs = g /\ x.attempts = z.attempts
         /\ x.outbox = s.outbox /\ x.results = {v}
    BY <1>14, <2>6, <2>8, <2>9 DEF LedgerRows
  <2>11. /\ CurrentRow(x).status = t.status /\ CurrentRow(x).lease = "none"
         /\ CurrentRow(x).token = n /\ CurrentRow(x).version = 1
         /\ x.job.status = "succeeded"
    BY <1>9, <1>13, <1>17, <2>7, <2>8, <2>10 DEF CurrentRow
  <2>12. x.results = {[run |-> s.job.run, version |-> CurrentRow(x).version, token |-> n]}
    BY <2>3, <2>10, <2>11
  <2> QED
    BY <1>15, <1>17, <2>8, <2>10, <2>11, <2>12
<1> QED
  BY <1>16, <1>17

-----------------------------------------------------------------------------
(***************************************************************************)
(* The ledger's operations are the port's: JobLedger is instantiated with  *)
(* the rows for its variable and keeps every constant.                     *)
(***************************************************************************)

LEMMA SameTable == \A f, e : Ledger!NextState(f, e) = NextState(f, e)
BY Zenon DEF Ledger!NextState, NextState, Ledger!Decide, Decide, Ledger!Terminal, Terminal, Ledger!LeaseBound, LeaseBound,
  Ledger!Conflict, Conflict, Ledger!Move, Move, Ledger!Release, Release, Ledger!Enqueue, Enqueue, Ledger!CancelPreempted, CancelPreempted,
  Ledger!LeaseExpired, LeaseExpired, Ledger!NeedsHuman, NeedsHuman, Ledger!RetryableError, RetryableError, Ledger!Claimable, Claimable,
  Ledger!Cancellable, Cancellable

LEMMA SameFacts ==
   /\ \A s, o : Ledger!Facts(s, o) = Facts(s, o)
   /\ Ledger!Conflict = Conflict
   /\ \A s, t : Ledger!WithStatus(s, t) = WithStatus(s, t)
   /\ \A s, r, d : Ledger!Enqueued(s, r, d) = Enqueued(s, r, d)
   /\ \A s, e : Ledger!Closed(s, e) = Closed(s, e)
   /\ \A s, a : Ledger!Authority(s, a) = Authority(s, a)
   /\ \A s, n, g : Ledger!IsPending(s, n, g) = IsPending(s, n, g)
BY Zenon DEF Ledger!Facts, Facts, Ledger!WithStatus, WithStatus, Ledger!Enqueued, Enqueued, Ledger!Closed, Closed, Ledger!Authority, Authority, Ledger!IsPending, IsPending, Ledger!None, None, Ledger!Conflict, Conflict, Ledger!Move, Move

LEMMA SameTransition == \A s, e : Ledger!Transition(s, e) = Transition(s, e)
BY SameTable, SameFacts DEF Ledger!Transition, Transition

LEMMA SameCreated == \A s : Ledger!Created(s) = Created(s)
BY Zenon DEF Ledger!Created, Created, Ledger!InitialTransition, InitialTransition, Ledger!Enqueue, Enqueue, Ledger!Move, Move, Ledger!Enqueued, Enqueued

LEMMA SameClaimed == \A s, r : Ledger!Claimed(s, r) = Claimed(s, r)
BY SameFacts, SameTransition DEF Ledger!Claimed, Claimed

LEMMA SameHeartbeaten == \A s, r : Ledger!Heartbeaten(s, r) = Heartbeaten(s, r)
BY SameFacts, SameTransition DEF Ledger!Heartbeaten, Heartbeaten

LEMMA SameFinished == \A s, a, e, o : Ledger!Finished(s, a, e, o) = Finished(s, a, e, o)
<1> TAKE s, a, event, open
<1>1. PICK f : f = Facts(s, open # {})
  OBVIOUS
<1>2. PICK t : t = NextState(f, event)
  OBVIOUS
<1>3. PICK y : y = Closed(WithStatus(s, t), event)
  OBVIOUS
<1>4. PICK z : z = [y EXCEPT !.job = [y.job EXCEPT !.attempts = s.job.attempts + t.attempt,
                                             !.problem = t.status \in {"failed", "cancelled"},
                                             !.open = IF t.status = "cancelled" THEN {} ELSE open]]
  OBVIOUS
<1>5. /\ Ledger!Facts(s, open # {}) = f /\ Ledger!NextState(f, event) = t
      /\ Ledger!Closed(Ledger!WithStatus(s, t), event) = y
  BY <1>1, <1>2, <1>3, SameFacts, SameTable
<1>6. Finished(s, a, event, open) =
        IF ~Authority(s, a) \/ t = Conflict THEN {}
        ELSE IF event # "publish_result" THEN {z}
        ELSE {[z EXCEPT !.runs[a.run].version = a.expected + 1,
                        !.results = @ \cup {[run |-> a.run, version |-> a.expected + 1, token |-> a.token]}]}
  BY <1>1, <1>2, <1>3, <1>4, ZenonT(60) DEF Finished
<1>7. Ledger!Finished(s, a, event, open) =
        IF ~Ledger!Authority(s, a) \/ t = Ledger!Conflict THEN {}
        ELSE IF event # "publish_result" THEN {z}
        ELSE {[z EXCEPT !.runs[a.run].version = a.expected + 1,
                        !.results = @ \cup {[run |-> a.run, version |-> a.expected + 1, token |-> a.token]}]}
  BY <1>4, <1>5, ZenonT(60) DEF Ledger!Finished
<1> QED
  BY <1>6, <1>7, SameFacts

LEMMA SameExpired == \A s, a, e : Ledger!Expired(s, a, e) = Expired(s, a, e)
<1> TAKE s, r, token
<1>1. PICK t : t = Transition(s, "lease_expired")
  OBVIOUS
<1>2. PICK y : y = Closed(WithStatus(s, t), "lease_expired")
  OBVIOUS
<1>3. PICK z : z = [y EXCEPT !.job.takeovers = @ + t.takeover]
  OBVIOUS
<1>4. PICK w : w = Enqueued(z, r, TRUE)
  OBVIOUS
<1>5. /\ Ledger!Transition(s, "lease_expired") = t
      /\ Ledger!Closed(Ledger!WithStatus(s, t), "lease_expired") = y
      /\ Ledger!Enqueued(z, r, TRUE) = w
  BY <1>1, <1>2, <1>4, SameFacts, SameTransition
<1>6. Expired(s, r, token) =
        IF s.job.run # r \/ s.runs[r].token # token \/ s.runs[r].lease # "lapsed" \/ t = Conflict THEN {}
        ELSE {IF t.enqueue THEN w ELSE [z EXCEPT !.job.problem = TRUE, !.job.open = {}]}
  BY <1>1, <1>2, <1>3, <1>4, Zenon DEF Expired
<1>7. Ledger!Expired(s, r, token) =
        IF s.job.run # r \/ s.runs[r].token # token \/ s.runs[r].lease # "lapsed" \/ t = Ledger!Conflict THEN {}
        ELSE {IF t.enqueue THEN w ELSE [z EXCEPT !.job.problem = TRUE, !.job.open = {}]}
  BY <1>3, <1>5, Zenon DEF Ledger!Expired
<1> QED
  BY <1>6, <1>7, SameFacts, Zenon

LEMMA SameCancelled == \A s : Ledger!Cancelled(s) = Cancelled(s)
BY SameFacts, SameTransition, SameTable DEF Ledger!Cancelled, Cancelled

LEMMA SameRetryScheduled == \A s : Ledger!RetryScheduled(s) = RetryScheduled(s)
BY SameFacts, SameTransition, SameTable DEF Ledger!RetryScheduled, RetryScheduled

LEMMA SameTaskRejected == \A s, r, t : Ledger!TaskRejected(s, r, t) = TaskRejected(s, r, t)
<1> TAKE s, r, task
<1>1. PICK left : left = s.job.open \ {task}
  OBVIOUS
<1>2. PICK f : f = Facts(s, left # {})
  OBVIOUS
<1>3. PICK t : t = NextState(f, "human_rejected")
  OBVIOUS
<1>4. PICK y : y = WithStatus(s, t)
  OBVIOUS
<1>5. Ledger!Facts(s, left # {}) = f /\ Ledger!NextState(f, "human_rejected") = t /\ Ledger!WithStatus(s, t) = y
  BY <1>2, <1>3, <1>4, SameFacts, SameTable
<1>6. TaskRejected(s, r, task) =
        IF s.job.run # r \/ task \notin s.job.open \/ t = Conflict THEN {}
        ELSE {[y EXCEPT !.job.open = left, !.job.problem = t.status = "failed"]}
  BY <1>1, <1>2, <1>3, <1>4, Zenon DEF TaskRejected
<1>7. Ledger!TaskRejected(s, r, task) =
        IF s.job.run # r \/ task \notin s.job.open \/ t = Ledger!Conflict THEN {}
        ELSE {[y EXCEPT !.job.open = left, !.job.problem = t.status = "failed"]}
  BY <1>1, <1>5, Zenon DEF Ledger!TaskRejected
<1> QED
  BY <1>6, <1>7, SameFacts, Zenon

LEMMA SameResumed == \A s : Ledger!Resumed(s) = Resumed(s)
<1> TAKE s
<1>1. PICK t : t = Transition(s, "human_response_committed")
  OBVIOUS
<1>2. PICK r : r = s.job.run + 1
  OBVIOUS
<1>3. PICK z : z = Enqueued([s EXCEPT !.job = [@ EXCEPT !.status = t.status, !.run = r, !.open = {}],
                                 !.runs[r].status = t.status], r, TRUE)
  OBVIOUS
<1>4. /\ Ledger!Transition(s, "human_response_committed") = t
      /\ Ledger!Enqueued([s EXCEPT !.job = [@ EXCEPT !.status = t.status, !.run = r, !.open = {}],
                                 !.runs[r].status = t.status], r, TRUE) = z
      /\ Ledger!RunIds = RunIds
  BY <1>1, <1>3, SameFacts, SameTransition, Zenon DEF Ledger!RunIds, RunIds
<1>5. Resumed(s) = IF t = Conflict \/ r \notin RunIds THEN {} ELSE {z}
  BY <1>1, <1>2, <1>3, Zenon DEF Resumed
<1>6. Ledger!Resumed(s) = IF t = Ledger!Conflict \/ r \notin Ledger!RunIds THEN {} ELSE {z}
  BY <1>2, <1>4, Zenon DEF Ledger!Resumed
<1> QED
  BY <1>4, <1>5, <1>6, SameFacts, Zenon

LEMMA SameMarked == \A s, n, g : Ledger!Marked(s, n, g) = Marked(s, n, g)
BY SameFacts, SameTransition, SameTable DEF Ledger!Marked, Marked

LEMMA SameDeferred == \A s, n, g : Ledger!Deferred(s, n, g) = Deferred(s, n, g)
BY SameFacts, SameTransition, SameTable DEF Ledger!Deferred, Deferred, Ledger!Terminal, Terminal

LEMMA SameEffect == \A s, o : Ledger!Effect(s, o) = Effect(s, o)
BY SameCreated, SameClaimed, SameHeartbeaten, SameFinished, SameExpired, SameCancelled, SameRetryScheduled, SameTaskRejected, SameResumed, SameMarked, SameDeferred DEF Ledger!Effect, Effect

LEMMA SameCalls == \A s, h : Ledger!Calls(s, h) = Calls(s, h)
BY SMT DEF Ledger!Calls, Calls, Ledger!RunIds, RunIds, Ledger!FinishEvents, FinishEvents

LEMMA SameLater == \A s : Ledger!Later(s) = Later(s)
BY Zenon DEF Ledger!Later, Later, Ledger!RunIds, RunIds

LEMMA SameEmpty == Ledger!Empty = Empty
BY Zenon DEF Ledger!Empty, Empty, Ledger!NoRun, NoRun, Ledger!None, None, Ledger!RunIds, RunIds

-----------------------------------------------------------------------------
(***************************************************************************)
(* Every call of the port, and the invariant of the store                  *)
(***************************************************************************)

\* The round a call marks, if it is a confirmation.
MarkedRound(o) == IF o.kind = "mark" THEN o.n ELSE 0

LEMMA EffectIsLawful ==
    ASSUME NEW s, SoundRows(s), NEW h, NEW o \in Calls(s, h), NEW x \in Effect(s, o)
    PROVE  /\ Lawful(s, MarkedRound(o), x)
           /\ o.kind # "resume" => x.job.run = s.job.run
<1>1. CASE o.kind = "create"
  BY <1>1, CreateIsLawful DEF Effect, MarkedRound
<1>2. CASE o.kind = "claim"
  <2>1. o.run \in RunIds
    BY <1>2 DEF Calls
  <2> QED
    BY <1>2, <2>1, ClaimIsLawful DEF Effect, MarkedRound
<1>3. CASE o.kind = "heartbeat"
  BY <1>3, HeartbeatIsLawful DEF Effect, MarkedRound
<1>4. CASE o.kind = "finish"
  <2>1. o.event \in FinishEvents /\ o.open \in SUBSET Tasks
    BY <1>4 DEF Calls, FinishEvents
  <2> QED
    BY <1>4, <2>1, FinishIsLawful DEF Effect, MarkedRound
<1>5. CASE o.kind = "expire"
  BY <1>5, ExpireIsLawful DEF Effect, MarkedRound
<1>6. CASE o.kind = "cancel"
  BY <1>6, CancelIsLawful DEF Effect, MarkedRound
<1>7. CASE o.kind = "retry"
  BY <1>7, RetryIsLawful DEF Effect, MarkedRound
<1>8. CASE o.kind = "reject"
  BY <1>8, RejectIsLawful DEF Effect, MarkedRound
<1>9. CASE o.kind = "resume"
  BY <1>9, ResumeIsLawful DEF Effect, MarkedRound
<1>10. CASE o.kind = "mark"
  BY <1>10, MarkIsLawful DEF Effect, MarkedRound
<1>11. CASE o.kind = "defer"
  <2>1. o.gen \in 0..MaxDefers
    BY <1>11 DEF Calls
  <2> QED
    BY <1>11, <2>1, DeferIsLawful DEF Effect, MarkedRound
<1>12. o.kind \in {"create", "cancel", "retry", "resume", "claim", "heartbeat", "finish", "expire",
                   "reject", "mark", "defer"}
  BY DEF Calls
<1> QED
  BY <1>1, <1>2, <1>3, <1>4, <1>5, <1>6, <1>7, <1>8, <1>9, <1>10, <1>11, <1>12

\* A call under way has read the rows as they are, since every transaction is conditional
\* on the job's row and writes it: whatever commits ends all other calls under way.
Snapshots ==
    \A c \in Clients : client[c] # Idle =>
        LET o == client[c].op
        IN  /\ client[c].read = Rows
            /\ o \in Calls(Rows, held)
            /\ o.kind = "mark" => <<o.n, o.gen>> \in queue
ClientsTyped ==
    /\ client = [c \in Clients |-> client[c]]
    /\ \A c \in Clients : client[c] = [op |-> client[c].op, read |-> client[c].read]

\* What a worker was told of its claim is recorded.
HeldIsClaimed ==
    \A h \in held : /\ h \in ClaimedAttempt /\ h.expected = 0
                    /\ \E a \in attempts : a.run = h.run /\ a.token = h.token
QueueIsRecorded ==
    \A m \in queue : /\ m[1] \in DOMAIN outbox /\ m[2] \in 0..MaxDefers
                     /\ m = <<m[1], m[2]>>

Inv ==
    /\ SoundRows(Rows) /\ ClientsTyped /\ Snapshots /\ HeldIsClaimed /\ QueueIsRecorded
    /\ DispatchedIsHandedOver /\ NoLostWork

LEMMA EmptyIsSound == SoundRows(Empty)
<1>1. 1 \in RunIds /\ MaxAttempts \in Nat \ {0} /\ MaxTakeovers \in Nat \ {0}
  BY RowsAssumption, PolicyAssumption DEF RunIds
<1>2. NoRun \in RunRow
  BY DEF NoRun, RunRow, None
<1>3. Empty.job \in JobRow
  BY <1>1 DEF Empty, JobRow
<1>4. Empty \in LedgerRows
  BY <1>2, <1>3 DEF Empty, LedgerRows
<1>5. /\ Empty.job.run = 1 /\ Empty.job.status = "absent" /\ Empty.job.attempts = 0
      /\ Empty.job.takeovers = 0 /\ Empty.attempts = {} /\ Empty.results = {}
      /\ \A q \in RunIds : Empty.runs[q] = NoRun
  BY DEF Empty
<1>6. NoRun.version = 0 /\ NoRun.lease = "none"
  BY DEF NoRun
<1> QED
  BY <1>1, <1>4, <1>5, <1>6 DEF SoundRows, RunsInTurn, Logged, Published, Limited

LEMMA InitSound ==
    ASSUME Init
    PROVE  Inv /\ Rows = Empty
<1>1. Rows = Empty
  BY DEF Init, Rows, Empty
<1>2. client = [c \in Clients |-> Idle] /\ queue = {} /\ held = {} /\ job.status = "absent"
  BY DEF Init, Empty
<1>3. ClientsTyped /\ Snapshots
  BY <1>2 DEF ClientsTyped, Snapshots, Idle
<1> QED
  BY <1>1, <1>2, <1>3, EmptyIsSound
     DEF Inv, HeldIsClaimed, QueueIsRecorded, DispatchedIsHandedOver, NoLostWork

\* A transaction on rows that are as they were read leaves exactly the rows it decided on.
LEMMA PutWrites ==
    ASSUME NEW c \in Clients, client[c].read = Rows, NEW n, NEW x, Lawful(Rows, n, x),
           SoundRows(Rows), client[c].op.kind # "resume" => x.job.run = job.run, Put(c, x)
    PROVE  Rows' = x
<1>1. PICK s : s = Rows
  OBVIOUS
<1>2. /\ s.job = job /\ s.runs = runs /\ s.attempts = attempts /\ s.outbox = outbox
      /\ s.results = results /\ s \in LedgerRows /\ x \in LedgerRows
  BY <1>1 DEF Rows, Lawful, SoundRows
<1>3. PICK r : r = x.job.run
  OBVIOUS
<1>4. PICK new : new = IF Len(x.outbox) > Len(s.outbox) THEN {Len(x.outbox)} ELSE {}
  OBVIOUS
<1>5. /\ job' = x.job
      /\ runs' = [runs EXCEPT ![r] = x.runs[r]]
      /\ attempts' = (attempts \ (s.attempts \ x.attempts)) \cup (x.attempts \ s.attempts)
      /\ outbox' = [m \in DOMAIN outbox \cup new |->
                       IF m \in new \/ (m \in DOMAIN s.outbox /\ s.outbox[m] # x.outbox[m])
                       THEN x.outbox[m] ELSE outbox[m]]
      /\ results' = results \cup (x.results \ s.results)
  <2>1. r = IF client[c].op.kind = "resume" THEN x.job.run ELSE s.job.run
    BY <1>2, <1>3
  <2> QED
    BY <1>1, <1>4, <2>1, Zenon DEF Put
<1>6. runs' = x.runs
  <2>1. \A q \in RunIds \ {r} : x.runs[q] = runs[q]
    BY <1>1, <1>2, <1>3 DEF Lawful, OneRunWritten
  <2>2. runs \in [RunIds -> RunRow] /\ x.runs \in [RunIds -> RunRow] /\ r \in RunIds
    BY <1>2, <1>3, RowsTyped
  <2> QED
    BY <1>5, <2>1, <2>2
<1>7. attempts' = x.attempts
  BY <1>2, <1>5
<1>8. results' = x.results
  BY <1>1, <1>2, <1>5 DEF Lawful, EndedIsKept
<1>9. outbox' = x.outbox
  <2>1. x.outbox \in Seq(OutboxRow) /\ outbox \in Seq(OutboxRow)
    BY <1>2, RowsTyped
  <2>2. Len(x.outbox) \in {Len(outbox), Len(outbox) + 1}
    BY <1>1, <1>2 DEF Lawful, RoundsAreKept
  <2>3. DOMAIN x.outbox = DOMAIN outbox \cup new
    BY <1>2, <1>4, <2>1, <2>2
  <2>4. \A m \in DOMAIN x.outbox : outbox'[m] = x.outbox[m]
    BY <1>2, <1>5, <2>3
  <2>5. outbox' = [m \in DOMAIN x.outbox |-> x.outbox[m]]
    BY <1>2, <1>5, <2>3
  <2>6. x.outbox = [m \in DOMAIN x.outbox |-> x.outbox[m]]
    BY <2>1
  <2> QED
    BY <2>5, <2>6
<1>10. x = [job |-> x.job, runs |-> x.runs, attempts |-> x.attempts, outbox |-> x.outbox,
            results |-> x.results]
  BY <1>2 DEF LedgerRows
<1> QED
  BY <1>5, <1>6, <1>7, <1>8, <1>9, <1>10 DEF Rows

\* What is waited for stays in line, and a job is dispatched by a message for its run.
LEMMA HandoverKept ==
    ASSUME Inv, NEW n, NEW x, Lawful(Rows, n, x), Rows' = x, queue \subseteq queue',
           n # 0 => \E g \in 0..MaxDefers : <<n, g>> \in queue
    PROVE  (DispatchedIsHandedOver /\ NoLostWork)'
<1>1. PICK s : s = Rows
  OBVIOUS
<1>2. /\ s.job = job /\ s.outbox = outbox /\ x.job = job' /\ x.outbox = outbox'
      /\ s \in LedgerRows /\ x \in LedgerRows
  <2>1. x.job = job' /\ x.outbox = outbox'
    BY DEF Rows
  <2> QED
    BY <1>1, <2>1 DEF Rows, Lawful, SoundRows, Inv
<1>3. RoundsAreKept(s, n, x) /\ WaitsForARound(s, n, x)
  BY <1>1 DEF Lawful
<1>4. DOMAIN outbox \subseteq DOMAIN outbox'
  <2>1. outbox \in Seq(OutboxRow) /\ outbox' \in Seq(OutboxRow)
    BY <1>2, RowsTyped
  <2>2. Len(outbox') \in {Len(outbox), Len(outbox) + 1}
    BY <1>2, <1>3 DEF RoundsAreKept
  <2> QED
    BY <2>1, <2>2
<1>5. \A m \in DOMAIN outbox :
         /\ outbox'[m].run = outbox[m].run
         /\ outbox[m].state = "pending" /\ m # n /\ job'.status \notin Terminal
               => outbox'[m].state = "pending"
  BY <1>2, <1>3 DEF RoundsAreKept
<1>6. \A m \in queue : m[1] \in DOMAIN outbox /\ m \in queue'
  BY DEF Inv, QueueIsRecorded
<1>7. DispatchedIsHandedOver'
  <2> SUFFICES ASSUME job'.status = "dispatched"
               PROVE  \E m \in queue' : outbox'[m[1]].run = job'.run
    BY DEF DispatchedIsHandedOver
  <2>1. CASE job.status = "dispatched" /\ job'.run = job.run
    <3>1. PICK m \in queue : outbox[m[1]].run = job.run
      BY <2>1 DEF Inv, DispatchedIsHandedOver
    <3> QED
      BY <1>5, <1>6, <2>1, <3>1
  <2>2. CASE n \in DOMAIN outbox /\ outbox[n].run = job'.run
    <3>1. n # 0
      BY <1>2, <2>2, RowsTyped
    <3>2. PICK g \in 0..MaxDefers : <<n, g>> \in queue
      BY <3>1
    <3>3. <<n, g>>[1] = n /\ <<n, g>> \in queue'
      BY <1>6, <3>2
    <3> QED
      BY <1>5, <2>2, <3>3
  <2> QED
    BY <1>2, <1>3, <2>1, <2>2 DEF WaitsForARound
<1>8. NoLostWork'
  <2> SUFFICES ASSUME job'.status \in Waiting
               PROVE  \E m \in DOMAIN outbox' :
                         /\ outbox'[m].run = job'.run
                         /\ outbox'[m].state = "pending" \/ \E g \in 0..MaxDefers : <<m, g>> \in queue'
    BY DEF NoLostWork, Waiting
  <2>1. CASE job.status \in Waiting /\ job'.run = job.run
    <3>1. PICK m \in DOMAIN outbox :
                  /\ outbox[m].run = job.run
                  /\ outbox[m].state = "pending" \/ \E g \in 0..MaxDefers : <<m, g>> \in queue
      BY <2>1 DEF Inv, NoLostWork, Waiting
    <3>2. m \in DOMAIN outbox' /\ outbox'[m].run = job'.run
      BY <1>4, <1>5, <2>1, <3>1
    <3>3. CASE \E g \in 0..MaxDefers : <<m, g>> \in queue
      BY <1>6, <3>2, <3>3
    <3>4. CASE outbox[m].state = "pending" /\ m # n
      <4>1. job'.status \notin Terminal
        BY DEF Waiting, Terminal
      <4> QED
        BY <1>5, <3>2, <3>4, <4>1
    <3>5. CASE m = n
      <4>1. n # 0
        BY <1>2, <3>1, <3>5, RowsTyped
      <4> QED
        BY <1>6, <3>2, <3>5, <4>1
    <3> QED
      BY <3>1, <3>3, <3>4, <3>5
  <2>2. CASE \E m \in DOMAIN outbox' : outbox'[m].run = job'.run /\ outbox'[m].state = "pending"
    BY <2>2
  <2> QED
    BY <1>2, <1>3, <2>1, <2>2 DEF WaitsForARound
<1> QED
  BY <1>7, <1>8

LEMMA CallsGrow ==
    ASSUME NEW s, NEW x, NEW h, NEW g, h \subseteq g, DOMAIN s.outbox = DOMAIN x.outbox,
           \A r \in RunIds : s.runs[r].token = x.runs[r].token
    PROVE  Calls(s, h) \subseteq Calls(x, g)
<1>1. {[kind |-> "expire", run |-> r, token |-> s.runs[r].token] : r \in RunIds}
        = {[kind |-> "expire", run |-> r, token |-> x.runs[r].token] : r \in RunIds}
  OBVIOUS
<1> QED
  BY <1>1 DEF Calls

-----------------------------------------------------------------------------
(***************************************************************************)
(* The steps of the store                                                  *)
(***************************************************************************)

LEMMA ReadKeeps ==
    ASSUME Inv, NEW c \in Clients, NEW o \in Calls(Rows, held), Read(c, o)
    PROVE  Inv' /\ UNCHANGED Rows
<1>1. UNCHANGED <<job, runs, attempts, outbox, results, queue, held>> /\ UNCHANGED Rows
  BY DEF Read, table, Rows
<1>2. PICK new : new = [op |-> o, read |-> Rows]
  OBVIOUS
<1>3. /\ new.op = o /\ new.read = Rows /\ new = [op |-> new.op, read |-> new.read]
      /\ o.kind = "mark" => <<o.n, o.gen>> \in queue
  BY <1>2 DEF Read
<1>4. client = [d \in Clients |-> client[d]] /\ client' = [client EXCEPT ![c] = new]
  BY <1>2 DEF Read, Inv, ClientsTyped
<1>5. client'[c] = new /\ \A d \in Clients \ {c} : client'[d] = client[d]
  BY <1>4
<1>6. ClientsTyped'
  BY <1>3, <1>4, <1>5 DEF Inv, ClientsTyped
<1>7. Snapshots'
  BY <1>1, <1>3, <1>5 DEF Inv, Snapshots
<1> QED
  BY <1>1, <1>6, <1>7
     DEF Inv, HeldIsClaimed, QueueIsRecorded, DispatchedIsHandedOver, NoLostWork

LEMMA GiveUpKeeps ==
    ASSUME Inv, NEW c \in Clients, GiveUp(c)
    PROVE  Inv' /\ UNCHANGED Rows
<1>1. UNCHANGED <<job, runs, attempts, outbox, results, queue, held>> /\ UNCHANGED Rows
  BY DEF GiveUp, table, Rows
<1>2. client = [d \in Clients |-> client[d]] /\ client' = [client EXCEPT ![c] = Idle]
  BY DEF GiveUp, Inv, ClientsTyped
<1>3. client'[c] = Idle /\ \A d \in Clients \ {c} : client'[d] = client[d]
  BY <1>2
<1>4. ClientsTyped'
  BY <1>2, <1>3 DEF Inv, ClientsTyped, Idle
<1>5. Snapshots'
  BY <1>1, <1>3 DEF Inv, Snapshots
<1> QED
  BY <1>1, <1>4, <1>5
     DEF Inv, HeldIsClaimed, QueueIsRecorded, DispatchedIsHandedOver, NoLostWork

LEMMA SendKeeps ==
    ASSUME Inv, NEW n \in DOMAIN outbox, Send(n)
    PROVE  Inv' /\ UNCHANGED Rows
<1>1. /\ UNCHANGED <<job, runs, attempts, outbox, results, client, held>> /\ UNCHANGED Rows
      /\ queue' = queue \cup {<<n, outbox[n].gen>>}
  BY DEF Send, table, Rows
<1>2. outbox[n].gen \in 0..MaxDefers
  <2>1. Rows \in LedgerRows /\ Rows.outbox = outbox
    BY DEF Inv, SoundRows, Rows
  <2>2. outbox \in Seq(OutboxRow)
    BY <2>1, RowsTyped
  <2>3. outbox[n] \in OutboxRow
    BY <2>2
  <2> QED
    BY <2>3 DEF OutboxRow
<1>3. QueueIsRecorded'
  <2>1. PICK m : m = <<n, outbox[n].gen>>
    OBVIOUS
  <2>2. m[1] = n /\ m[2] = outbox[n].gen /\ m = <<m[1], m[2]>>
    BY <2>1
  <2> QED
    BY <1>1, <1>2, <2>1, <2>2 DEF Inv, QueueIsRecorded
<1>4. Snapshots' /\ ClientsTyped'
  BY <1>1 DEF Inv, Snapshots, ClientsTyped
<1>5. DispatchedIsHandedOver' /\ NoLostWork'
  BY <1>1 DEF Inv, DispatchedIsHandedOver, NoLostWork
<1> QED
  BY <1>1, <1>3, <1>4, <1>5 DEF Inv, HeldIsClaimed

\* The job's row is written by every transaction and a condition of every other.
LEMMA CommitEndsAll ==
    ASSUME NEW c \in Clients, Commit(c)
    PROVE  client' = [d \in Clients |-> Idle]
<1>1. PICK x : client' = [d \in Clients |->
                IF d # c /\ Touched(client[c].op, client[c].read, x) \cap Conditions(client[d].op, client[d].read) = {}
                THEN client[d] ELSE Idle]
  BY DEF Commit
<1>2. \A o, s, y : <<"job", 1>> \in Touched(o, s, y)
  BY DEF Touched
<1>3. \A o, s : <<"job", 1>> \in Conditions(o, s)
  BY DEF Conditions
<1> QED
  BY <1>1, <1>2, <1>3

LEMMA CommitKeeps ==
    ASSUME Inv, NEW c \in Clients, Commit(c)
    PROVE  /\ Inv'
           /\ client[c].op \in Calls(Rows, held) /\ Rows' \in Effect(Rows, client[c].op)
           /\ \E n : Lawful(Rows, n, Rows')
<1>1. PICK o : o = client[c].op
  OBVIOUS
<1>2. PICK s : s = Rows
  OBVIOUS
<1>3. /\ client[c].read = Rows /\ o \in Calls(Rows, held) /\ SoundRows(s)
      /\ o.kind = "mark" => <<o.n, o.gen>> \in queue
  BY <1>1, <1>2 DEF Commit, Inv, Snapshots
<1>4. PICK x \in Effect(s, o) : Put(c, x)
  BY <1>1, <1>2, <1>3 DEF Commit
<1>5. PICK n : n = MarkedRound(o)
  OBVIOUS
<1>6. Lawful(s, n, x) /\ (o.kind # "resume" => x.job.run = s.job.run)
  BY <1>2, <1>3, <1>4, <1>5, EffectIsLawful
<1>7. s.job = job /\ s.attempts = attempts /\ s.outbox = outbox /\ s.runs = runs
  BY <1>2 DEF Rows
<1>8. Rows' = x
  BY <1>1, <1>2, <1>3, <1>4, <1>6, <1>7, PutWrites
<1>9. SoundRows(Rows)'
  BY <1>6, <1>8 DEF Lawful
<1>10. /\ x.job = job' /\ x.attempts = attempts' /\ x.outbox = outbox' /\ x.runs = runs'
  BY <1>8 DEF Rows
<1>11. UNCHANGED queue /\ client' = [d \in Clients |-> Idle]
  BY CommitEndsAll DEF Commit
<1>12. ClientsTyped' /\ Snapshots'
  BY <1>11 DEF ClientsTyped, Snapshots, Idle
<1>13. HeldIsClaimed'
  <2>1. ASSUME NEW h \in held
        PROVE  h \in ClaimedAttempt /\ h.expected = 0 /\ \E a \in attempts' : a.run = h.run /\ a.token = h.token
    <3>1. PICK a \in attempts : a.run = h.run /\ a.token = h.token
      BY DEF Inv, HeldIsClaimed
    <3>2. PICK b \in attempts' : b.run = a.run /\ b.token = a.token
      BY <1>6, <1>7, <1>10 DEF Lawful, EndedIsKept
    <3> QED
      BY <3>1, <3>2 DEF Inv, HeldIsClaimed
  <2>2. CASE o.kind # "claim"
    BY <1>1, <2>1, <2>2 DEF Commit, HeldIsClaimed
  <2>3. CASE o.kind = "claim"
    <3>1. PICK h : h = [run |-> o.run, token |-> runs[o.run].token + 1, expected |-> runs[o.run].version]
      OBVIOUS
    <3>2. held' \in {held, held \cup {h}}
      <4>1. held' \in {held, IF client[c].op.kind # "claim" THEN held
                        ELSE LET r == client[c].op.run
                             IN  held \cup {[run |-> r, token |-> runs[r].token + 1, expected |-> runs[r].version]}}
        BY DEF Commit
      <4> QED
        BY <1>1, <2>3, <3>1, <4>1
    <3>3. o.run \in RunIds /\ x \in Claimed(s, o.run)
      BY <1>2, <1>3, <1>4, <2>3 DEF Calls, Effect
    <3>4. /\ s.runs[o.run].version = 0
          /\ \E a \in x.attempts : a.run = o.run /\ a.token = s.runs[o.run].token + 1
      BY <1>3, <3>3, ClaimIsLawful
    <3>5. runs[o.run].token \in Nat
      BY <1>3, <1>7, <3>3, RunTyped DEF SoundRows
    <3>6. /\ h \in ClaimedAttempt /\ h.expected = 0 /\ h.run = o.run /\ h.token = runs[o.run].token + 1
      BY <1>7, <3>1, <3>3, <3>4, <3>5 DEF ClaimedAttempt
    <3> QED
      BY <1>7, <1>10, <2>1, <3>2, <3>4, <3>6 DEF HeldIsClaimed
  <2> QED
    BY <2>2, <2>3
<1>14. QueueIsRecorded'
  <2>1. DOMAIN outbox \subseteq DOMAIN outbox'
    <3>1. s.outbox \in Seq(OutboxRow) /\ x.outbox \in Seq(OutboxRow)
      BY <1>6, <1>3, RowsTyped DEF SoundRows, Lawful
    <3>2. Len(x.outbox) \in {Len(s.outbox), Len(s.outbox) + 1}
      BY <1>6 DEF Lawful, RoundsAreKept
    <3> QED
      BY <1>7, <1>10, <3>1, <3>2
  <2> QED
    BY <1>11, <2>1 DEF Inv, QueueIsRecorded
<1>15. (DispatchedIsHandedOver /\ NoLostWork)'
  <2>1. n # 0 => \E g \in 0..MaxDefers : <<n, g>> \in queue
    <3>1. o.kind = "mark" => o.gen \in 0..MaxDefers
      BY <1>3 DEF Calls
    <3> QED
      BY <1>3, <1>5, <3>1 DEF MarkedRound
  <2>2. Lawful(Rows, n, x) /\ queue \subseteq queue'
    BY <1>2, <1>6, <1>11
  <2> QED
    BY <1>8, <2>1, <2>2, HandoverKept
<1>16. Inv'
  BY <1>9, <1>12, <1>13, <1>14, <1>15 DEF Inv
<1> QED
  BY <1>1, <1>2, <1>3, <1>4, <1>6, <1>8, <1>16

\* Time ages the rows and what was read of them alike.
LEMMA LapseKeeps ==
    ASSUME Inv, NEW r \in RunIds, runs[r].lease = "valid",
           runs' = [runs EXCEPT ![r].lease = "lapsed"],
           client' = [c \in Clients |-> [client[c] EXCEPT !.read.runs[r].lease = IF @ = "valid" THEN "lapsed" ELSE @]],
           UNCHANGED <<job, attempts, outbox, results, queue, held>>
    PROVE  Inv' /\ Rows' \in Later(Rows)
<1>1. PICK s : s = Rows
  OBVIOUS
<1>2. /\ s.job = job /\ s.runs = runs /\ s.attempts = attempts /\ s.outbox = outbox
      /\ s.results = results /\ s \in LedgerRows /\ SoundRows(s) /\ runs \in [RunIds -> RunRow]
  BY <1>1, RowsTyped DEF Rows, Inv, SoundRows
<1>3. Rows' = [s EXCEPT !.runs[r].lease = "lapsed"]
  BY <1>1 DEF Rows
<1>4. Rows' \in Later(s)
  BY <1>2, <1>3 DEF Later
<1>5. PICK x : x = Rows'
  OBVIOUS
<1>6. Lawful(s, 0, x) /\ x.job = s.job
  BY <1>2, <1>4, <1>5, LaterIsLawful
<1>7. (DispatchedIsHandedOver /\ NoLostWork)'
  BY <1>1, <1>5, <1>6, HandoverKept
<1>8. ClientsTyped'
  <2>1. client' = [c \in Clients |-> client'[c]]
    OBVIOUS
  <2>2. ASSUME NEW c \in Clients
        PROVE  client'[c] = [op |-> client'[c].op, read |-> client'[c].read]
    <3>1. PICK v : v = [client[c].read EXCEPT !.runs[r].lease = IF @ = "valid" THEN "lapsed" ELSE @]
      OBVIOUS
    <3>2. client'[c] = [client[c] EXCEPT !.read = v]
      BY <3>1
    <3>3. client[c] = [op |-> client[c].op, read |-> client[c].read]
      BY DEF Inv, ClientsTyped
    <3> QED
      BY <3>2, <3>3
  <2> QED
    BY <2>1, <2>2 DEF ClientsTyped
<1>9. ASSUME NEW c \in Clients, client'[c] # Idle
      PROVE  /\ client[c] # Idle /\ client'[c].read = Rows' /\ client'[c].op = client[c].op
  <2>1. PICK v : v = [client[c].read EXCEPT !.runs[r].lease = IF @ = "valid" THEN "lapsed" ELSE @]
    OBVIOUS
  <2>2. client'[c] = [client[c] EXCEPT !.read = v]
    BY <2>1
  <2>3. client[c] = [op |-> client[c].op, read |-> client[c].read]
    BY DEF Inv, ClientsTyped
  <2>4. client'[c].op = client[c].op /\ client'[c].read = v /\ client'[c] = [op |-> client[c].op, read |-> v]
    BY <2>2, <2>3
  <2>5. client[c] # Idle
    <3>1. ASSUME client[c] = Idle PROVE FALSE
      <4>1. client[c].read = Empty
        BY <3>1 DEF Idle
      <4>2. PICK e : e = Empty
        OBVIOUS
      <4>3. e \in LedgerRows /\ e.runs \in [RunIds -> RunRow] /\ e.runs[r] = NoRun
        BY <4>2, EmptyIsSound, RowsTyped DEF SoundRows, Empty
      <4>4. e.runs[r].lease = "none"
        BY <4>3 DEF NoRun
      <4>5. v = [e EXCEPT !.runs[r].lease = "none"]
        BY <2>1, <4>1, <4>2, <4>4
      <4>6. PICK row : row = e.runs[r]
        OBVIOUS
      <4>7. [row EXCEPT !.lease = "none"] = row
        BY <4>3, <4>4, <4>6 DEF RunRow
      <4>8. [e.runs EXCEPT ![r] = row] = e.runs
        BY <4>3, <4>6
      <4>9. v = e
        BY <4>3, <4>5, <4>6, <4>7, <4>8 DEF LedgerRows
      <4>10. client'[c] = client[c]
        BY <2>3, <2>4, <4>1, <4>2, <4>9
      <4> QED
        BY <1>9, <3>1, <4>10
    <3> QED
      BY <3>1
  <2>6. v = Rows'
    <3>1. client[c].read = s
      BY <1>1, <2>5 DEF Inv, Snapshots
    <3>2. s.runs[r].lease = "valid"
      BY <1>2
    <3>3. v = [s EXCEPT !.runs[r].lease = "lapsed"]
      BY <2>1, <3>1, <3>2
    <3> QED
      BY <1>3, <3>3
  <2> QED
    BY <2>4, <2>5, <2>6
<1>10. Snapshots'
  <2>1. \A q \in RunIds : s.runs[q].token = x.runs[q].token
    BY <1>2, <1>5 DEF Rows, RunRow
  <2>2. s.outbox = x.outbox
    BY <1>2, <1>5 DEF Rows
  <2>3. Calls(s, held) \subseteq Calls(x, held)
    BY <2>1, <2>2, CallsGrow
  <2>4. ASSUME NEW c \in Clients, client'[c] # Idle
        PROVE  /\ client'[c].read = Rows'
               /\ client'[c].op \in Calls(Rows', held)
               /\ client'[c].op.kind = "mark" => <<client'[c].op.n, client'[c].op.gen>> \in queue
    BY <1>1, <1>5, <1>9, <2>3, <2>4 DEF Inv, Snapshots
  <2> QED
    BY <2>4 DEF Snapshots
<1>11. SoundRows(Rows)'
  BY <1>5, <1>6 DEF Lawful
<1> QED
  BY <1>1, <1>4, <1>7, <1>8, <1>10, <1>11 DEF Inv, HeldIsClaimed, QueueIsRecorded

LEMMA DueKeeps ==
    ASSUME Inv, NEW n \in DOMAIN outbox, ~outbox[n].due,
           outbox' = [outbox EXCEPT ![n].due = TRUE],
           client' = [c \in Clients |-> IF n \in DOMAIN client[c].read.outbox
                                        THEN [client[c] EXCEPT !.read.outbox[n].due = TRUE] ELSE client[c]],
           UNCHANGED <<job, runs, attempts, results, queue, held>>
    PROVE  Inv' /\ Rows' \in Later(Rows)
<1>1. PICK s : s = Rows
  OBVIOUS
<1>2. /\ s.job = job /\ s.runs = runs /\ s.attempts = attempts /\ s.outbox = outbox
      /\ s.results = results /\ s \in LedgerRows /\ SoundRows(s) /\ outbox \in Seq(OutboxRow)
  BY <1>1, RowsTyped DEF Rows, Inv, SoundRows
<1>3. Rows' = [s EXCEPT !.outbox[n].due = TRUE]
  <2>1. PICK out : out = [outbox EXCEPT ![n].due = TRUE]
    OBVIOUS
  <2>2. [s EXCEPT !.outbox[n].due = TRUE] = [s EXCEPT !.outbox = out]
    BY <1>2, <2>1
  <2>3. s = [job |-> job, runs |-> runs, attempts |-> attempts, outbox |-> outbox, results |-> results]
    BY <1>1 DEF Rows
  <2>4. Rows' = [job |-> job, runs |-> runs, attempts |-> attempts, outbox |-> out, results |-> results]
    BY <2>1 DEF Rows
  <2> QED
    BY <2>2, <2>3, <2>4
<1>4. Rows' \in Later(s)
  BY <1>2, <1>3 DEF Later
<1>5. PICK x : x = Rows'
  OBVIOUS
<1>6. Lawful(s, 0, x) /\ x.job = s.job
  BY <1>2, <1>4, <1>5, LaterIsLawful
<1>7. (DispatchedIsHandedOver /\ NoLostWork)'
  BY <1>1, <1>5, <1>6, HandoverKept
<1>8. ASSUME NEW c \in Clients
      PROVE  /\ client'[c] = [op |-> client'[c].op, read |-> client'[c].read]
             /\ client'[c] # Idle => /\ client[c] # Idle /\ client'[c].read = Rows'
                                     /\ client'[c].op = client[c].op
  <2>1. client[c] = [op |-> client[c].op, read |-> client[c].read]
    BY DEF Inv, ClientsTyped
  <2>2. CASE n \notin DOMAIN client[c].read.outbox
    <3>1. client'[c] = client[c]
      BY <2>2
    <3>2. client[c] # Idle => client[c].read = s
      BY <1>1 DEF Inv, Snapshots
    <3>3. client[c] = Idle
      BY <1>2, <2>2, <3>2
    <3> QED
      BY <2>1, <3>1, <3>3
  <2>3. CASE n \in DOMAIN client[c].read.outbox
    <3>1. PICK v : v = [client[c].read EXCEPT !.outbox[n].due = TRUE]
      OBVIOUS
    <3>2. client'[c] = [client[c] EXCEPT !.read = v]
      BY <2>3, <3>1
    <3>3. client'[c].op = client[c].op /\ client'[c].read = v /\ client'[c] = [op |-> client[c].op, read |-> v]
      BY <2>1, <3>2
    <3>4. client[c] # Idle
      BY <2>3 DEF Idle, Empty
    <3>5. client[c].read = s
      BY <1>1, <3>4 DEF Inv, Snapshots
    <3>6. v = Rows'
      BY <1>3, <3>1, <3>5
    <3> QED
      BY <3>3, <3>4, <3>6
  <2> QED
    BY <2>2, <2>3
<1>9. ClientsTyped'
  BY <1>8 DEF ClientsTyped
<1>10. Snapshots'
  <2>1. s.runs = x.runs /\ DOMAIN s.outbox = DOMAIN x.outbox
    BY <1>2, <1>5 DEF Rows
  <2>2. Calls(s, held) \subseteq Calls(x, held)
    BY <2>1, CallsGrow
  <2>3. ASSUME NEW c \in Clients, client'[c] # Idle
        PROVE  /\ client'[c].read = Rows'
               /\ client'[c].op \in Calls(Rows', held)
               /\ client'[c].op.kind = "mark" => <<client'[c].op.n, client'[c].op.gen>> \in queue
    BY <1>1, <1>5, <1>8, <2>2, <2>3 DEF Inv, Snapshots
  <2> QED
    BY <2>3 DEF Snapshots
<1>11. SoundRows(Rows)'
  BY <1>5, <1>6 DEF Lawful
<1> QED
  BY <1>1, <1>2, <1>4, <1>7, <1>9, <1>10, <1>11 DEF Inv, HeldIsClaimed, QueueIsRecorded

\* A step leaves the rows alone, or is one atomic call by a claimed attempt, or time.
LEMMA StepKeeps ==
    ASSUME Inv, [Next]_vars
    PROVE  /\ Inv'
           /\ \/ UNCHANGED Rows
              \/ \E o \in Calls(Rows, held) : Rows' \in Effect(Rows, o)
              \/ Rows' \in Later(Rows)
           /\ UNCHANGED Rows \/ \E n : Lawful(Rows, n, Rows')
<1>1. ASSUME NEW c \in Clients, NEW o \in Calls(Rows, held), Read(c, o)
      PROVE  Inv' /\ UNCHANGED Rows
  BY <1>1, ReadKeeps
<1>2. ASSUME NEW c \in Clients, GiveUp(c)
      PROVE  Inv' /\ UNCHANGED Rows
  BY <1>2, GiveUpKeeps
<1>3. ASSUME NEW n \in DOMAIN outbox, Send(n)
      PROVE  Inv' /\ UNCHANGED Rows
  BY <1>3, SendKeeps
<1>4. ASSUME NEW c \in Clients, Commit(c)
      PROVE  /\ Inv'
             /\ \E o \in Calls(Rows, held) : Rows' \in Effect(Rows, o)
             /\ \E n : Lawful(Rows, n, Rows')
  BY <1>4, CommitKeeps
<1>5. ASSUME Tick
      PROVE  Inv' /\ Rows' \in Later(Rows)
  <2>1. ASSUME NEW r \in RunIds, runs[r].lease = "valid",
               runs' = [runs EXCEPT ![r].lease = "lapsed"],
               client' = [c \in Clients |-> [client[c] EXCEPT !.read.runs[r].lease = IF @ = "valid" THEN "lapsed" ELSE @]],
               UNCHANGED <<job, attempts, outbox, results, queue, held>>
        PROVE  Inv' /\ Rows' \in Later(Rows)
    BY <2>1, LapseKeeps
  <2>2. ASSUME NEW n \in DOMAIN outbox, ~outbox[n].due,
               outbox' = [outbox EXCEPT ![n].due = TRUE],
               client' = [c \in Clients |-> IF n \in DOMAIN client[c].read.outbox
                                        THEN [client[c] EXCEPT !.read.outbox[n].due = TRUE] ELSE client[c]],
               UNCHANGED <<job, runs, attempts, results, queue, held>>
        PROVE  Inv' /\ Rows' \in Later(Rows)
    BY <2>2, DueKeeps
  <2> QED
    BY <1>5, <2>1, <2>2, Zenon DEF Tick
<1>6. ASSUME UNCHANGED vars
      PROVE  Inv' /\ UNCHANGED Rows
  BY <1>6 DEF vars, table, Inv, Rows, ClientsTyped, Snapshots, HeldIsClaimed, QueueIsRecorded,
              DispatchedIsHandedOver, NoLostWork
<1>7. Tick => \E n : Lawful(Rows, n, Rows')
  <2>1. SoundRows(Rows)
    BY DEF Inv
  <2> QED
    BY <1>5, <2>1, LaterIsLawful
<1> QED
  BY <1>1, <1>2, <1>3, <1>4, <1>5, <1>6, <1>7, Zenon DEF Next

\* The invariant says of the rows what the run checks.
LEMMA SoundTable ==
    ASSUME Inv
    PROVE  RowsAreSound
<1>1. PICK s : s = Rows
  OBVIOUS
<1>2. /\ s.job = job /\ s.runs = runs /\ s.attempts = attempts /\ s.outbox = outbox
      /\ s.results = results /\ s \in LedgerRows /\ SoundRows(s)
  BY <1>1 DEF Rows, Inv, SoundRows
<1>3. TypeOK
  BY <1>2, RowsTyped DEF TypeOK, Inv, HeldIsClaimed
<1>4. NeverCorrupt
  <2> SUFFICES ASSUME job.status # "absent"
               PROVE  /\ runs[job.run].status = job.status
                      /\ (runs[job.run].lease # "none") <=> job.status = "running"
                      /\ {a \in attempts : a.outcome = "running"} =
                            IF job.status = "running"
                            THEN {[run |-> job.run, token |-> runs[job.run].holder, outcome |-> "running"]} ELSE {}
                      /\ \A r \in RunIds : r > job.run => runs[r] = NoRun
    BY DEF NeverCorrupt
  <2>1. Consistent(s) /\ RunsInTurn(s)
    BY <1>2 DEF SoundRows
  <2>2. ASSUME NEW a \in attempts, a.outcome = "running"
        PROVE  /\ job.status = "running"
               /\ a = [run |-> job.run, token |-> runs[job.run].holder, outcome |-> "running"]
    <3>1. a \in AttemptRow
      BY <1>2, RowsTyped
    <3>2. /\ job.status = "running" /\ a.run = job.run
          /\ a.token = runs[job.run].token /\ runs[job.run].holder = runs[job.run].token
      BY <1>2, <2>1, <2>2 DEF Consistent, CurrentRow
    <3> QED
      BY <2>2, <3>1, <3>2 DEF AttemptRow
  <2>3. job.status = "running" =>
          [run |-> job.run, token |-> runs[job.run].holder, outcome |-> "running"] \in attempts
    BY <1>2, <2>1 DEF Consistent, CurrentRow, AttemptOf
  <2>4. {a \in attempts : a.outcome = "running"} =
           IF job.status = "running"
           THEN {[run |-> job.run, token |-> runs[job.run].holder, outcome |-> "running"]} ELSE {}
    BY <2>2, <2>3
  <2> QED
    BY <1>2, <2>1, <2>4 DEF Consistent, CurrentRow, RunsInTurn
<1>5. PublishedByItsAttempt
  BY <1>2 DEF SoundRows, Logged, Published, AttemptOf, PublishedByItsAttempt
<1> QED
  BY <1>3, <1>4, <1>5 DEF RowsAreSound, Inv

\* A lawful step unwrites nothing.
LEMMA LawfulKeepsHistory ==
    ASSUME Inv, UNCHANGED Rows \/ \E n : Lawful(Rows, n, Rows')
    PROVE  /\ \A a \in attempts : a.outcome # "running" => a \in attempts'
           /\ results \subseteq results'
           /\ job.status \in Terminal => job' = job
           /\ \A r \in RunIds : r < job.run => runs'[r] = runs[r]
<1>1. PICK s : s = Rows
  OBVIOUS
<1>2. PICK x : x = Rows'
  OBVIOUS
<1>3. /\ s.job = job /\ s.runs = runs /\ s.attempts = attempts /\ s.results = results
      /\ s.job.run \in RunIds
  BY <1>1, RowsTyped DEF Rows, Inv, SoundRows
<1>4. x.job = job' /\ x.runs = runs' /\ x.attempts = attempts' /\ x.results = results'
  BY <1>2 DEF Rows
<1>5. CASE UNCHANGED Rows
  BY <1>1, <1>2, <1>3, <1>4, <1>5
<1>6. CASE \E n : Lawful(Rows, n, Rows')
  <2>1. EndedIsKept(s, x) /\ OneRunWritten(s, x) /\ SoundRows(x)
    BY <1>1, <1>2, <1>6 DEF Lawful
  <2>2. x.job.run \in RunIds /\ RunIds \subseteq Nat
    BY <2>1, RowsTyped DEF SoundRows
  <2>3. ASSUME NEW r \in RunIds, r < job.run PROVE runs'[r] = runs[r]
    <3>1. x.job.run >= s.job.run
      BY <2>1 DEF OneRunWritten
    <3>2. r # x.job.run
      <4>1. r \in Nat /\ job.run \in Nat /\ x.job.run \in Nat /\ x.job.run >= job.run
        BY <1>3, <2>2, <3>1
      <4> QED
        BY <2>3, <4>1
    <3> QED
      BY <1>3, <1>4, <2>1, <3>2 DEF OneRunWritten
  <2> QED
    BY <1>3, <1>4, <2>1, <2>3 DEF EndedIsKept
<1> QED
  BY <1>5, <1>6

\* A call of the store is one of the ledger's: whoever acts for an attempt has claimed it.
LEMMA CallsAreOfClaims ==
    ASSUME Inv
    PROVE  Calls(Rows, held) \subseteq Ledger!Calls(Rows, Ledger!ClaimedAttempts)
<1>1. held \subseteq Ledger!ClaimedAttempts
  <2> SUFFICES ASSUME NEW h \in held PROVE h \in Ledger!ClaimedAttempts
    OBVIOUS
  <2>1. h \in ClaimedAttempt /\ h.expected = 0
    BY DEF Inv, HeldIsClaimed
  <2>2. PICK a \in attempts : a.run = h.run /\ a.token = h.token
    BY DEF Inv, HeldIsClaimed
  <2>3. h = [run |-> a.run, token |-> a.token, expected |-> 0]
    BY <2>1, <2>2 DEF ClaimedAttempt
  <2>4. Rows.attempts = attempts
    BY DEF Rows
  <2> QED
    BY <2>2, <2>3, <2>4 DEF Ledger!ClaimedAttempts
<1>2. Calls(Rows, held) \subseteq Calls(Rows, Ledger!ClaimedAttempts)
  BY <1>1, CallsGrow
<1> QED
  BY <1>2, SameCalls

\* Every step of the store is a step of the ledger, or none.
LEMMA StepIsTheLedgers ==
    ASSUME Inv, [Next]_vars
    PROVE  [Ledger!LedgerNext]_Rows
<1>1. CASE UNCHANGED Rows
  BY <1>1
<1>2. CASE Rows' # Rows /\ \E o \in Calls(Rows, held) : Rows' \in Effect(Rows, o)
  <2>1. PICK o \in Calls(Rows, held) : Rows' \in Effect(Rows, o)
    BY <1>2
  <2>2. o \in Ledger!Calls(Rows, Ledger!ClaimedAttempts) /\ Rows' \in Ledger!Effect(Rows, o)
    BY <2>1, CallsAreOfClaims, SameEffect
  <2> QED
    BY <1>2, <2>2, Zenon DEF Ledger!LedgerNext
<1>3. CASE Rows' # Rows /\ Rows' \in Later(Rows)
  <2>1. Rows' \in Ledger!Later(Rows)
    BY <1>3, SameLater
  <2> QED
    BY <1>3, <2>1, Zenon DEF Ledger!LedgerNext
<1> QED
  BY <1>1, <1>2, <1>3, StepKeeps

-----------------------------------------------------------------------------
(***************************************************************************)
(* What the store promises                                                 *)
(***************************************************************************)

\* Whatever the interleaving of calls, reads and lost answers, a call that commits has
\* decided on the rows as they are, and the rows are sound.
THEOREM InvHolds == Spec => []Inv
<1>1. Init => Inv
  BY InitSound
<1>2. Inv /\ [Next]_vars => Inv'
  BY StepKeeps
<1> QED
  BY <1>1, <1>2, PTL DEF Spec

\* Optimistic transactions on rows read earlier are as good as atomic calls: the table
\* behaves like the ledger of the JobStore port, in which every call decides and writes at
\* once and acts only for an attempt that was claimed.
THEOREM StoreImplementsLedger == Spec => ImplementsLedger
<1>1. Init => Ledger!LedgerInit
  BY InitSound, SameEmpty DEF Ledger!LedgerInit
<1>2. Inv /\ [Next]_vars => [Ledger!LedgerNext]_Rows
  BY StepIsTheLedgers
<1> QED
  BY <1>1, <1>2, InvHolds, PTL DEF Spec, ImplementsLedger, Ledger!LedgerSpec

\* The rows describe one consistent job at every moment: no read finds them corrupt, what is
\* published is the one attempt's that the store committed it for, and a waiting job has a
\* message to come (DynamoJobStore's transactions and their conditions).
THEOREM TableSound == Spec => []RowsAreSound
<1>1. Inv => RowsAreSound
  BY SoundTable
<1> QED
  BY <1>1, InvHolds, PTL

\* Nothing that has ended is ever rewritten: closed attempts, committed results, terminal
\* jobs and the rows of earlier runs stay as they are, late calls or not.
THEOREM HistoryKept == Spec => HistoryIsKept
<1>1. Inv /\ [Next]_vars =>
         [/\ \A a \in attempts : a.outcome # "running" => a \in attempts'
          /\ results \subseteq results'
          /\ job.status \in Terminal => job' = job
          /\ \A r \in RunIds : r < job.run => runs'[r] = runs[r]]_vars
  BY StepKeeps, LawfulKeepsHistory
<1> QED
  BY <1>1, InvHolds, PTL DEF Spec, HistoryIsKept
=============================================================================
