----------------------------- MODULE DynamoJobs -----------------------------
(***************************************************************************)
(* The DynamoDB job store and the processes that call it.  A call reads a  *)
(* snapshot of the rows, decides, and writes all rows it decided on in one *)
(* transaction, each conditional on the version that was read.  Between    *)
(* the read and the write other calls commit; the answer of a write may be *)
(* lost.  A version is not kept as a number: a call under way whose        *)
(* conditions name a row that somebody else writes is refused, and that is *)
(* settled when the row is written.                                        *)
(*                                                                         *)
(* Messages go through a standard SQS queue: a message may be delivered    *)
(* again at any time.                                                      *)
(***************************************************************************)
EXTENDS JobRows

CONSTANT Clients    \* processes that call the store

VARIABLES
    job, runs, attempts, outbox, results,   \* the items of the table
    client,     \* client[c]: the call under way and the rows it read
    queue,      \* rounds <<n, gen>> that were handed to SQS
    held        \* claimed attempts that were returned to a worker

table == <<job, runs, attempts, outbox, results>>
vars == <<table, client, queue, held>>

Rows == [job |-> job, runs |-> runs, attempts |-> attempts, outbox |-> outbox, results |-> results]

Idle == [op |-> [kind |-> "none"], read |-> Empty]

Init ==
    /\ job = Empty.job /\ runs = Empty.runs /\ attempts = {} /\ outbox = << >> /\ results = {}
    /\ client = [c \in Clients |-> Idle]
    /\ queue = {} /\ held = {}

\* Mutant: the job row is written without a condition.
JobUnconditioned(o, s) ==
    (IF o.kind \in {"create", "resume"} THEN {} ELSE {<<"run", s.job.run>>})
        \cup (IF o.kind \in {"mark", "defer"} THEN {<<"round", o.n>>} ELSE {})

\* The rows whose versions the transaction of a call is conditional on.  create_job and
\* the new rows of the others must not exist, which the job row's version stands for.
Conditions(o, s) ==
    {<<"job", 1>>} \cup (IF o.kind \in {"create", "resume"} THEN {} ELSE {<<"run", s.job.run>>})
        \cup (IF o.kind \in {"mark", "defer"} THEN {<<"round", o.n>>} ELSE {})

\* The rows a transaction puts, and so gives a new version.
Touched(o, s, x) ==
    {<<"job", 1>>, <<"run", IF o.kind = "resume" THEN x.job.run ELSE s.job.run>>}
        \cup {<<"round", n>> : n \in {i \in DOMAIN x.outbox : i \notin DOMAIN s.outbox \/ s.outbox[i] # x.outbox[i]}}

\* A call reads its snapshot.  A dispatcher confirms or defers a round it has tried to send;
\* a claim answers a delivered message.
Read(c, o) ==
    /\ client[c] = Idle
    /\ o.kind = "claim" => \E m \in queue : outbox[m[1]].run = o.run
    /\ o.kind = "mark" => <<o.n, o.gen>> \in queue
    /\ Effect(Rows, o) # {}
    /\ client' = [client EXCEPT ![c] = [op |-> o, read |-> Rows]]
    /\ UNCHANGED <<table, queue, held>>

\* transact_write_items: the rows of x, which was computed from what c had read.
Put(c, x) ==
    LET s == client[c].read
        r == IF client[c].op.kind = "resume" THEN x.job.run ELSE s.job.run
        new == IF Len(x.outbox) > Len(s.outbox) THEN {Len(x.outbox)} ELSE {}
    IN  /\ \A n \in new : n = Len(outbox) + 1
        /\ job' = x.job
        /\ runs' = [runs EXCEPT ![r] = x.runs[r]]
        /\ attempts' = (attempts \ (s.attempts \ x.attempts)) \cup (x.attempts \ s.attempts)
        /\ outbox' = [n \in DOMAIN outbox \cup new |->
                         IF n \in new \/ (n \in DOMAIN s.outbox /\ s.outbox[n] # x.outbox[n])
                         THEN x.outbox[n] ELSE outbox[n]]
        /\ results' = results \cup (x.results \ s.results)

\* The transaction commits; a claim's attempt reaches the worker unless the answer is lost.
Commit(c) ==
    /\ client[c] # Idle
    /\ \E x \in Effect(client[c].read, client[c].op) :
          /\ Put(c, x)
          /\ client' = [d \in Clients |->
                IF d # c /\ Touched(client[c].op, client[c].read, x) \cap Conditions(client[d].op, client[d].read) = {}
                THEN client[d] ELSE Idle]
    /\ held' \in {held, IF client[c].op.kind # "claim" THEN held
                        ELSE LET r == client[c].op.run
                             IN  held \cup {[run |-> r, token |-> runs[r].token + 1, expected |-> runs[r].version]}}
    /\ UNCHANGED queue

\* A condition failed, the store was not available, or the process died.
GiveUp(c) ==
    /\ client[c] # Idle
    /\ client' = [client EXCEPT ![c] = Idle]
    /\ UNCHANGED <<table, queue, held>>

\* SQSDispatchSender: the queue takes the message of a due round.
Send(n) ==
    /\ outbox[n].state = "pending" /\ outbox[n].due
    /\ <<n, outbox[n].gen>> \notin queue
    /\ queue' = queue \cup {<<n, outbox[n].gen>>}
    /\ UNCHANGED <<table, client, held>>

\* Time passes: no version changes, and a deadline passes in the rows read, too.
Tick ==
    \/ \E r \in RunIds :
          /\ runs[r].lease = "valid"
          /\ runs' = [runs EXCEPT ![r].lease = "lapsed"]
          /\ client' = [c \in Clients |-> [client[c] EXCEPT !.read.runs[r].lease = IF @ = "valid" THEN "lapsed" ELSE @]]
          /\ UNCHANGED <<job, attempts, outbox, results, queue, held>>
    \/ \E n \in DOMAIN outbox :
          /\ ~outbox[n].due
          /\ outbox' = [outbox EXCEPT ![n].due = TRUE]
          /\ client' = [c \in Clients |-> IF n \in DOMAIN client[c].read.outbox
                                         THEN [client[c] EXCEPT !.read.outbox[n].due = TRUE] ELSE client[c]]
          /\ UNCHANGED <<job, runs, attempts, results, queue, held>>

Next ==
    \/ \E c \in Clients : (\E o \in Calls(Rows, held) : Read(c, o)) \/ Commit(c) \/ GiveUp(c)
    \/ \E n \in DOMAIN outbox : Send(n)
    \/ Tick

Spec == Init /\ [][Next]_vars

(***************************************************************************)
(* Properties                                                              *)
(***************************************************************************)

Ledger == INSTANCE JobLedger WITH ledger <- Rows

\* The store keeps the port's promise: for the rows, every call is one atomic step that
\* decides on the rows as they are when it takes effect.
ImplementsLedger == Ledger!LedgerSpec

\* Types of the rows.
TypeOK ==
    /\ job \in JobRow
    /\ runs \in [RunIds -> RunRow]
    /\ attempts \subseteq AttemptRow
    /\ outbox \in Seq(OutboxRow)
    /\ results \subseteq ResultRow
    /\ held \subseteq ClaimedAttempt

\* No read ever finds the table corrupt: job and current run agree on the status, a lease
\* is there exactly while the job runs, and its attempt row is the only one still open.
NeverCorrupt ==
    job.status # "absent" =>
        /\ runs[job.run].status = job.status
        /\ (runs[job.run].lease # "none") <=> job.status = "running"
        /\ {a \in attempts : a.outcome = "running"} =
              IF job.status = "running"
              THEN {[run |-> job.run, token |-> runs[job.run].holder, outcome |-> "running"]} ELSE {}
        /\ \A r \in RunIds : r > job.run => runs[r] = NoRun

\* One attempt row per fencing token, and a run has at most one committed result, made by
\* the attempt whose row says that it published.
PublishedByItsAttempt ==
    /\ \A a, b \in attempts : a.run = b.run /\ a.token = b.token => a = b
    /\ \A x, y \in results : x.run = y.run => x = y
    /\ \A x \in results : /\ [run |-> x.run, token |-> x.token, outcome |-> "publish_result"] \in attempts
                          /\ runs[x.run].version = x.version
                          /\ job.status = "succeeded" /\ job.run = x.run

\* A job is reported as dispatched only when the queue took a message for its current run.
DispatchedIsHandedOver ==
    job.status = "dispatched" => \E m \in queue : outbox[m[1]].run = job.run

\* A job that waits for a worker has a message or a round that will be sent.
NoLostWork ==
    job.status \in {"queued", "dispatched"} =>
        \E n \in DOMAIN outbox : /\ outbox[n].run = job.run
                                 /\ outbox[n].state = "pending" \/ \E g \in 0..MaxDefers : <<n, g>> \in queue

\* The rows always describe one consistent job: nothing is corrupt, nothing waits without
\* a message, nothing is published or dispatched that was not.
RowsAreSound == TypeOK /\ NeverCorrupt /\ PublishedByItsAttempt /\ DispatchedIsHandedOver /\ NoLostWork

\* What has ended stays as it is: closed attempts, committed results, terminal jobs and the
\* rows of earlier runs.
HistoryIsKept ==
    [][/\ \A a \in attempts : a.outcome # "running" => a \in attempts'
       /\ results \subseteq results'
       /\ job.status \in Terminal => job' = job
       /\ \A r \in RunIds : r < job.run => runs'[r] = runs[r]]_vars
=============================================================================
