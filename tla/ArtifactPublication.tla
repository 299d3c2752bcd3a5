------------------------ MODULE ArtifactPublication ------------------------
(***************************************************************************)
(* Publication of the filled-in PDF of one job and its delivery to         *)
(* readers.  A worker stages the bytes under a key of its own attempt,     *)
(* obtains an exact grant and commits a manifest; a source authorizer runs *)
(* as a callback between an unlocked read and the transaction, and there   *)
(* the lease may lapse, another attempt may take over, the job may be      *)
(* cancelled and the case may be revoked.                                  *)
(*                                                                         *)
(* Two stores implement the ports: the SQLite repository, in the job       *)
(* store's own transactions and with a revocation epoch, and the DynamoDB  *)
(* one, whose grants and accesses an external service keeps and whose      *)
(* commit is a conditional transaction on a time read beforehand.          *)
(*                                                                         *)
(* One case, one owner.  An attempt is named by its run and its fencing    *)
(* token; a digest is the value it is the digest of.  The result version   *)
(* is 0 until the job has succeeded, so a live attempt always expects 0.   *)
(***************************************************************************)
EXTENDS Naturals, FiniteSets, FiniteSetsExt

CONSTANTS
    Workers, Readers,
    Contents,       \* PDF bytes
    Backend,        \* "sqlite" or "dynamo"
    MaxRun,         \* bound: runs of the job
    MaxToken,       \* bound: attempts of a run
    MaxTime,        \* bound: the clock
    MaxRevoke,      \* bound: revocations
    LeaseTTL, ApprovalTTL, UrlTTL,
    None

ASSUME PublicationAssumption ==
    /\ Backend \in {"sqlite", "dynamo"}
    /\ {MaxRun, MaxToken, MaxTime, LeaseTTL, ApprovalTTL, UrlTTL} \subseteq Nat \ {0}
    /\ MaxRevoke \in Nat
    /\ None \notin Contents

VARIABLES
    clock,
    job,        \* the authoritative job, run and attempt rows
    objects,    \* <<run, token>> -> the immutable PDF under that attempt's key
    access,     \* the owner's access row
    grants,     \* run -> the owner's exact grant
    epoch,      \* revocations of the case
    manifests,  \* run -> the committed manifest
    worker, reader,
    delivered   \* history: the last thing a reader was given

vars == <<clock, job, objects, access, grants, epoch, manifests, worker, reader, delivered>>
store == <<objects, access, grants, epoch, manifests>>

Runs == 1..MaxRun
Times == 0..(MaxTime + LeaseTTL + ApprovalTTL + UrlTTL)
Keys == Runs \X (1..MaxToken)
\* ManifestCandidate: the attempt and its verified artifact; with its token, a manifest.
Candidates == [run : Runs, token : 1..MaxToken, content : Contents]
Grants == [cand : Candidates, epoch : 0..MaxRevoke, expires : Times, active : BOOLEAN]
Rights == [expires : Times, active : BOOLEAN]

\* None stands for a row that is not there.
ASSUME AbsenceAssumption == None \notin Candidates \cup Grants \cup Rights

JobRow == [status : {"queued", "running", "waiting", "succeeded", "failed", "cancelled"},
           cancel : BOOLEAN, run : Runs, token : 0..MaxToken,
           owner : Workers \cup {None}, lease : Times, result : Candidates \cup {None}]

Attempt == [pc : {"idle", "write", "project", "stage", "approve", "approving", "publish",
                  "committing", "published"},
            run : Runs \cup {0}, token : 0..MaxToken, file : Contents \cup {None},
            evidence : Contents \cup {None}, seen : 0..MaxRevoke, now : Times]

Reading == [pc : {"idle", "authorize", "sources", "read", "confirm", "bytes", "deliver"},
            round : 1..4, kind : {"file", "url"}, run : Runs \cup {0}, seen : 0..MaxRevoke,
            found : Candidates \cup {None}, man : Candidates \cup {None},
            data : Contents \cup {None}, deadline : Times,
            epoch0 : 0..MaxRevoke, job0 : [dead : BOOLEAN, result : Candidates \cup {None}]]

Deliveries == [man : Candidates, data : Contents, epoch0 : 0..MaxRevoke, until : Times,
               allowed : Times, job0 : [dead : BOOLEAN, result : Candidates \cup {None}]]

NoAttempt == [pc |-> "idle", run |-> 0, token |-> 0, file |-> None, evidence |-> None,
              seen |-> 0, now |-> 0]
NoReading == [pc |-> "idle", round |-> 1, kind |-> "file", run |-> 0, seen |-> 0,
              found |-> None, man |-> None, data |-> None, deadline |-> 0, epoch0 |-> 0,
              job0 |-> [dead |-> FALSE, result |-> None]]

Init ==
    /\ clock = 0
    /\ job = [status |-> "queued", cancel |-> FALSE, run |-> 1, token |-> 0,
              owner |-> None, lease |-> 0, result |-> None]
    /\ objects = [k \in Keys |-> None]
    /\ access = None /\ epoch = 0
    /\ grants = [r \in Runs |-> None] /\ manifests = [r \in Runs |-> None]
    /\ worker = [w \in Workers |-> NoAttempt]
    /\ reader = [r \in Readers |-> NoReading]
    /\ delivered = None

(***************************************************************************)
(* The job store's own steps, as far as publication depends on them        *)
(***************************************************************************)

Live(w) == job.run = worker[w].run /\ job.token = worker[w].token /\ job.owner = w

Begin(w) ==
    /\ job.status = "queued" /\ ~job.cancel /\ job.token < MaxToken /\ worker[w].pc = "idle"
    /\ job' = [job EXCEPT !.status = "running", !.token = @ + 1, !.owner = w,
                          !.lease = clock + LeaseTTL]
    /\ worker' = [worker EXCEPT ![w] = [NoAttempt EXCEPT !.pc = "write", !.run = job.run,
                                                         !.token = job.token + 1]]
    /\ UNCHANGED <<clock, store, reader, delivered>>

Heartbeat(w) ==
    /\ job.status = "running" /\ Live(w) /\ job.lease > clock
    /\ job' = [job EXCEPT !.lease = clock + LeaseTTL]
    /\ UNCHANGED <<clock, store, worker, reader, delivered>>

Reclaim ==
    /\ job.status = "running" /\ job.lease <= clock
    /\ job' = [job EXCEPT !.status = IF job.cancel THEN "cancelled"
                                     ELSE IF job.token = MaxToken THEN "failed" ELSE "queued",
                          !.owner = None]
    /\ UNCHANGED <<clock, store, worker, reader, delivered>>

Cancel ==
    /\ job.status \in {"queued", "running", "waiting"} /\ ~job.cancel
    /\ job' = [job EXCEPT !.cancel = TRUE,
                          !.status = IF @ = "running" THEN @ ELSE "cancelled"]
    /\ UNCHANGED <<clock, store, worker, reader, delivered>>

\* The attempt ends with open questions; the answers make a new run of the job.
AskHuman(w) ==
    /\ job.status = "running" /\ Live(w) /\ job.lease > clock /\ ~job.cancel
    /\ job' = [job EXCEPT !.status = "waiting", !.owner = None]
    /\ worker' = [worker EXCEPT ![w] = NoAttempt]
    /\ UNCHANGED <<clock, store, reader, delivered>>

NewRun ==
    /\ job.status = "waiting" /\ job.run < MaxRun
    /\ job' = [job EXCEPT !.status = "queued", !.run = @ + 1, !.token = 0]
    /\ UNCHANGED <<clock, store, worker, reader, delivered>>

\* The projected result is put and published under the fence; a loser just ends.
Settle(w) ==
    /\ worker[w].pc = "published"
    /\ job' = IF job.status # "running" \/ ~Live(w) \/ job.lease <= clock \/ job.cancel THEN job
              ELSE [job EXCEPT !.status = "succeeded", !.owner = None,
                        !.result = IF worker[w].evidence = None THEN None ELSE
                            [run |-> job.run, token |-> job.token, content |-> worker[w].evidence]]
    /\ worker' = [worker EXCEPT ![w] = NoAttempt]
    /\ UNCHANGED <<clock, store, reader, delivered>>

Tick ==
    /\ clock < MaxTime /\ clock' = clock + 1
    /\ UNCHANGED <<job, store, worker, reader, delivered>>

(***************************************************************************)
(* What the repository checks                                              *)
(***************************************************************************)

Candidate(w) == [run |-> worker[w].run, token |-> worker[w].token, content |-> worker[w].evidence]

\* _pin: the candidate's run is the job's current one (else stale_publication).
Pinned(cand) == cand.run = job.run

\* _access: the owner's row is active and has not run out.
Access == access # None /\ access.active /\ access.expires > clock

\* _grant: exactly this candidate, in this epoch.
Granted(cand) ==
    LET g == grants[cand.run]
    IN  g # None /\ g.active /\ g.cand = cand /\ g.epoch = epoch /\ g.expires > clock

\* Mutant: some attempt is running.
LiveAnyAttempt(w) == job.status = "running" /\ ~job.cancel /\ job.lease > clock

\* _live, of the attempt that holds the token.
LiveAttempt(w) ==
    /\ job.status = "running" /\ ~job.cancel
    /\ Live(w) /\ job.lease > clock

\* An attempt never follows one with a higher token, nor contradicts itself.
Admissible(cand) ==
    LET old == manifests[cand.run]
    IN  old = None \/ old.token < cand.token \/ old = cand

\* Mutant: only a finished run is looked at, a lost one is not.
ReadableUnlessRunning(man) ==
    job.status = "running" => job.token = man.token /\ job.lease > clock /\ ~job.cancel

\* _readable: the running attempt's own manifest, or the one the result names.
Readable(man) ==
    \/ /\ job.status = "running" /\ ~job.cancel
       /\ job.owner # None /\ job.token = man.token /\ job.lease > clock
    \/ /\ job.status = "succeeded" /\ ~job.cancel
       /\ job.result = man

(***************************************************************************)
(* A worker publishes                                                      *)
(***************************************************************************)

At(w, pc) == worker[w].pc = pc
Go(w, upd) == worker' = [worker EXCEPT ![w] = upd]
\* PublicationError: the projection fails; the attempt may project again.
Stop(w) == Go(w, [worker[w] EXCEPT !.pc = "project"])

\* PublicationEvidenceWriter.write_pdf: the evidence is recorded with the file.
WritePdf(w, c) ==
    /\ At(w, "write")
    /\ Go(w, [worker[w] EXCEPT !.pc = "project", !.file = c, !.evidence = c])
    /\ UNCHANGED <<clock, job, store, reader, delivered>>

\* The file in the output directory is written over by somebody else.
Overwrite(w, c) ==
    /\ c # worker[w].evidence /\ worker[w].pc \in {"project", "stage"} /\ worker[w].file = worker[w].evidence
    /\ Go(w, [worker[w] EXCEPT !.file = c])
    /\ UNCHANGED <<clock, job, store, reader, delivered>>

\* A review that wrote no artifact is a result all the same.
ReviewOnly(w) ==
    /\ At(w, "write")
    /\ Go(w, [worker[w] EXCEPT !.pc = "published"])
    /\ UNCHANGED <<clock, job, store, reader, delivered>>

\* _verified_artifact: the output, read again with its template and sources, is the
\* one of the evidence, and all that is pinned elsewhere agrees (fits).
Verified(w, fits) == fits /\ worker[w].file = worker[w].evidence

\* The projection up to staging.  What refuses it once may not the next time.
Project(w, fits) ==
    /\ At(w, "project")
    /\ IF Verified(w, fits) THEN Go(w, [worker[w] EXCEPT !.pc = "stage"]) ELSE Stop(w)
    /\ UNCHANGED <<clock, job, store, reader, delivered>>

\* stage: the bytes are read again and compared, created once, and read back.
Stage(w) ==
    /\ At(w, "stage")
    /\ LET key == <<worker[w].run, worker[w].token>>
       IN  IF worker[w].file # worker[w].evidence \/ objects[key] \notin {None, worker[w].evidence}
           THEN Stop(w) /\ UNCHANGED objects
           ELSE /\ objects' = [objects EXCEPT ![key] = worker[w].file]
                /\ Go(w, [worker[w] EXCEPT !.pc = IF Backend = "sqlite" THEN "approve" ELSE "publish"])
    /\ UNCHANGED <<clock, job, access, grants, epoch, manifests, reader, delivered>>

\* approve_exact up to the source authorizer's callback.
ApproveBegin(w) ==
    /\ At(w, "approve")
    /\ IF ~Pinned(Candidate(w)) \/ epoch # 0 THEN Stop(w)
       ELSE Go(w, [worker[w] EXCEPT !.pc = "approving", !.seen = epoch])
    /\ UNCHANGED <<clock, job, store, reader, delivered>>

\* The callback returned (ok) or refused; the rest is one transaction.
ApproveEnd(w, ok) ==
    /\ At(w, "approving")
    /\ LET cand == Candidate(w)
       IN  IF ~ok \/ ~Pinned(cand) \/ worker[w].seen # epoch \/ ~LiveAttempt(w) \/ ~Admissible(cand)
           THEN Stop(w) /\ UNCHANGED <<access, grants>>
           ELSE /\ access' = [expires |-> clock + ApprovalTTL, active |-> TRUE]
                /\ grants' = [grants EXCEPT ![cand.run] =
                        [cand |-> cand, epoch |-> epoch, expires |-> clock + ApprovalTTL,
                         active |-> TRUE]]
                /\ Go(w, [worker[w] EXCEPT !.pc = "publish"])
    /\ UNCHANGED <<clock, job, objects, epoch, manifests, reader, delivered>>

\* publish, and commit up to the callback; the transaction looks at all of it again.
\* The DynamoDB store takes the time of its conditions here.
PublishBegin(w) ==
    /\ At(w, "publish")
    /\ IF ~Access \/ objects[<<worker[w].run, worker[w].token>>] # worker[w].evidence
          \/ ~Pinned(Candidate(w))
       THEN Stop(w)
       ELSE Go(w, [worker[w] EXCEPT !.pc = "committing", !.seen = epoch, !.now = clock])
    /\ UNCHANGED <<clock, job, store, reader, delivered>>

\* SQLiteManifestRepository.commit after the callback: one transaction.
Commit(w, ok) ==
    /\ Backend = "sqlite" /\ At(w, "committing")
    /\ LET cand == Candidate(w)
       IN  IF /\ ok /\ Pinned(cand) /\ worker[w].seen = epoch /\ LiveAttempt(w)
              /\ Access /\ Admissible(cand) /\ Granted(cand)
           THEN /\ manifests' = [manifests EXCEPT ![cand.run] = cand]
                /\ Go(w, [worker[w] EXCEPT !.pc = "published"])
           ELSE Stop(w) /\ UNCHANGED manifests
    /\ UNCHANGED <<clock, job, objects, access, grants, epoch, reader, delivered>>

\* DynamoDBManifestStore.commit: the conditional transaction; heard tells whether
\* its answer arrives.  Deadlines are compared with the time read before.
CloudHolds(w) ==
    LET cand == Candidate(w)
        now == worker[w].now
    IN  /\ job.status = "running" /\ ~job.cancel /\ Pinned(cand) /\ Live(w) /\ job.lease > now
        /\ access # None /\ access.active /\ access.expires > now
        /\ grants[cand.run] # None /\ grants[cand.run].active
        /\ grants[cand.run].cand = cand /\ grants[cand.run].expires > now
        /\ Admissible(cand)

CloudCommit(w, heard) ==
    /\ Backend = "dynamo" /\ At(w, "committing")
    /\ IF CloudHolds(w)
       THEN /\ manifests' = [manifests EXCEPT ![worker[w].run] = Candidate(w)]
            /\ IF heard THEN Go(w, [worker[w] EXCEPT !.pc = "published"]) ELSE Stop(w)
       ELSE Stop(w) /\ UNCHANGED manifests
    /\ UNCHANGED <<clock, job, objects, access, grants, epoch, reader, delivered>>

\* The trusted service behind the DynamoDB rows approves what a worker proposes.
CloudGrant(w) ==
    /\ Backend = "dynamo" /\ At(w, "publish") /\ epoch = 0
    /\ access' = [expires |-> clock + ApprovalTTL, active |-> TRUE]
    /\ grants' = [grants EXCEPT ![worker[w].run] =
            [cand |-> Candidate(w), epoch |-> 0, expires |-> clock + ApprovalTTL, active |-> TRUE]]
    /\ UNCHANGED <<clock, job, objects, epoch, manifests, worker, reader, delivered>>

\* revoke: the sources or the owner's rights were withdrawn.
Revoke ==
    /\ epoch < MaxRevoke
    /\ epoch' = epoch + 1
    /\ grants' = [r \in Runs |-> IF grants[r] = None THEN None
                                 ELSE [grants[r] EXCEPT !.active = FALSE]]
    /\ access' = IF access = None THEN None ELSE [access EXCEPT !.active = FALSE]
    /\ UNCHANGED <<clock, job, objects, manifests, worker, reader, delivered>>

\* The worker's process dies; its attempt is left to the lease.
Die(w) ==
    /\ worker[w].pc # "idle"
    /\ Go(w, NoAttempt)
    /\ UNCHANGED <<clock, job, store, reader, delivered>>

(***************************************************************************)
(* A reader fetches                                                        *)
(***************************************************************************)

Turn(r, upd) == reader' = [reader EXCEPT ![r] = upd]
Refuse(r) == Turn(r, NoReading)
On(r, pc) == reader[r].pc = pc

ReadStart(r, run, kind) ==
    /\ On(r, "idle")
    /\ Turn(r, [NoReading EXCEPT !.pc = "authorize", !.run = run, !.kind = kind, !.epoch0 = epoch,
                    !.job0 = [dead |-> /\ Backend = "sqlite"   \* the other does not look at the job
                                       /\ \/ job.status \in {"failed", "cancelled"}
                                          \/ job.run > run
                                          \/ job.status = "succeeded" /\ job.result = None,
                              result |-> job.result]])
    /\ UNCHANGED <<clock, job, store, worker, delivered>>

\* Where the four authorizations of a download lead: read, bytes, again, deliver.
After(r) == CASE reader[r].round = 1 -> "read"
              [] reader[r].round = 2 -> "bytes"
              [] reader[r].round = 3 -> "authorize"
              [] reader[r].round = 4 -> "deliver"
Authorized(r, deadline) ==
    Turn(r, [reader[r] EXCEPT !.pc = After(r), !.deadline = deadline, !.found = None,
                 !.round = IF @ = 4 THEN 4 ELSE @ + 1])

\* authorize(REVIEW): the access row and, in SQLite, the grant of every manifest that is
\* the current run's; their sources are then asked for outside the transaction.
Authorize(r) ==
    /\ On(r, "authorize")
    /\ LET found == IF Backend = "sqlite" THEN manifests[job.run] ELSE None
       IN  IF ~Access \/ (found # None /\ ~Granted(found)) THEN Refuse(r)
           ELSE IF found = None THEN Authorized(r, access.expires)
           ELSE Turn(r, [reader[r] EXCEPT !.pc = "sources", !.seen = epoch, !.found = found])
    /\ UNCHANGED <<clock, job, store, worker, delivered>>

AuthorizeEnd(r, ok) ==
    /\ On(r, "sources")
    /\ LET found == reader[r].found
       IN  IF ok /\ Access /\ Pinned(found) /\ reader[r].seen = epoch /\ Granted(found)
           THEN Authorized(r, Min({access.expires, grants[found.run].expires}))
           ELSE Refuse(r)
    /\ UNCHANGED <<clock, job, store, worker, delivered>>

\* repository.read: an unlocked look, then everything again in a transaction that
\* wants the same manifest.  DynamoDB reads the row once.
Read(r) ==
    /\ On(r, "read")
    /\ LET man == manifests[reader[r].run]
       IN  IF man = None THEN Refuse(r)
           ELSE IF Backend = "dynamo" THEN Turn(r, [reader[r] EXCEPT !.pc = "authorize", !.man = man])
           ELSE IF ~Pinned(man) \/ ~Granted(man) \/ ~Readable(man) THEN Refuse(r)
           ELSE Turn(r, [reader[r] EXCEPT !.pc = "confirm", !.man = man, !.seen = epoch])
    /\ UNCHANGED <<clock, job, store, worker, delivered>>

ReadEnd(r) ==
    /\ On(r, "confirm")
    /\ LET man == reader[r].man
       IN  IF /\ Pinned(man) /\ reader[r].seen = epoch /\ Access /\ Granted(man) /\ Readable(man)
              /\ manifests[man.run] = man
           THEN Turn(r, [reader[r] EXCEPT !.pc = "authorize"])
           ELSE Refuse(r)
    /\ UNCHANGED <<clock, job, store, worker, delivered>>

\* verified_bytes: the named version of the object, compared with the manifest.
ReadBytes(r) ==
    /\ On(r, "bytes")
    /\ LET man == reader[r].man
           data == objects[<<man.run, man.token>>]
       IN  IF data # man.content THEN Refuse(r)
           ELSE Turn(r, [reader[r] EXCEPT !.pc = "authorize", !.data = data])
    /\ UNCHANGED <<clock, job, store, worker, delivered>>

\* download_url: never longer than the authorization lasts.
Lifetime(r) == IF reader[r].deadline <= clock THEN 0
               ELSE Min({UrlTTL, reader[r].deadline - clock})

\* fetch_verified links the file into place; download_url signs a link for a while.
Deliver(r) ==
    /\ On(r, "deliver")
    /\ LET until == IF reader[r].kind = "file" THEN 0 ELSE clock + Lifetime(r)
       IN  IF reader[r].kind = "url" /\ Lifetime(r) < 1 THEN UNCHANGED delivered
           ELSE delivered' =
                    [man |-> reader[r].man, data |-> reader[r].data, epoch0 |-> reader[r].epoch0,
                     until |-> until, allowed |-> reader[r].deadline, job0 |-> reader[r].job0]
    /\ Refuse(r)
    /\ UNCHANGED <<clock, job, store, worker>>

JobStep == \/ Reclaim \/ Cancel \/ NewRun \/ Tick \/ Revoke
           \/ \E w \in Workers : Begin(w) \/ Heartbeat(w) \/ AskHuman(w) \/ Settle(w) \/ Die(w)
PublishStep(w) ==
    \/ \E c \in Contents : WritePdf(w, c) \/ Overwrite(w, c)
    \/ ReviewOnly(w) \/ Stage(w) \/ ApproveBegin(w) \/ PublishBegin(w) \/ CloudGrant(w)
    \/ \E ok \in BOOLEAN : Project(w, ok) \/ ApproveEnd(w, ok) \/ Commit(w, ok) \/ CloudCommit(w, ok)
ReadStep(r) ==
    \/ \E run \in Runs, kind \in {"file", "url"} : ReadStart(r, run, kind)
    \/ Authorize(r) \/ Read(r) \/ ReadEnd(r) \/ ReadBytes(r) \/ Deliver(r)
    \/ \E ok \in BOOLEAN : AuthorizeEnd(r, ok)

Next == JobStep \/ (\E w \in Workers : PublishStep(w)) \/ (\E r \in Readers : ReadStep(r))

Spec == Init /\ [][Next]_vars

(***************************************************************************)
(* Properties                                                              *)
(***************************************************************************)

TypeOK ==
    /\ clock \in 0..MaxTime /\ job \in JobRow
    /\ objects \in [Keys -> Contents \cup {None}]
    /\ access \in Rights \cup {None} /\ epoch \in 0..MaxRevoke
    /\ grants \in [Runs -> Grants \cup {None}]
    /\ manifests \in [Runs -> Candidates \cup {None}]
    /\ worker \in [Workers -> Attempt] /\ reader \in [Readers -> Reading]
    /\ delivered \in Deliveries \cup {None}

\* The artifact a succeeded job names is the committed manifest of its run and the
\* object under its key holds the bytes that were verified, whatever attempts that lost
\* the lease were still doing.
ResultIsPublished ==
    job.result # None =>
        /\ manifests[job.result.run] = job.result
        /\ objects[<<job.result.run, job.result.token>>] = job.result.content

\* A manifest is only ever replaced by one of a later attempt, and it is put while its
\* own attempt holds the job: a superseded worker cannot commit, not even first.
CommitsAreFenced ==
    [][\A r \in DOMAIN manifests : manifests'[r] # manifests[r] =>
            /\ manifests'[r].token = job.token /\ r = job.run /\ job.status = "running"
            /\ manifests[r] # None => manifests[r].token < manifests'[r].token]_vars

\* Once a case is revoked nothing more is published of it, though the sources' callback
\* of an approval or of a commit was under way.
NothingPublishedAfterRevoke == [][epoch > 0 => manifests' = manifests]_vars

\* Nobody who begins to read after a revocation is given anything.
RevokedIsUnreadable == delivered # None => delivered.epoch0 = 0

\* Nobody who begins to read after the job failed, was cancelled, went on to another
\* run or succeeded without an artifact is given what an attempt had committed, except
\* by the DynamoDB store, which does not look at the job (ReadStart).
LostRunsAreUnreadable == delivered # None => ~delivered.job0.dead

\* Who begins to read a run after it gave the job its result is given the bytes of that
\* result.  (The DynamoDB store hands out earlier runs, too.)
ReadersGetTheResult ==
    delivered # None =>
        /\ delivered.data = delivered.man.content
        /\ delivered.job0.result # None /\ delivered.job0.result.run = delivered.man.run
              => delivered.man = delivered.job0.result

\* A signed link ends no later than the authorization it was issued under.
LinksEndWithTheGrant == delivered # None => delivered.until <= delivered.allowed

\* Who is given an artifact could still claim it when he began to read, and gets the
\* result itself, for no longer than he may.
ReadersAreEntitled ==
    /\ ResultIsPublished /\ RevokedIsUnreadable /\ LostRunsAreUnreadable
    /\ ReadersGetTheResult /\ LinksEndWithTheGrant

\* Only the attempt that holds the job publishes, and nobody once the case is revoked.
PublicationIsAuthorized == CommitsAreFenced /\ NothingPublishedAfterRevoke
=============================================================================
