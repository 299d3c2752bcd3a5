--------------------- MODULE ArtifactPublication_proofs ---------------------
(***************************************************************************)
(* Theorems about documents.  On their way out: the publication of a job's *)
(* report and its readers, for any number of workers, readers, runs,       *)
(* attempts and revocations, and for both stores.  On their way in: their  *)
(* admission, snapshots and reads, for any number of callers, attestations *)
(* and runs and any failures and outside writes.                           *)
(***************************************************************************)
EXTENDS ArtifactPublication, DocumentTransfer, FiniteSetTheorems, TLAPS

-----------------------------------------------------------------------------
(***************************************************************************)
(* The inductive invariant                                                 *)
(***************************************************************************)

Busy == {"project", "stage", "approve", "approving", "publish", "committing"}
Published(a) == a.pc = "published" /\ a.evidence # None
Holding(w, a) == job.status = "running" /\ job.run = a.run /\ job.token = a.token /\ job.owner = w

\* What an attempt knows: the row it was claimed from is not behind it, an approval under
\* way was begun before any revocation, what it commits is staged under its own key, and
\* what it published is there for as long as it holds the job.
AttemptSound(w, a) ==
    /\ a.pc # "idle" =>
          /\ a.run \in Runs /\ a.token \in 1..MaxToken
          /\ a.run <= job.run
          /\ a.run = job.run => a.token <= job.token
    /\ a.pc = "write" => a.evidence = None
    /\ a.pc \in Busy => a.evidence \in Contents
    /\ a.pc = "approving" => a.seen = 0
    /\ a.pc = "committing" \/ Published(a) => objects[<<a.run, a.token>>] = a.evidence
    /\ Published(a) /\ Holding(w, a)
          => manifests[a.run] = [run |-> a.run, token |-> a.token, content |-> a.evidence]

\* A revoked case grants no access, a manifest is kept under its own run, and the result of
\* a job is that of its last run.
StoreSound ==
    /\ epoch > 0 /\ access # None => ~access.active
    /\ \A r \in Runs : manifests[r] # None => manifests[r].run = r
    /\ job.result # None => job.status = "succeeded"
    /\ ResultIsPublished

\* The job gives no artifact of that run any more.
Lost(run) ==
    \/ job.status \in {"failed", "cancelled"}
    \/ job.run > run
    \/ job.status = "succeeded" /\ job.result = None

\* A reader has got as far as his authorizations: what he saw when he began still stands,
\* and what he has read is the manifest of the run he asked for.
ReaderSound(x) ==
    /\ x.pc # "idle" =>
          /\ x.run \in Runs
          /\ x.epoch0 <= epoch
          /\ x.job0.result # None => job.result = x.job0.result
          /\ x.job0.dead => Backend = "sqlite" /\ Lost(x.run)
    /\ x.round >= 2 => x.epoch0 = 0
    /\ x.pc = "read" \/ x.pc = "confirm" => x.round = 2
    /\ x.pc = "bytes" => x.round = 3
    /\ x.pc = "deliver" => x.round = 4
    /\ x.pc = "sources" => x.found # None
    /\ x.round >= 2 /\ x.pc # "read" => x.man # None
    /\ x.round >= 3 /\ x.pc # "bytes" => x.man # None /\ x.data = x.man.content
    /\ x.man # None =>
          /\ x.man.run = x.run
          /\ x.job0.result # None /\ x.job0.result.run = x.man.run => x.man = x.job0.result
          /\ ~x.job0.dead

Given == RevokedIsUnreadable /\ LostRunsAreUnreadable /\ ReadersGetTheResult /\ LinksEndWithTheGrant

Inv == /\ StoreSound
       /\ \A w \in Workers : AttemptSound(w, worker[w])
       /\ \A r \in Readers : ReaderSound(reader[r])
       /\ Given

-----------------------------------------------------------------------------
(***************************************************************************)
(* Times and candidates                                                    *)
(***************************************************************************)

LEMMA TimesType ==
    ASSUME TypeOK
    PROVE  /\ clock \in Nat /\ clock \in Times
           /\ clock + LeaseTTL \in Times /\ clock + ApprovalTTL \in Times
           /\ Times \subseteq Nat
           /\ \A n \in 0..UrlTTL : clock + n \in Times
BY PublicationAssumption DEF TypeOK, Times

LEMMA MinOfTwo ==
    ASSUME NEW a \in Nat, NEW b \in Nat
    PROVE  Min({a, b}) \in {a, b} /\ Min({a, b}) <= a /\ Min({a, b}) <= b
<1>1. \E x \in {a, b} : \A y \in {a, b} : x =< y
  BY a <= b \/ b <= a
<1>2. /\ Min({a, b}) \in {a, b}
      /\ \A y \in {a, b} : Min({a, b}) =< y
  BY <1>1 DEF Min
<1> QED
  BY <1>2

\* The candidate of an attempt that is busy, or has published, is well formed.
LEMMA CandidateType ==
    ASSUME TypeOK, NEW w \in Workers, AttemptSound(w, worker[w]), worker[w].pc # "idle",
           worker[w].evidence \in Contents
    PROVE  /\ Candidate(w) \in Candidates /\ Candidate(w) # None
           /\ Candidate(w).run = worker[w].run /\ Candidate(w).token = worker[w].token
           /\ Candidate(w).content = worker[w].evidence
           /\ <<worker[w].run, worker[w].token>> \in Keys
BY AbsenceAssumption DEF AttemptSound, Candidate, Candidates, Keys

LEMMA ManifestType ==
    ASSUME NEW man \in Candidates
    PROVE  /\ man # None /\ man.run \in Runs /\ man.token \in 1..MaxToken
           /\ man.content \in Contents /\ <<man.run, man.token>> \in Keys
BY AbsenceAssumption DEF Candidates, Keys

LEMMA RowTypes ==
    ASSUME TypeOK
    PROVE  /\ \A w \in Workers : worker[w] \in Attempt
           /\ \A r \in Readers : reader[r] \in Reading
           /\ job \in JobRow /\ job.run \in Nat /\ job.token \in Nat
BY PublicationAssumption DEF TypeOK, JobRow, Runs

-----------------------------------------------------------------------------
(***************************************************************************)
(* What a step leaves alone                                                *)
(***************************************************************************)

\* The job never goes back: not to an earlier run or attempt, not behind a result, and a
\* run that is lost stays lost.
JobKept ==
    /\ job.run <= job'.run
    /\ job'.run = job.run => job.token <= job'.token
    /\ job.result # None => job'.result = job.result
    /\ \A run \in Runs : Lost(run) => Lost(run)'

\* An object is written once.
ObjectsKept == \A k \in Keys : objects[k] # None => objects'[k] = objects[k]

LEMMA AttemptStays ==
    ASSUME TypeOK, NEW w \in Workers, AttemptSound(w, worker[w]), worker'[w] = worker[w],
           job.run <= job'.run, job'.run = job.run => job.token <= job'.token, job' \in JobRow,
           ObjectsKept, None \notin Contents,
           worker[w].pc # "idle" /\ Holding(w, worker[w])'
              => /\ Holding(w, worker[w])
                 /\ manifests'[worker[w].run] = manifests[worker[w].run]
    PROVE  AttemptSound(w, worker[w])'
<1> PICK a \in Attempt : a = worker[w]
  BY RowTypes
<1>1. a = worker'[w] /\ AttemptSound(w, a)
  OBVIOUS
<1>2. a.pc # "idle" =>
          /\ a.run \in Runs /\ a.token \in 1..MaxToken
          /\ a.run <= job'.run
          /\ a.run = job'.run => a.token <= job'.token
  BY <1>1, PublicationAssumption, RowTypes DEF AttemptSound, JobRow, Runs
<1>3. a.pc = "committing" \/ Published(a) => objects'[<<a.run, a.token>>] = a.evidence
  <2> SUFFICES ASSUME a.pc = "committing" \/ Published(a)
               PROVE  objects'[<<a.run, a.token>>] = a.evidence
    OBVIOUS
  <2>1. a.evidence # None /\ objects[<<a.run, a.token>>] = a.evidence
        /\ <<a.run, a.token>> \in Keys
    BY <1>1 DEF AttemptSound, Published, Busy, Keys
  <2> QED
    BY <2>1 DEF ObjectsKept
<1>4. Published(a) /\ Holding(w, a)'
         => manifests'[a.run] = [run |-> a.run, token |-> a.token, content |-> a.evidence]
  BY <1>1 DEF AttemptSound, Published, Holding
<1>5. /\ a.pc \in Busy => a.evidence \in Contents
      /\ a.pc = "approving" => a.seen = 0
      /\ a.pc = "write" => a.evidence = None
  BY <1>1 DEF AttemptSound
<1>6. AttemptSound(w, a)'
  BY <1>2, <1>3, <1>4, <1>5 DEF AttemptSound, Published
<1> QED
  BY <1>1, <1>6 DEF AttemptSound, Published, Holding

LEMMA ReaderStays ==
    ASSUME NEW x \in Reading, ReaderSound(x), JobKept, epoch \in Nat, epoch' \in Nat, epoch <= epoch'
    PROVE  ReaderSound(x)'
<1>1. x.pc # "idle" =>
          /\ x.run \in Runs
          /\ x.epoch0 <= epoch'
          /\ x.job0.result # None => job'.result = x.job0.result
          /\ x.job0.dead => Backend = "sqlite" /\ Lost(x.run)'
  <2>1. x.epoch0 \in Nat
    BY PublicationAssumption DEF Reading
  <2> QED
    BY <2>1 DEF ReaderSound, JobKept
<1> QED
  BY <1>1 DEF ReaderSound

LEMMA ReadersStay ==
    ASSUME TypeOK, Inv, UNCHANGED reader, JobKept, epoch' \in Nat, epoch <= epoch'
    PROVE  \A r \in Readers : ReaderSound(reader[r])'
<1> TAKE r \in Readers
<1>1. epoch \in Nat
  BY PublicationAssumption DEF TypeOK
<1>2. PICK x \in Reading : x = reader[r] /\ x = reader'[r]
  BY RowTypes
<1>3. ReaderSound(x)'
  BY <1>1, <1>2, ReaderStays DEF Inv
<1> QED
  BY <1>2, <1>3 DEF ReaderSound, Lost

LEMMA JobStands ==
    ASSUME TypeOK, UNCHANGED job
    PROVE  JobKept /\ job' \in JobRow
BY RowTypes DEF JobKept, Lost

-----------------------------------------------------------------------------
(***************************************************************************)
(* Workers                                                                 *)
(***************************************************************************)

\* A step of one worker at his attempt's row and the store.
LEMMA WorkerMoves ==
    ASSUME TypeOK, Inv, NEW w \in Workers, NEW x \in Attempt, Go(w, x),
           UNCHANGED <<clock, job, epoch, reader, delivered>>,
           objects' \in [Keys -> Contents \cup {None}], ObjectsKept,
           access' \in Rights \cup {None}, grants' \in [Runs -> Grants \cup {None}],
           manifests' \in [Runs -> Candidates \cup {None}],
           StoreSound', AttemptSound(w, x)',
           \A v \in Workers \ {w} : Holding(v, worker[v]) /\ worker[v].pc # "idle"
              => manifests'[worker[v].run] = manifests[worker[v].run]
    PROVE  TypeOK' /\ Inv'
<1>1. worker' \in [Workers -> Attempt] /\ worker'[w] = x
      /\ \A v \in Workers \ {w} : worker'[v] = worker[v]
  BY DEF Go, TypeOK
<1>2. TypeOK'
  BY <1>1 DEF TypeOK
<1>3. JobKept /\ job' \in JobRow
  BY JobStands
<1>4. \A r \in Readers : ReaderSound(reader[r])'
  <2>1. epoch' \in Nat /\ epoch <= epoch'
    BY PublicationAssumption DEF TypeOK
  <2> QED
    BY <1>3, <2>1, ReadersStay
<1>5. AttemptSound(w, worker[w])'
  BY <1>1 DEF AttemptSound, Published, Holding
<1>6. ASSUME NEW v \in Workers \ {w} PROVE AttemptSound(v, worker[v])'
  <2>1. Holding(v, worker[v])' => Holding(v, worker[v])
    BY <1>1 DEF Holding
  <2>2. AttemptSound(v, worker[v])
    BY DEF Inv
  <2> QED
    BY <1>1, <1>3, <2>1, <2>2, AttemptStays, PublicationAssumption DEF JobKept
<1>7. Given'
  BY DEF Inv, Given, RevokedIsUnreadable, ReadersGetTheResult, LinksEndWithTheGrant,
         LostRunsAreUnreadable
<1> QED
  BY <1>2, <1>4, <1>5, <1>6, <1>7 DEF Inv

\* A step that writes to the worker's row alone.
LEMMA RowMoves ==
    ASSUME TypeOK, Inv, NEW w \in Workers, NEW x \in Attempt, Go(w, x), AttemptSound(w, x),
           UNCHANGED <<clock, job, store, reader, delivered>>
    PROVE  TypeOK' /\ Inv'
<1>1. ObjectsKept
  BY DEF ObjectsKept, store
<1>2. StoreSound'
  BY DEF Inv, StoreSound, ResultIsPublished, store
<1>3. AttemptSound(w, x)'
  BY DEF AttemptSound, Published, Holding, store
<1>4. /\ objects' \in [Keys -> Contents \cup {None}]
      /\ access' \in Rights \cup {None} /\ grants' \in [Runs -> Grants \cup {None}]
      /\ manifests' \in [Runs -> Candidates \cup {None}]
      /\ UNCHANGED <<epoch, manifests>>
  BY DEF TypeOK, store
<1> QED
  BY <1>1, <1>2, <1>3, <1>4, WorkerMoves

\* A projection that fails sends the attempt back, whatever it was doing.
LEMMA StopMoves ==
    ASSUME TypeOK, Inv, NEW w \in Workers, worker[w].pc \in Busy, Stop(w),
           UNCHANGED <<clock, job, store, reader, delivered>>
    PROVE  TypeOK' /\ Inv'
<1>1. PICK x : x = [worker[w] EXCEPT !.pc = "project"]
  OBVIOUS
<1>2. worker[w] \in Attempt /\ AttemptSound(w, worker[w])
  BY RowTypes DEF Inv
<1>3. x \in Attempt /\ Go(w, x)
  BY <1>1, <1>2 DEF Attempt, Stop
<1>4. AttemptSound(w, x)
  BY <1>1, <1>2 DEF Attempt, AttemptSound, Busy, Published
<1> QED
  BY <1>3, <1>4, RowMoves

LEMMA RowActions ==
    ASSUME TypeOK, Inv, NEW w \in Workers,
           \/ \E c \in Contents : WritePdf(w, c) \/ Overwrite(w, c)
           \/ ReviewOnly(w) \/ ApproveBegin(w) \/ PublishBegin(w) \/ Die(w)
           \/ \E ok \in BOOLEAN : Project(w, ok)
    PROVE  TypeOK' /\ Inv'
<1>1. worker[w] \in Attempt /\ AttemptSound(w, worker[w])
  BY RowTypes DEF Inv
<1>2. ASSUME NEW c \in Contents, WritePdf(w, c) PROVE TypeOK' /\ Inv'
  <2>1. PICK x : x = [worker[w] EXCEPT !.pc = "project", !.file = c, !.evidence = c]
    OBVIOUS
  <2>2. x \in Attempt /\ Go(w, x) /\ worker[w].pc = "write"
    BY <1>1, <1>2, <2>1 DEF Attempt, WritePdf, At
  <2>3. /\ x.pc = "project" /\ x.evidence = c
        /\ x.run = worker[w].run /\ x.token = worker[w].token
    BY <1>1, <2>1 DEF Attempt
  <2>4. AttemptSound(w, x)
    BY <1>1, <2>2, <2>3 DEF AttemptSound, Published
  <2> QED
    BY <1>2, <2>2, <2>4, RowMoves DEF WritePdf
<1>3. ASSUME NEW c \in Contents, Overwrite(w, c) PROVE TypeOK' /\ Inv'
  <2>1. PICK x : x = [worker[w] EXCEPT !.file = c]
    OBVIOUS
  <2>2. x \in Attempt /\ Go(w, x)
    BY <1>1, <1>3, <2>1 DEF Attempt, Overwrite
  <2>3. AttemptSound(w, x)
    BY <1>1, <2>1 DEF Attempt, AttemptSound, Published, Holding
  <2> QED
    BY <1>3, <2>2, <2>3, RowMoves DEF Overwrite
<1>4. CASE ReviewOnly(w)
  <2>1. PICK x : x = [worker[w] EXCEPT !.pc = "published"]
    OBVIOUS
  <2>2. x \in Attempt /\ Go(w, x) /\ worker[w].pc = "write"
    BY <1>1, <1>4, <2>1 DEF Attempt, ReviewOnly, At
  <2>3. AttemptSound(w, x)
    BY <1>1, <2>1, <2>2 DEF Attempt, AttemptSound, Busy, Published
  <2> QED
    BY <1>4, <2>2, <2>3, RowMoves DEF ReviewOnly
<1>5. CASE ApproveBegin(w)
  <2>1. worker[w].pc = "approve"
    BY <1>5 DEF ApproveBegin, At
  <2>2. CASE Stop(w)
    BY <1>5, <2>1, <2>2, StopMoves DEF ApproveBegin, Busy
  <2>3. CASE epoch = 0 /\ Go(w, [worker[w] EXCEPT !.pc = "approving", !.seen = epoch])
    <3>1. PICK x : x = [worker[w] EXCEPT !.pc = "approving", !.seen = epoch]
      OBVIOUS
    <3>2. x \in Attempt /\ Go(w, x)
      BY <1>1, <2>3, <3>1 DEF Attempt, TypeOK
    <3>3. AttemptSound(w, x)
      BY <1>1, <2>1, <2>3, <3>1 DEF Attempt, AttemptSound, Busy, Published
    <3> QED
      BY <1>5, <3>2, <3>3, RowMoves DEF ApproveBegin
  <2> QED
    BY <1>5, <2>2, <2>3 DEF ApproveBegin
<1>6. CASE PublishBegin(w)
  <2>1. worker[w].pc = "publish"
    BY <1>6 DEF PublishBegin, At
  <2>2. CASE Stop(w)
    BY <1>6, <2>1, <2>2, StopMoves DEF PublishBegin, Busy
  <2>3. CASE /\ objects[<<worker[w].run, worker[w].token>>] = worker[w].evidence
             /\ Go(w, [worker[w] EXCEPT !.pc = "committing", !.seen = epoch, !.now = clock])
    <3>1. PICK x : x = [worker[w] EXCEPT !.pc = "committing", !.seen = epoch, !.now = clock]
      OBVIOUS
    <3>2. x \in Attempt /\ Go(w, x)
      BY <1>1, <2>3, <3>1, TimesType DEF Attempt, TypeOK
    <3>3. AttemptSound(w, x)
      BY <1>1, <2>1, <2>3, <3>1 DEF Attempt, AttemptSound, Busy, Published
    <3> QED
      BY <1>6, <3>2, <3>3, RowMoves DEF PublishBegin
  <2> QED
    BY <1>6, <2>2, <2>3 DEF PublishBegin
<1>7. CASE Die(w)
  <2>1. NoAttempt \in Attempt
    BY PublicationAssumption DEF NoAttempt, Attempt, Times
  <2>2. AttemptSound(w, NoAttempt)
    BY DEF AttemptSound, NoAttempt, Busy, Published
  <2> QED
    BY <1>7, <2>1, <2>2, RowMoves DEF Die
<1>8. ASSUME NEW ok \in BOOLEAN, Project(w, ok) PROVE TypeOK' /\ Inv'
  <2>1. worker[w].pc = "project"
    BY <1>8 DEF Project, At
  <2>2. CASE Stop(w)
    BY <1>8, <2>1, <2>2, StopMoves DEF Project, Busy
  <2>3. CASE Go(w, [worker[w] EXCEPT !.pc = "stage"])
    <3>1. PICK x : x = [worker[w] EXCEPT !.pc = "stage"]
      OBVIOUS
    <3>2. x \in Attempt /\ Go(w, x)
      BY <1>1, <2>3, <3>1 DEF Attempt
    <3>3. AttemptSound(w, x)
      BY <1>1, <2>1, <3>1 DEF Attempt, AttemptSound, Busy, Published
    <3> QED
      BY <1>8, <3>2, <3>3, RowMoves DEF Project
  <2> QED
    BY <1>8, <2>2, <2>3 DEF Project
<1> QED
  BY <1>2, <1>3, <1>4, <1>5, <1>6, <1>7, <1>8

\* The first bytes under a key stay there, and they are those of the attempt it is named for.
LEMMA StageMoves ==
    ASSUME TypeOK, Inv, NEW w \in Workers, Stage(w)
    PROVE  TypeOK' /\ Inv'
<1>1. worker[w] \in Attempt /\ AttemptSound(w, worker[w]) /\ worker[w].pc = "stage"
  BY RowTypes DEF Inv, Stage, At
<1>2. UNCHANGED <<clock, job, access, grants, epoch, manifests, reader, delivered>>
  BY DEF Stage
<1>3. CASE Stop(w) /\ UNCHANGED objects
  BY <1>1, <1>2, <1>3, StopMoves DEF Busy, store
<1>4. ASSUME NEW pc \in {"approve", "publish"},
             worker[w].file = worker[w].evidence,
             objects[<<worker[w].run, worker[w].token>>] \in {None, worker[w].evidence},
             objects' = [objects EXCEPT ![<<worker[w].run, worker[w].token>>] = worker[w].file],
             Go(w, [worker[w] EXCEPT !.pc = pc])
      PROVE  TypeOK' /\ Inv'
  <2>1. PICK x : x = [worker[w] EXCEPT !.pc = pc]
    OBVIOUS
  <2>2. x \in Attempt /\ Go(w, x)
    BY <1>1, <1>4, <2>1 DEF Attempt
  <2>3. worker[w].evidence \in Contents /\ <<worker[w].run, worker[w].token>> \in Keys
    BY <1>1 DEF AttemptSound, Busy, Keys
  <2>4. objects' \in [Keys -> Contents \cup {None}] /\ ObjectsKept
    BY <1>4, <2>3 DEF TypeOK, ObjectsKept
  <2>5. StoreSound'
    <3>1. job.result # None =>
             objects'[<<job.result.run, job.result.token>>] = job.result.content
      <4> SUFFICES ASSUME job.result # None
                   PROVE  objects'[<<job.result.run, job.result.token>>] = job.result.content
        OBVIOUS
      <4>1. job.result \in Candidates
        BY RowTypes DEF JobRow
      <4>2. /\ objects[<<job.result.run, job.result.token>>] = job.result.content
            /\ <<job.result.run, job.result.token>> \in Keys
            /\ job.result.content # None
        BY <4>1, ManifestType, PublicationAssumption DEF Inv, StoreSound, ResultIsPublished
      <4> QED
        BY <2>4, <4>2 DEF ObjectsKept
    <3> QED
      BY <1>2, <3>1 DEF Inv, StoreSound, ResultIsPublished
  <2>6. AttemptSound(w, x)'
    BY <1>1, <1>2, <2>1 DEF Attempt, AttemptSound, Busy, Published
  <2> QED
    BY <1>2, <2>2, <2>4, <2>5, <2>6, WorkerMoves DEF TypeOK
<1> QED
  BY <1>3, <1>4 DEF Stage

\* An approval that began before any revocation, of an attempt that holds the job.
LEMMA ApprovalMoves ==
    ASSUME TypeOK, Inv, NEW w \in Workers, NEW ok \in BOOLEAN, ApproveEnd(w, ok)
    PROVE  TypeOK' /\ Inv'
<1>1. worker[w] \in Attempt /\ AttemptSound(w, worker[w]) /\ worker[w].pc = "approving"
  BY RowTypes DEF Inv, ApproveEnd, At
<1>2. UNCHANGED <<clock, job, objects, epoch, manifests, reader, delivered>>
  BY DEF ApproveEnd
<1>3. CASE Stop(w) /\ UNCHANGED <<access, grants>>
  BY <1>1, <1>2, <1>3, StopMoves DEF Busy, store
<1>4. ASSUME worker[w].seen = epoch,
             access' = [expires |-> clock + ApprovalTTL, active |-> TRUE],
             grants' = [grants EXCEPT ![Candidate(w).run] =
                          [cand |-> Candidate(w), epoch |-> epoch,
                           expires |-> clock + ApprovalTTL, active |-> TRUE]],
             Go(w, [worker[w] EXCEPT !.pc = "publish"])
      PROVE  TypeOK' /\ Inv'
  <2>1. PICK x : x = [worker[w] EXCEPT !.pc = "publish"]
    OBVIOUS
  <2>2. x \in Attempt /\ Go(w, x)
    BY <1>1, <1>4, <2>1 DEF Attempt
  <2>3. worker[w].evidence \in Contents /\ epoch = 0
    BY <1>1, <1>4 DEF AttemptSound, Busy
  <2>4. Candidate(w) \in Candidates /\ Candidate(w).run = worker[w].run
    BY <1>1, <2>3, CandidateType
  <2>5. access' \in Rights
    BY <1>4, TimesType DEF Rights
  <2>6. grants' \in [Runs -> Grants \cup {None}]
    <3>1. [cand |-> Candidate(w), epoch |-> epoch, expires |-> clock + ApprovalTTL,
           active |-> TRUE] \in Grants
      BY <2>4, TimesType DEF Grants, TypeOK
    <3> QED
      BY <1>4, <3>1 DEF TypeOK
  <2>7. StoreSound'
    BY <1>2, <2>3 DEF Inv, StoreSound, ResultIsPublished
  <2>8. AttemptSound(w, x)'
    BY <1>1, <1>2, <2>1 DEF Attempt, AttemptSound, Busy, Published
  <2> QED
    BY <1>2, <2>2, <2>5, <2>6, <2>7, <2>8, WorkerMoves DEF TypeOK, ObjectsKept
<1> QED
  BY <1>3, <1>4 DEF ApproveEnd

\* The service grants nothing once the case is revoked.
LEMMA GrantMoves ==
    ASSUME TypeOK, Inv, NEW w \in Workers, CloudGrant(w)
    PROVE  TypeOK' /\ Inv'
<1>1. worker[w] \in Attempt /\ AttemptSound(w, worker[w]) /\ worker[w].pc = "publish"
  BY RowTypes DEF Inv, CloudGrant, At
<1>2. /\ UNCHANGED <<clock, job, objects, epoch, manifests, worker, reader, delivered>>
      /\ epoch = 0
  BY DEF CloudGrant
<1>3. Go(w, worker[w])
  BY <1>2 DEF Go, TypeOK
<1>4. worker[w].evidence \in Contents
  BY <1>1 DEF AttemptSound, Busy
<1>5. Candidate(w) \in Candidates /\ worker[w].run \in Runs
  BY <1>1, <1>4, CandidateType DEF AttemptSound
<1>6. access' \in Rights
  BY TimesType DEF Rights, CloudGrant
<1>7. grants' \in [Runs -> Grants \cup {None}]
  <2>1. [cand |-> Candidate(w), epoch |-> 0, expires |-> clock + ApprovalTTL,
         active |-> TRUE] \in Grants
    BY <1>2, <1>5, TimesType DEF Grants, TypeOK
  <2> QED
    BY <1>5, <2>1 DEF TypeOK, CloudGrant
<1>8. StoreSound'
  BY <1>2 DEF Inv, StoreSound, ResultIsPublished
<1>9. PICK x \in Attempt : x = worker[w]
  BY <1>1
<1>10. AttemptSound(w, x)'
  BY <1>1, <1>2, <1>9 DEF AttemptSound, Published, Holding
<1> QED
  BY <1>2, <1>3, <1>6, <1>7, <1>8, <1>9, <1>10, WorkerMoves DEF TypeOK, ObjectsKept

\* A commit writes the manifest of the run that is current, for the attempt that holds it.
Commits(w) ==
    /\ worker[w].pc = "committing"
    /\ epoch = 0 /\ job.status = "running"
    /\ Pinned(Candidate(w)) /\ Live(w) /\ Admissible(Candidate(w))
    /\ manifests' = [manifests EXCEPT ![Candidate(w).run] = Candidate(w)]

\* A commit that is not refused goes through with the case unrevoked.
LEMMA CommitGuard ==
    ASSUME TypeOK, Inv, NEW w \in Workers, NEW ok \in BOOLEAN,
           Commit(w, ok) \/ CloudCommit(w, ok)
    PROVE  /\ worker[w].pc = "committing"
           /\ UNCHANGED <<clock, job, objects, access, grants, epoch, reader, delivered>>
           /\ \/ Stop(w) /\ UNCHANGED manifests
              \/ /\ Commits(w)
                 /\ Stop(w) \/ Go(w, [worker[w] EXCEPT !.pc = "published"])
<1>1. Access => epoch = 0
  BY PublicationAssumption DEF Inv, StoreSound, Access, TypeOK
<1>2. access # None /\ access.active => epoch = 0
  BY PublicationAssumption DEF Inv, StoreSound, TypeOK
<1>3. worker[w] \in Attempt /\ AttemptSound(w, worker[w])
  BY RowTypes DEF Inv
<1>4. CASE Commit(w, ok)
  BY <1>1, <1>4 DEF Commit, Commits, LiveAttempt, At
<1>5. CASE CloudCommit(w, ok)
  <2>1. ASSUME CloudHolds(w) PROVE Commits(w)
    <3>1. Candidate(w).run = worker[w].run
      BY DEF Candidate
    <3> QED
      BY <1>2, <1>5, <2>1, <3>1 DEF CloudCommit, CloudHolds, Commits, At
  <2> QED
    BY <1>5, <2>1 DEF CloudCommit, At
<1> QED
  BY <1>4, <1>5

LEMMA CommitMoves ==
    ASSUME TypeOK, Inv, NEW w \in Workers, NEW ok \in BOOLEAN,
           Commit(w, ok) \/ CloudCommit(w, ok)
    PROVE  TypeOK' /\ Inv'
<1>1. /\ worker[w].pc = "committing"
      /\ UNCHANGED <<clock, job, objects, access, grants, epoch, reader, delivered>>
  BY CommitGuard
<1>2. CASE Stop(w) /\ UNCHANGED manifests
  BY <1>1, <1>2, StopMoves DEF Busy, store
<1>3. ASSUME Commits(w), NEW pc \in {"project", "published"},
             Go(w, [worker[w] EXCEPT !.pc = pc])
      PROVE  TypeOK' /\ Inv'
  <2>1. worker[w] \in Attempt /\ AttemptSound(w, worker[w]) /\ worker[w].evidence \in Contents
    BY <1>1, RowTypes DEF Inv, AttemptSound, Busy
  <2>2. PICK x : x = [worker[w] EXCEPT !.pc = pc]
    OBVIOUS
  <2>3. /\ x \in Attempt /\ Go(w, x) /\ x.pc = pc
        /\ x.run = worker[w].run /\ x.token = worker[w].token /\ x.evidence = worker[w].evidence
    BY <1>3, <2>1, <2>2 DEF Attempt
  <2>4. PICK c \in Candidates : c = Candidate(w) /\ c # None
    BY <1>1, <2>1, CandidateType
  <2>5. c.run = x.run /\ x.run \in Runs /\ c = [run |-> x.run, token |-> x.token, content |-> x.evidence]
    BY <1>1, <2>1, <2>3, <2>4 DEF Candidate, AttemptSound
  <2>6. manifests' = [manifests EXCEPT ![x.run] = c]
    BY <1>3, <2>4, <2>5 DEF Commits
  <2>7. /\ manifests' \in [Runs -> Candidates \cup {None}]
        /\ manifests'[x.run] = c
        /\ \A r \in Runs \ {x.run} : manifests'[r] = manifests[r]
    BY <2>5, <2>6 DEF TypeOK
  <2>8. job.status = "running" /\ job.owner = w
    BY <1>3 DEF Commits, Live
  <2>9. StoreSound'
    <3>1. \A r \in Runs : manifests'[r] # None => manifests'[r].run = r
      BY <2>5, <2>7 DEF Inv, StoreSound
    <3>2. job.result = None
      BY <2>8 DEF Inv, StoreSound
    <3> QED
      BY <1>1, <3>1, <3>2 DEF Inv, StoreSound, ResultIsPublished
  <2>10. AttemptSound(w, x)'
    <3>1. objects[<<x.run, x.token>>] = x.evidence
      BY <1>1, <2>1, <2>3 DEF AttemptSound
    <3>2. x.run <= job.run /\ (x.run = job.run => x.token <= job.token) /\ x.token \in 1..MaxToken
      BY <1>1, <2>1, <2>3 DEF AttemptSound
    <3> QED
      BY <1>1, <2>1, <2>3, <2>5, <2>7, <3>1, <3>2 DEF AttemptSound, Published
  <2>11. \A v \in Workers \ {w} : ~Holding(v, worker[v])
    BY <2>8 DEF Holding
  <2> QED
    BY <1>1, <2>3, <2>7, <2>9, <2>10, <2>11, WorkerMoves DEF TypeOK, ObjectsKept
<1>4. Stop(w) \/ Go(w, [worker[w] EXCEPT !.pc = "published"])
         => \E pc \in {"project", "published"} : Go(w, [worker[w] EXCEPT !.pc = pc])
  BY DEF Stop
<1> QED
  BY <1>2, <1>3, <1>4, CommitGuard

LEMMA PublisherMoves ==
    ASSUME TypeOK, Inv, NEW w \in Workers, PublishStep(w) \/ Die(w)
    PROVE  TypeOK' /\ Inv'
BY RowActions, StageMoves, ApprovalMoves, GrantMoves, CommitMoves DEF PublishStep

-----------------------------------------------------------------------------
(***************************************************************************)
(* Readers                                                                 *)
(***************************************************************************)

LEMMA ReaderMoves ==
    ASSUME TypeOK, Inv, NEW r \in Readers, NEW x \in Reading, Turn(r, x), ReaderSound(x),
           UNCHANGED <<clock, job, store, worker>>,
           delivered' \in Deliveries \cup {None}, Given'
    PROVE  TypeOK' /\ Inv'
<1>1. reader' \in [Readers -> Reading] /\ reader'[r] = x
      /\ \A q \in Readers \ {r} : reader'[q] = reader[q]
  BY DEF Turn, TypeOK
<1>2. TypeOK'
  BY <1>1 DEF TypeOK, store
<1>3. StoreSound'
  BY DEF Inv, StoreSound, ResultIsPublished, store
<1>4. \A w \in Workers : AttemptSound(w, worker[w])'
  BY DEF Inv, AttemptSound, Published, Holding, store
<1>5. ASSUME NEW q \in Readers PROVE ReaderSound(reader[q])'
  <2>1. ReaderSound(reader'[q])
    BY <1>1 DEF Inv
  <2> QED
    BY <2>1 DEF ReaderSound, Lost, store
<1> QED
  BY <1>2, <1>3, <1>4, <1>5 DEF Inv

LEMMA RefuseMoves ==
    ASSUME TypeOK, Inv, NEW r \in Readers, Refuse(r), UNCHANGED <<clock, job, store, worker>>,
           delivered' \in Deliveries \cup {None}, Given'
    PROVE  TypeOK' /\ Inv'
<1>1. NoReading \in Reading
  BY PublicationAssumption DEF NoReading, Reading, Times
<1>2. ReaderSound(NoReading)
  BY DEF NoReading, ReaderSound
<1> QED
  BY <1>1, <1>2, ReaderMoves DEF Refuse

LEMMA GivenStays ==
    ASSUME TypeOK, Inv, UNCHANGED delivered
    PROVE  delivered' \in Deliveries \cup {None} /\ Given'
BY DEF TypeOK, Inv, Given, RevokedIsUnreadable, ReadersGetTheResult, LinksEndWithTheGrant,
       LostRunsAreUnreadable

LEMMA StartMoves ==
    ASSUME TypeOK, Inv, NEW r \in Readers, NEW run \in Runs, NEW kind \in {"file", "url"},
           ReadStart(r, run, kind)
    PROVE  TypeOK' /\ Inv'
<1>1. PICK dead \in BOOLEAN : dead <=> Backend = "sqlite" /\ Lost(run)
  OBVIOUS
<1>2. PICK j0 : j0 = [dead |-> dead, result |-> job.result]
  OBVIOUS
<1>3. PICK x : x = [NoReading EXCEPT !.pc = "authorize", !.run = run, !.kind = kind,
                                     !.epoch0 = epoch, !.job0 = j0]
  OBVIOUS
<1>4. Turn(r, x)
  <2>1. (/\ Backend = "sqlite"
         /\ \/ job.status \in {"failed", "cancelled"}
            \/ job.run > run
            \/ job.status = "succeeded" /\ job.result = None) = dead
    BY <1>1 DEF Lost
  <2> QED
    BY <1>2, <1>3, <2>1 DEF ReadStart
<1>5. j0 \in [dead : BOOLEAN, result : Candidates \cup {None}]
  BY <1>2, RowTypes DEF JobRow
<1>6. x \in Reading
  <2>1. NoReading \in Reading
    BY PublicationAssumption DEF NoReading, Reading, Times
  <2>2. epoch \in 0..MaxRevoke
    BY DEF TypeOK
  <2> QED
    BY <1>3, <1>5, <2>1, <2>2 DEF Reading
<1>7. ReaderSound(x)
  <2>1. /\ x.pc = "authorize" /\ x.run = run /\ x.epoch0 = epoch /\ x.job0 = j0
        /\ x.round = 1 /\ x.man = None
    BY <1>3, <1>6 DEF NoReading, Reading
  <2>2. epoch <= epoch
    BY PublicationAssumption DEF TypeOK
  <2> QED
    BY <1>1, <1>2, <2>1, <2>2 DEF ReaderSound
<1>8. UNCHANGED <<clock, job, store, worker, delivered>>
  BY DEF ReadStart
<1> QED
  BY <1>4, <1>6, <1>7, <1>8, GivenStays, ReaderMoves

\* One of the four authorizations of a download: the case is not revoked, or was not when
\* the reader began.
LEMMA AuthorizedMoves ==
    ASSUME TypeOK, Inv, NEW r \in Readers, reader[r].pc \in {"authorize", "sources"},
           NEW deadline \in Times, epoch = 0, Authorized(r, deadline),
           UNCHANGED <<clock, job, store, worker, delivered>>
    PROVE  TypeOK' /\ Inv'
<1>1. PICK y \in Reading : y = reader[r] /\ ReaderSound(y)
  BY RowTypes DEF Inv
<1>2. y.round \in 1..4 /\ y.epoch0 \in Nat
  BY <1>1, PublicationAssumption DEF Reading
<1>3. y.epoch0 = 0 /\ y.run \in Runs
  BY <1>1, <1>2 DEF ReaderSound
<1>4. PICK pc : pc = After(r)
  OBVIOUS
<1>5. /\ y.round = 1 => pc = "read"
      /\ y.round = 2 => pc = "bytes"
      /\ y.round = 3 => pc = "authorize"
      /\ y.round = 4 => pc = "deliver"
  BY <1>1, <1>4 DEF After
<1>6. PICK n \in 1..4 : n = IF y.round = 4 THEN 4 ELSE y.round + 1
  BY <1>2
<1>7. PICK x : x = [y EXCEPT !.pc = pc, !.deadline = deadline, !.found = None, !.round = n]
  OBVIOUS
<1>8. Turn(r, x)
  BY <1>1, <1>4, <1>6, <1>7 DEF Authorized
<1>9. x \in Reading
  <2>1. pc \in {"read", "bytes", "authorize", "deliver"}
    BY <1>2, <1>5
  <2> QED
    BY <1>1, <1>7, <2>1 DEF Reading
<1>10. /\ x.pc = pc /\ x.round = n /\ x.run = y.run /\ x.man = y.man /\ x.data = y.data
       /\ x.epoch0 = y.epoch0 /\ x.job0 = y.job0
  BY <1>1, <1>7 DEF Reading
<1>11. ReaderSound(x)
  <2>1. y.pc # "idle" /\ y.pc # "read" /\ y.pc # "bytes"
    BY <1>1
  <2>2. x.pc = "read" \/ x.pc = "confirm" => x.round = 2
    BY <1>2, <1>5, <1>6, <1>10
  <2>3. (x.pc = "bytes" => x.round = 3) /\ (x.pc = "deliver" => x.round = 4)
        /\ x.pc # "sources"
    BY <1>2, <1>5, <1>6, <1>10
  <2>4. /\ x.round >= 2 /\ x.pc # "read" => x.man # None
        /\ x.round >= 3 /\ x.pc # "bytes" => x.man # None /\ x.data = x.man.content
    BY <1>1, <1>2, <1>5, <1>6, <1>10, <2>1 DEF ReaderSound
  <2> QED
    BY <1>1, <1>3, <1>10, <2>1, <2>2, <2>3, <2>4 DEF ReaderSound
<1> QED
  BY <1>8, <1>9, <1>11, GivenStays, ReaderMoves

LEMMA AuthorizeMoves ==
    ASSUME TypeOK, Inv, NEW r \in Readers,
           Authorize(r) \/ \E ok \in BOOLEAN : AuthorizeEnd(r, ok)
    PROVE  TypeOK' /\ Inv'
<1>1. Access => epoch = 0
  BY PublicationAssumption DEF Inv, StoreSound, Access, TypeOK
<1>2. Access => access.expires \in Times
  BY DEF Access, TypeOK, Rights
<1>3. PICK y \in Reading : y = reader[r] /\ ReaderSound(y)
  BY RowTypes DEF Inv
<1>4. CASE Authorize(r)
  <2>1. y.pc = "authorize" /\ UNCHANGED <<clock, job, store, worker, delivered>>
    BY <1>3, <1>4 DEF Authorize, On
  <2>2. PICK found : found = IF Backend = "sqlite" THEN manifests[job.run] ELSE None
    OBVIOUS
  <2>3. \/ Refuse(r)
        \/ Access /\ Authorized(r, access.expires)
        \/ found # None /\ Turn(r, [y EXCEPT !.pc = "sources", !.seen = epoch, !.found = found])
    BY <1>3, <1>4, <2>2 DEF Authorize
  <2>4. CASE Refuse(r)
    BY <2>1, <2>4, RefuseMoves, GivenStays
  <2>5. CASE Access /\ Authorized(r, access.expires)
    BY <1>1, <1>2, <1>3, <2>1, <2>5, AuthorizedMoves
  <2>6. CASE found # None /\ Turn(r, [y EXCEPT !.pc = "sources", !.seen = epoch, !.found = found])
    <3>1. PICK x : x = [y EXCEPT !.pc = "sources", !.seen = epoch, !.found = found]
      OBVIOUS
    <3>2. found \in Candidates \cup {None} /\ epoch \in 0..MaxRevoke
      BY <2>2, RowTypes DEF TypeOK, JobRow
    <3>3. x \in Reading
      BY <1>3, <3>1, <3>2 DEF Reading
    <3>4. /\ x.pc = "sources" /\ x.round = y.round /\ x.run = y.run /\ x.man = y.man
          /\ x.data = y.data /\ x.epoch0 = y.epoch0 /\ x.job0 = y.job0 /\ x.found = found
      BY <1>3, <3>1 DEF Reading
    <3>5. ReaderSound(x)
      BY <1>3, <2>1, <2>6, <3>4 DEF ReaderSound
    <3> QED
      BY <2>1, <2>6, <3>1, <3>3, <3>5, GivenStays, ReaderMoves
  <2> QED
    BY <2>3, <2>4, <2>5, <2>6
<1>5. ASSUME NEW ok \in BOOLEAN, AuthorizeEnd(r, ok) PROVE TypeOK' /\ Inv'
  <2>1. y.pc = "sources" /\ UNCHANGED <<clock, job, store, worker, delivered>>
    BY <1>3, <1>5 DEF AuthorizeEnd, On
  <2>2. CASE Refuse(r)
    BY <2>1, <2>2, RefuseMoves, GivenStays
  <2>3. CASE Access /\ Granted(y.found)
             /\ Authorized(r, Min({access.expires, grants[y.found.run].expires}))
    <3>1. y.found \in Candidates /\ y.found.run \in Runs
      BY <1>3, <2>1, ManifestType DEF ReaderSound, Reading
    <3>2. grants[y.found.run] \in Grants
      BY <2>3, <3>1 DEF Granted, TypeOK
    <3>3. grants[y.found.run].expires \in Times
      BY <3>2 DEF Grants
    <3>4. Min({access.expires, grants[y.found.run].expires}) \in Times
      BY <1>2, <2>3, <3>3, MinOfTwo, TimesType
    <3> QED
      BY <1>1, <1>3, <2>1, <2>3, <3>4, AuthorizedMoves
  <2> QED
    BY <1>3, <1>5, <2>2, <2>3 DEF AuthorizeEnd
<1> QED
  BY <1>4, <1>5

\* What is read is the manifest of the run asked for; in the SQLite store that run must be
\* the job's, running or with that result.
LEMMA ReadMoves ==
    ASSUME TypeOK, Inv, NEW r \in Readers, Read(r)
    PROVE  TypeOK' /\ Inv'
<1>1. PICK y \in Reading : y = reader[r] /\ ReaderSound(y)
  BY RowTypes DEF Inv
<1>2. y.pc = "read" /\ y.round = 2 /\ y.run \in Runs /\ UNCHANGED <<clock, job, store, worker, delivered>>
  BY <1>1 DEF Read, On, ReaderSound
<1>3. CASE Refuse(r)
  BY <1>2, <1>3, RefuseMoves, GivenStays
<1>4. PICK man \in Candidates \cup {None} : man = manifests[y.run]
  BY <1>2 DEF TypeOK
<1>5. man # None => man.run = y.run
  BY <1>2, <1>4 DEF Inv, StoreSound
<1>6. ASSUME man # None, y.job0.result # None, y.job0.result.run = man.run
      PROVE  man = y.job0.result
  <2>1. job.result = y.job0.result
    BY <1>1, <1>2, <1>6 DEF ReaderSound
  <2> QED
    BY <1>4, <1>5, <1>6, <2>1 DEF Inv, StoreSound, ResultIsPublished
<1>7. ASSUME NEW x \in Reading, Turn(r, x), man # None, x.pc \in {"authorize", "confirm"},
             x.man = man, x.round = y.round, x.run = y.run, x.data = y.data,
             x.epoch0 = y.epoch0, x.job0 = y.job0, ~y.job0.dead
      PROVE  TypeOK' /\ Inv'
  <2>1. ReaderSound(x)
    BY <1>1, <1>2, <1>5, <1>6, <1>7 DEF ReaderSound
  <2> QED
    BY <1>2, <1>7, <2>1, GivenStays, ReaderMoves
<1>8. CASE man # None /\ Backend = "dynamo"
           /\ Turn(r, [y EXCEPT !.pc = "authorize", !.man = man])
  <2>1. PICK x : x = [y EXCEPT !.pc = "authorize", !.man = man]
    OBVIOUS
  <2>2. x \in Reading
    BY <1>1, <2>1 DEF Reading
  <2>3. /\ x.pc = "authorize" /\ x.man = man /\ x.round = y.round /\ x.run = y.run
        /\ x.data = y.data /\ x.epoch0 = y.epoch0 /\ x.job0 = y.job0
    BY <1>1, <2>1 DEF Reading
  <2>4. ~y.job0.dead
    BY <1>1, <1>2, <1>8 DEF ReaderSound
  <2> QED
    BY <1>7, <1>8, <2>1, <2>2, <2>3, <2>4
<1>9. CASE man # None /\ Pinned(man) /\ Readable(man)
           /\ Turn(r, [y EXCEPT !.pc = "confirm", !.man = man, !.seen = epoch])
  <2>1. PICK x : x = [y EXCEPT !.pc = "confirm", !.man = man, !.seen = epoch]
    OBVIOUS
  <2>2. x \in Reading
    BY <1>1, <2>1 DEF Reading, TypeOK
  <2>3. /\ x.pc = "confirm" /\ x.man = man /\ x.round = y.round /\ x.run = y.run
        /\ x.data = y.data /\ x.epoch0 = y.epoch0 /\ x.job0 = y.job0
    BY <1>1, <2>1 DEF Reading
  <2>4. ~Lost(y.run)
    <3>1. job.run = y.run /\ job.run \in Nat
      BY <1>5, <1>9, RowTypes DEF Pinned
    <3> QED
      BY <1>9, <3>1 DEF Readable, Lost
  <2>5. ~y.job0.dead
    BY <1>1, <1>2, <2>4 DEF ReaderSound
  <2> QED
    BY <1>7, <1>9, <2>1, <2>2, <2>3, <2>5
<1> QED
  BY <1>1, <1>3, <1>4, <1>8, <1>9, PublicationAssumption DEF Read

\* The second look lets the reader go on with what the first one saw, or refuses.
LEMMA ReadEndMoves ==
    ASSUME TypeOK, Inv, NEW r \in Readers, ReadEnd(r)
    PROVE  TypeOK' /\ Inv'
<1>1. PICK y \in Reading : y = reader[r] /\ ReaderSound(y)
  BY RowTypes DEF Inv
<1>2. y.pc = "confirm" /\ UNCHANGED <<clock, job, store, worker, delivered>>
  BY <1>1 DEF ReadEnd, On
<1>3. CASE Refuse(r)
  BY <1>2, <1>3, RefuseMoves, GivenStays
<1>4. CASE Turn(r, [y EXCEPT !.pc = "authorize"])
  <2>1. PICK x : x = [y EXCEPT !.pc = "authorize"]
    OBVIOUS
  <2>2. x \in Reading
    BY <1>1, <2>1 DEF Reading
  <2>3. /\ x.pc = "authorize" /\ x.man = y.man /\ x.round = y.round /\ x.run = y.run
        /\ x.data = y.data /\ x.epoch0 = y.epoch0 /\ x.job0 = y.job0
    BY <1>1, <2>1 DEF Reading
  <2>4. ReaderSound(x)
    BY <1>1, <1>2, <2>3 DEF ReaderSound
  <2> QED
    BY <1>2, <1>4, <2>1, <2>2, <2>4, GivenStays, ReaderMoves
<1> QED
  BY <1>1, <1>3, <1>4 DEF ReadEnd

LEMMA BytesMoves ==
    ASSUME TypeOK, Inv, NEW r \in Readers, ReadBytes(r)
    PROVE  TypeOK' /\ Inv'
<1>1. PICK y \in Reading : y = reader[r] /\ ReaderSound(y)
  BY RowTypes DEF Inv
<1>2. y.pc = "bytes" /\ y.round = 3 /\ UNCHANGED <<clock, job, store, worker, delivered>>
  BY <1>1 DEF ReadBytes, On, ReaderSound
<1>3. y.man \in Candidates
  <2>1. y.man # None
    BY <1>1, <1>2 DEF ReaderSound
  <2> QED
    BY <1>1, <2>1 DEF Reading
<1>4. CASE Refuse(r)
  BY <1>2, <1>4, RefuseMoves, GivenStays
<1>5. PICK data \in Contents \cup {None} : data = objects[<<y.man.run, y.man.token>>]
  BY <1>3, ManifestType DEF TypeOK
<1>6. CASE data = y.man.content /\ Turn(r, [y EXCEPT !.pc = "authorize", !.data = data])
  <2>1. PICK x : x = [y EXCEPT !.pc = "authorize", !.data = data]
    OBVIOUS
  <2>2. x \in Reading
    BY <1>1, <2>1 DEF Reading
  <2>3. /\ x.pc = "authorize" /\ x.man = y.man /\ x.round = y.round /\ x.run = y.run
        /\ x.data = data /\ x.epoch0 = y.epoch0 /\ x.job0 = y.job0
    BY <1>1, <2>1 DEF Reading
  <2>4. ReaderSound(x)
    BY <1>1, <1>2, <1>6, <2>3 DEF ReaderSound
  <2> QED
    BY <1>2, <1>6, <2>1, <2>2, <2>4, GivenStays, ReaderMoves
<1> QED
  BY <1>1, <1>4, <1>5, <1>6 DEF ReadBytes

\* A link that is signed ends within the authorization.
LEMMA LifetimeType ==
    ASSUME TypeOK, NEW r \in Readers, Lifetime(r) >= 1
    PROVE  clock + Lifetime(r) \in Times /\ clock + Lifetime(r) <= reader[r].deadline
<1>1. /\ reader[r].deadline \in Nat /\ clock \in Nat /\ UrlTTL \in Nat
      /\ \A n \in 0..UrlTTL : clock + n \in Times
  BY RowTypes, TimesType, PublicationAssumption DEF Reading
<1>2. reader[r].deadline > clock
  BY <1>1 DEF Lifetime
<1>3. PICK left \in Nat : left = reader[r].deadline - clock
  BY <1>1, <1>2
<1>4. Lifetime(r) = Min({UrlTTL, left})
  BY <1>1, <1>2, <1>3 DEF Lifetime
<1>5. Lifetime(r) \in Nat /\ Lifetime(r) <= UrlTTL /\ Lifetime(r) <= left
  BY <1>1, <1>3, <1>4, MinOfTwo
<1> QED
  BY <1>1, <1>3, <1>5

LEMMA DeliverMoves ==
    ASSUME TypeOK, Inv, NEW r \in Readers, Deliver(r)
    PROVE  TypeOK' /\ Inv'
<1>1. PICK y \in Reading : y = reader[r] /\ ReaderSound(y)
  BY RowTypes DEF Inv
<1>2. y.pc = "deliver" /\ y.round = 4 /\ Refuse(r) /\ UNCHANGED <<clock, job, store, worker>>
  BY <1>1 DEF Deliver, On, ReaderSound
<1>3. CASE UNCHANGED delivered
  BY <1>2, <1>3, RefuseMoves, GivenStays
<1>4. ASSUME NEW until, until = IF y.kind = "file" THEN 0 ELSE clock + Lifetime(r),
             ~(y.kind = "url" /\ Lifetime(r) < 1),
             delivered' = [man |-> y.man, data |-> y.data, epoch0 |-> y.epoch0, until |-> until,
                           allowed |-> y.deadline, job0 |-> y.job0]
      PROVE  TypeOK' /\ Inv'
  <2>1. /\ y.man # None /\ y.man \in Candidates /\ y.data = y.man.content
        /\ y.epoch0 = 0 /\ y.deadline \in Times /\ y.deadline \in Nat
    <3>1. y.man # None /\ y.data = y.man.content /\ y.epoch0 = 0
      BY <1>1, <1>2 DEF ReaderSound
    <3> QED
      BY <1>1, <3>1, TimesType DEF Reading
  <2>2. until \in Times /\ until <= y.deadline
    <3>1. CASE y.kind = "file"
      BY <1>4, <2>1, <3>1, PublicationAssumption DEF Times
    <3>2. CASE y.kind # "file"
      <4>1. y.kind = "url"
        BY <1>1, <3>2 DEF Reading
      <4>2. Lifetime(r) \in Int
        <5>1. reader[r].deadline \in Nat /\ clock \in Nat /\ UrlTTL \in Nat
          BY <1>1, <2>1, TimesType, PublicationAssumption
        <5>2. CASE reader[r].deadline <= clock
          BY <5>2 DEF Lifetime
        <5>3. CASE ~(reader[r].deadline <= clock)
          <6>1. reader[r].deadline - clock \in Nat
            BY <5>1, <5>3
          <6> QED
            BY <5>1, <5>3, <6>1, MinOfTwo DEF Lifetime
        <5> QED
          BY <5>2, <5>3
      <4>3. Lifetime(r) >= 1
        BY <1>4, <4>1, <4>2
      <4> QED
        BY <1>1, <1>4, <3>2, <4>3, LifetimeType
    <3> QED
      BY <3>1, <3>2
  <2>3. y.job0 \in [dead : BOOLEAN, result : Candidates \cup {None}] /\ y.epoch0 \in 0..MaxRevoke
    BY <1>1 DEF Reading
  <2>4. delivered' \in Deliveries
    BY <1>4, <2>1, <2>2, <2>3, ManifestType DEF Deliveries
  <2>5. Given'
    <3>1. RevokedIsUnreadable' /\ LinksEndWithTheGrant'
      BY <1>4, <2>1, <2>2 DEF RevokedIsUnreadable, LinksEndWithTheGrant
    <3>2. ReadersGetTheResult' /\ LostRunsAreUnreadable'
      BY <1>1, <1>4, <2>1 DEF ReaderSound, ReadersGetTheResult, LostRunsAreUnreadable
    <3> QED
      BY <3>1, <3>2 DEF Given
  <2> QED
    BY <1>2, <2>4, <2>5, RefuseMoves
<1>5. PICK until : until = IF y.kind = "file" THEN 0 ELSE clock + Lifetime(r)
  OBVIOUS
<1>6. \/ UNCHANGED delivered
      \/ /\ ~(y.kind = "url" /\ Lifetime(r) < 1)
         /\ delivered' = [man |-> y.man, data |-> y.data, epoch0 |-> y.epoch0, until |-> until,
                          allowed |-> y.deadline, job0 |-> y.job0]
  BY <1>1, <1>5 DEF Deliver
<1> QED
  BY <1>3, <1>4, <1>5, <1>6

LEMMA ReadingMoves ==
    ASSUME TypeOK, Inv, NEW r \in Readers, ReadStep(r)
    PROVE  TypeOK' /\ Inv'
BY StartMoves, AuthorizeMoves, ReadMoves, ReadEndMoves, BytesMoves, DeliverMoves DEF ReadStep

-----------------------------------------------------------------------------
(***************************************************************************)
(* The job, the clock and revocations                                      *)
(***************************************************************************)

\* A step of the job store, of which a worker may hear.
LEMMA JobMoves ==
    ASSUME TypeOK, Inv, job' \in JobRow, JobKept, UNCHANGED <<clock, store, reader, delivered>>,
           worker' \in [Workers -> Attempt], StoreSound',
           \A w \in Workers :
              \/ AttemptSound(w, worker[w])'
              \/ /\ worker'[w] = worker[w]
                 /\ worker[w].pc # "idle" /\ Holding(w, worker[w])' => Holding(w, worker[w])
    PROVE  TypeOK' /\ Inv'
<1>1. TypeOK'
  BY DEF TypeOK, store
<1>2. \A r \in Readers : ReaderSound(reader[r])'
  <2>1. epoch' \in Nat /\ epoch <= epoch'
    BY PublicationAssumption DEF TypeOK, store
  <2> QED
    BY <2>1, ReadersStay
<1>3. ASSUME NEW w \in Workers PROVE AttemptSound(w, worker[w])'
  <2>1. AttemptSound(w, worker[w])
    BY DEF Inv
  <2>2. ObjectsKept /\ manifests' = manifests
    BY DEF ObjectsKept, store
  <2> QED
    BY <2>1, <2>2, AttemptStays, PublicationAssumption DEF JobKept
<1>4. Given'
  BY GivenStays
<1> QED
  BY <1>1, <1>2, <1>3, <1>4 DEF Inv

LEMMA IdleSound ==
    ASSUME NEW w \in Workers
    PROVE  NoAttempt \in Attempt /\ AttemptSound(w, NoAttempt) /\ AttemptSound(w, NoAttempt)'
<1>1. NoAttempt \in Attempt
  BY PublicationAssumption DEF NoAttempt, Attempt, Times
<1> QED
  BY <1>1 DEF NoAttempt, AttemptSound, Busy, Published

\* A job that has not ended has no result, and loses only runs it has gone past.
LEMMA UnfinishedKept ==
    ASSUME TypeOK, Inv, job.status \in {"queued", "running", "waiting"}, job' \in JobRow,
           job.run <= job'.run, job'.run = job.run => job.token <= job'.token
    PROVE  JobKept /\ job.result = None
<1>1. job.result = None
  BY DEF Inv, StoreSound
<1>2. ASSUME NEW run \in Runs, Lost(run) PROVE Lost(run)'
  <2>1. job.run > run
    BY <1>2 DEF Lost
  <2>2. job'.run > run
    BY <2>1, RowTypes, PublicationAssumption DEF JobRow, Runs
  <2> QED
    BY <2>2 DEF Lost
<1> QED
  BY <1>1, <1>2 DEF JobKept

\* While no result is written, the store needs no more than before.
LEMMA NoResultSound ==
    ASSUME Inv, UNCHANGED store, job'.result = None
    PROVE  StoreSound'
<1>1. UNCHANGED <<objects, access, epoch, manifests>>
  BY DEF store
<1> QED
  BY <1>1 DEF Inv, StoreSound, ResultIsPublished

LEMMA BeginMoves ==
    ASSUME TypeOK, Inv, NEW w \in Workers, Begin(w)
    PROVE  TypeOK' /\ Inv'
<1>1. job \in JobRow /\ job.status = "queued" /\ job.token < MaxToken
      /\ job.run \in Runs /\ job.token \in Nat /\ job.run \in Nat
  BY RowTypes DEF Begin, JobRow
<1>2. job' = [job EXCEPT !.status = "running", !.token = job.token + 1, !.owner = w,
                         !.lease = clock + LeaseTTL]
  BY DEF Begin
<1>3. job.token + 1 \in 1..MaxToken
  BY <1>1, PublicationAssumption
<1>4. job' \in JobRow
  <2>1. job.token + 1 \in 0..MaxToken /\ clock + LeaseTTL \in Times
    BY <1>1, <1>3, TimesType DEF TypeOK
  <2>2. PICK t \in 0..MaxToken, l \in Times :
           job' = [job EXCEPT !.status = "running", !.token = t, !.owner = w, !.lease = l]
    BY <1>2, <2>1
  <2> QED
    BY <1>1, <2>2 DEF JobRow
<1>5. /\ job'.run = job.run /\ job'.token = job.token + 1 /\ job'.owner = w
      /\ job'.result = job.result
  BY <1>1, <1>2 DEF JobRow
<1>6. JobKept /\ job'.result = None
  BY <1>1, <1>4, <1>5, UnfinishedKept
<1>7. PICK x : x = [NoAttempt EXCEPT !.pc = "write", !.run = job.run, !.token = job.token + 1]
  OBVIOUS
<1>8. x \in Attempt
  <2>1. job.token + 1 \in 0..MaxToken /\ job.run \in Runs \cup {0} /\ NoAttempt \in Attempt
    BY <1>1, <1>3, IdleSound
  <2>2. PICK t \in 0..MaxToken, n \in Runs \cup {0} :
           x = [NoAttempt EXCEPT !.pc = "write", !.run = n, !.token = t]
    BY <1>7, <2>1
  <2> QED
    BY <2>1, <2>2 DEF Attempt
<1>9. x.pc = "write" /\ x.run = job.run /\ x.token = job.token + 1 /\ x.evidence = None
  BY <1>7, <1>8 DEF NoAttempt, Attempt
<1>10. AttemptSound(w, x)'
  BY <1>1, <1>3, <1>5, <1>9 DEF AttemptSound, Busy, Published
<1>11. worker' = [worker EXCEPT ![w] = x] /\ UNCHANGED <<clock, store, reader, delivered>>
  BY <1>7 DEF Begin
<1>12. worker' \in [Workers -> Attempt] /\ worker'[w] = x
       /\ \A v \in Workers \ {w} : worker'[v] = worker[v]
  BY <1>8, <1>11 DEF TypeOK
<1>13. AttemptSound(w, worker[w])'
  BY <1>10, <1>12 DEF AttemptSound, Published, Holding
<1>14. \A v \in Workers \ {w} : ~Holding(v, worker[v])'
  BY <1>5 DEF Holding
<1> QED
  BY <1>4, <1>6, <1>11, <1>12, <1>13, <1>14, NoResultSound, JobMoves

LEMMA UnheardJobMoves ==
    ASSUME TypeOK, Inv, Reclaim \/ Cancel \/ NewRun \/ \E w \in Workers : Heartbeat(w)
    PROVE  TypeOK' /\ Inv'
<1>1. job \in JobRow /\ job.run \in Nat /\ job.token \in Nat
  BY RowTypes
<1>2. UNCHANGED <<clock, store, worker, reader, delivered>> /\ worker' \in [Workers -> Attempt]
  BY DEF Reclaim, Cancel, NewRun, Heartbeat, TypeOK
<1>3. job.status \in {"queued", "running", "waiting"}
  BY DEF Reclaim, Cancel, NewRun, Heartbeat
<1>4. /\ job' \in JobRow
      /\ \/ job'.run = job.run /\ job'.token = job.token
         \/ job'.run = job.run + 1
      /\ job'.result = job.result
      /\ job'.status = "running" =>
            job.status = "running" /\ job'.run = job.run /\ job'.owner = job.owner
  <2>1. CASE Reclaim
    <3>1. PICK s \in {"cancelled", "failed", "queued"} :
             job' = [job EXCEPT !.status = s, !.owner = None]
      BY <2>1 DEF Reclaim
    <3> QED
      BY <1>1, <3>1 DEF JobRow
  <2>2. CASE Cancel
    <3>1. PICK s : s = IF job.status = "running" THEN job.status ELSE "cancelled"
      OBVIOUS
    <3>2. job' = [job EXCEPT !.cancel = TRUE, !.status = s]
      BY <2>2, <3>1 DEF Cancel
    <3> QED
      BY <1>1, <3>1, <3>2 DEF JobRow
  <2>3. CASE NewRun
    <3>1. job' = [job EXCEPT !.status = "queued", !.run = job.run + 1, !.token = 0]
          /\ job.run < MaxRun /\ job.run \in Runs
      BY <1>1, <2>3 DEF NewRun, JobRow
    <3>2. job.run + 1 \in Runs /\ 0 \in 0..MaxToken
      BY <1>1, <3>1, PublicationAssumption DEF Runs
    <3> QED
      BY <1>1, <3>1, <3>2 DEF JobRow
  <2>4. ASSUME NEW w \in Workers, Heartbeat(w)
        PROVE  /\ job' \in JobRow
               /\ job'.run = job.run /\ job'.token = job.token
               /\ job'.result = job.result /\ job'.status = job.status
               /\ job'.owner = job.owner
    <3>1. job' = [job EXCEPT !.lease = clock + LeaseTTL]
      BY <2>4 DEF Heartbeat
    <3> QED
      BY <1>1, <3>1, TimesType DEF JobRow
  <2> QED
    BY <2>1, <2>2, <2>3, <2>4
<1>5. job.run <= job'.run /\ (job'.run = job.run => job.token <= job'.token)
  BY <1>1, <1>4
<1>6. JobKept /\ job'.result = None
  BY <1>3, <1>4, <1>5, UnfinishedKept
<1>7. ASSUME NEW w \in Workers, Holding(w, worker[w])' PROVE Holding(w, worker[w])
  <2>1. job'.status = "running"
    BY <1>7 DEF Holding
  <2>2. job'.run = job.run /\ job'.token = job.token /\ job'.owner = job.owner
        /\ job.status = "running" /\ worker'[w] = worker[w]
    BY <1>1, <1>2, <1>4, <2>1
  <2> QED
    BY <1>7, <2>2 DEF Holding
<1> QED
  BY <1>2, <1>4, <1>6, <1>7, NoResultSound, JobMoves

LEMMA AskMoves ==
    ASSUME TypeOK, Inv, NEW w \in Workers, AskHuman(w)
    PROVE  TypeOK' /\ Inv'
<1>1. job \in JobRow /\ job.status = "running" /\ job.run \in Nat /\ job.token \in Nat
  BY RowTypes DEF AskHuman
<1>2. job' = [job EXCEPT !.status = "waiting", !.owner = None]
      /\ worker' = [worker EXCEPT ![w] = NoAttempt] /\ UNCHANGED <<clock, store, reader, delivered>>
  BY DEF AskHuman
<1>3. /\ job' \in JobRow /\ job'.status = "waiting" /\ job'.run = job.run
      /\ job'.token = job.token /\ job'.result = job.result
  BY <1>1, <1>2 DEF JobRow
<1>4. JobKept /\ job'.result = None
  BY <1>1, <1>3, UnfinishedKept
<1>5. worker' \in [Workers -> Attempt] /\ worker'[w] = NoAttempt
      /\ \A v \in Workers \ {w} : worker'[v] = worker[v]
  BY <1>2, IdleSound DEF TypeOK
<1>6. AttemptSound(w, worker[w])'
  BY <1>5, IdleSound DEF AttemptSound, Published, Holding
<1>7. \A v \in Workers : ~Holding(v, worker[v])'
  BY <1>3 DEF Holding
<1> QED
  BY <1>2, <1>3, <1>4, <1>5, <1>6, <1>7, NoResultSound, JobMoves

\* The result names what its attempt published, which is still there.
LEMMA SettleMoves ==
    ASSUME TypeOK, Inv, NEW w \in Workers, Settle(w)
    PROVE  TypeOK' /\ Inv'
<1>1. job \in JobRow /\ job.run \in Nat /\ job.token \in Nat
      /\ worker[w] \in Attempt /\ AttemptSound(w, worker[w]) /\ worker[w].pc = "published"
  BY RowTypes DEF Settle, Inv
<1>2. worker' = [worker EXCEPT ![w] = NoAttempt] /\ UNCHANGED <<clock, store, reader, delivered>>
  BY DEF Settle
<1>3. worker' \in [Workers -> Attempt] /\ worker'[w] = NoAttempt
      /\ \A v \in Workers \ {w} : worker'[v] = worker[v]
  BY <1>2, IdleSound DEF TypeOK
<1>4. AttemptSound(w, worker[w])'
  BY <1>3, IdleSound DEF AttemptSound, Published, Holding
<1>5. CASE job' = job
  <2>1. StoreSound'
    BY <1>2, <1>5 DEF Inv, StoreSound, ResultIsPublished, store
  <2>2. \A v \in Workers \ {w} : Holding(v, worker[v])' => Holding(v, worker[v])
    BY <1>3, <1>5 DEF Holding
  <2> QED
    BY <1>2, <1>3, <1>4, <1>5, <2>1, <2>2, JobStands, JobMoves
<1>6. ASSUME NEW res, job.status = "running", Live(w),
             res = IF worker[w].evidence = None THEN None
                   ELSE [run |-> job.run, token |-> job.token, content |-> worker[w].evidence],
             job' = [job EXCEPT !.status = "succeeded", !.owner = None, !.result = res]
      PROVE  TypeOK' /\ Inv'
  <2>1. res # None =>
           /\ res \in Candidates
           /\ res = [run |-> worker[w].run, token |-> worker[w].token,
                     content |-> worker[w].evidence]
           /\ Published(worker[w]) /\ Holding(w, worker[w])
    <3> SUFFICES ASSUME res # None
                 PROVE  /\ res \in Candidates
                        /\ res = [run |-> worker[w].run, token |-> worker[w].token,
                                  content |-> worker[w].evidence]
                        /\ Published(worker[w]) /\ Holding(w, worker[w])
      OBVIOUS
    <3>1. worker[w].evidence \in Contents /\ job.run = worker[w].run /\ job.token = worker[w].token
      BY <1>1, <1>6 DEF Attempt, Live
    <3>2. worker[w].run \in Runs /\ worker[w].token \in 1..MaxToken
      BY <1>1 DEF AttemptSound
    <3> QED
      BY <1>1, <1>6, <3>1, <3>2, PublicationAssumption DEF Candidates, Published, Holding, Live
  <2>2. /\ job' \in JobRow /\ job'.status = "succeeded" /\ job'.run = job.run
        /\ job'.token = job.token /\ job'.result = res
    BY <1>1, <1>6, <2>1 DEF JobRow
  <2>3. JobKept
    BY <1>1, <1>6, <2>2, UnfinishedKept
  <2>4. StoreSound'
    <3>1. res # None => /\ manifests[res.run] = res
                        /\ objects[<<res.run, res.token>>] = res.content
      BY <1>1, <2>1 DEF AttemptSound
    <3>2. UNCHANGED <<objects, access, epoch, manifests>>
      BY <1>2 DEF store
    <3> QED
      BY <2>2, <3>1, <3>2 DEF Inv, StoreSound, ResultIsPublished
  <2>5. \A v \in Workers : ~Holding(v, worker[v])'
    BY <2>2 DEF Holding
  <2> QED
    BY <1>2, <1>3, <1>4, <2>2, <2>3, <2>4, <2>5, JobMoves
<1>7. PICK res : res = IF worker[w].evidence = None THEN None
                   ELSE [run |-> job.run, token |-> job.token, content |-> worker[w].evidence]
  OBVIOUS
<1>8. \/ job' = job
      \/ /\ job.status = "running" /\ Live(w)
         /\ job' = [job EXCEPT !.status = "succeeded", !.owner = None, !.result = res]
  BY <1>7 DEF Settle
<1> QED
  BY <1>5, <1>6, <1>7, <1>8

\* Time passes, or the case is revoked: with that its grants and accesses end.
LEMMA WorldMoves ==
    ASSUME TypeOK, Inv, Tick \/ Revoke
    PROVE  TypeOK' /\ Inv'
<1>1. UNCHANGED <<job, objects, manifests, worker, reader, delivered>>
  BY DEF Tick, Revoke, store
<1>2. JobKept /\ ObjectsKept
  BY <1>1, JobStands DEF ObjectsKept
<1>3. /\ clock' \in 0..MaxTime /\ epoch' \in 0..MaxRevoke /\ epoch <= epoch'
      /\ access' \in Rights \cup {None} /\ grants' \in [Runs -> Grants \cup {None}]
      /\ epoch' > 0 /\ access' # None => ~access'.active
  <2>1. CASE Tick
    <3>1. clock' = clock + 1 /\ clock < MaxTime /\ UNCHANGED <<access, grants, epoch>>
      BY <2>1 DEF Tick, store
    <3> QED
      BY <3>1, PublicationAssumption DEF TypeOK, Inv, StoreSound
  <2>2. CASE Revoke
    <3>1. clock' = clock /\ epoch' = epoch + 1 /\ epoch < MaxRevoke
      BY <2>2 DEF Revoke
    <3>2. access' \in Rights \cup {None} /\ (access' # None => ~access'.active)
      BY <2>2 DEF Revoke, TypeOK, Rights
    <3>3. grants' \in [Runs -> Grants \cup {None}]
      <4>1. grants' = [r \in Runs |-> IF grants[r] = None THEN None
                                      ELSE [grants[r] EXCEPT !.active = FALSE]]
        BY <2>2 DEF Revoke
      <4>2. ASSUME NEW g \in Grants PROVE [g EXCEPT !.active = FALSE] \in Grants
        BY <4>2 DEF Grants
      <4> QED
        BY <4>1, <4>2 DEF TypeOK
    <3> QED
      BY <3>1, <3>2, <3>3, PublicationAssumption DEF TypeOK
  <2> QED
    BY <2>1, <2>2
<1>4. TypeOK'
  BY <1>1, <1>3 DEF TypeOK
<1>5. StoreSound'
  BY <1>1, <1>3 DEF Inv, StoreSound, ResultIsPublished
<1>6. \A r \in Readers : ReaderSound(reader[r])'
  BY <1>1, <1>2, <1>3, ReadersStay, PublicationAssumption
<1>7. \A w \in Workers : AttemptSound(w, worker[w])'
  BY <1>1 DEF Inv, AttemptSound, Published, Holding
<1> QED
  BY <1>1, <1>4, <1>5, <1>6, <1>7, GivenStays DEF Inv

-----------------------------------------------------------------------------
(***************************************************************************)
(* The theorems                                                            *)
(***************************************************************************)

\* Every reachable state is well typed, what attempts and readers know is true, and whoever
\* was given the report was entitled to it.
THEOREM InvHolds == Spec => [](TypeOK /\ Inv)
<1>1. Init => TypeOK /\ Inv
  <2> SUFFICES ASSUME Init PROVE TypeOK /\ Inv
    OBVIOUS
  <2>1. TypeOK
    <3>1. job \in JobRow
      BY PublicationAssumption DEF Init, JobRow, Runs, Times
    <3>2. NoReading \in Reading /\ (\A w \in Workers : NoAttempt \in Attempt)
      BY PublicationAssumption, IdleSound DEF NoReading, Reading, Times
    <3>3. worker \in [Workers -> Attempt] /\ reader \in [Readers -> Reading]
      BY <3>2 DEF Init
    <3>4. clock \in 0..MaxTime /\ epoch \in 0..MaxRevoke
      BY PublicationAssumption DEF Init
    <3> QED
      BY <3>1, <3>3, <3>4 DEF Init, TypeOK
  <2>2. StoreSound
    BY DEF Init, StoreSound, ResultIsPublished
  <2>3. \A w \in Workers : AttemptSound(w, worker[w])
    BY IdleSound DEF Init
  <2>4. \A r \in Readers : ReaderSound(reader[r])
    BY DEF Init, NoReading, ReaderSound
  <2>5. Given
    BY DEF Init, Given, RevokedIsUnreadable, ReadersGetTheResult, LinksEndWithTheGrant,
           LostRunsAreUnreadable
  <2> QED
    BY <2>1, <2>2, <2>3, <2>4, <2>5 DEF Inv
<1>2. TypeOK /\ Inv /\ [Next]_vars => TypeOK' /\ Inv'
  <2> SUFFICES ASSUME TypeOK, Inv, [Next]_vars PROVE TypeOK' /\ Inv'
    OBVIOUS
  <2>1. CASE JobStep
    BY <2>1, BeginMoves, UnheardJobMoves, AskMoves, SettleMoves, WorldMoves, PublisherMoves
       DEF JobStep
  <2>2. ASSUME NEW w \in Workers, PublishStep(w) PROVE TypeOK' /\ Inv'
    BY <2>2, PublisherMoves
  <2>3. ASSUME NEW r \in Readers, ReadStep(r) PROVE TypeOK' /\ Inv'
    BY <2>3, ReadingMoves
  <2>4. CASE UNCHANGED vars
    <3>1. TypeOK'
      BY <2>4 DEF vars, TypeOK
    <3>2. Inv'
      BY <2>4 DEF vars, Inv, StoreSound, ResultIsPublished, AttemptSound, Published, Holding,
                  ReaderSound, Lost, Given, RevokedIsUnreadable, ReadersGetTheResult,
                  LinksEndWithTheGrant, LostRunsAreUnreadable
    <3> QED
      BY <3>1, <3>2
  <2> QED
    BY <2>1, <2>2, <2>3, <2>4 DEF Next
<1> QED
  BY <1>1, <1>2, PTL DEF Spec

\* ReadersAreEntitled for any number of readers, attempts and revocations and for both
\* stores: authorize, read, verified_bytes and download_url hand out the bytes of the
\* result, to nobody who began after a revocation and, in the SQLite store, to nobody who
\* began after the run was lost, and no link outlives its authorization.
THEOREM ReadersEntitled == Spec => []ReadersAreEntitled
<1>1. TypeOK /\ Inv => ReadersAreEntitled
  BY DEF Inv, StoreSound, Given, ReadersAreEntitled
<1> QED
  BY <1>1, InvHolds, PTL

\* PublicationIsAuthorized for any number of workers: commit, of either store, writes the
\* manifest of the attempt that holds the job, over that of an earlier one at most, and
\* none once revoke has run, whatever callbacks of the authorizer were under way.
THEOREM PublicationAuthorized == Spec => PublicationIsAuthorized
<1>1. TypeOK /\ Inv /\ [Next]_vars =>
         [\A r \in DOMAIN manifests : manifests'[r] # manifests[r] =>
            /\ manifests'[r].token = job.token /\ r = job.run /\ job.status = "running"
            /\ manifests[r] # None => manifests[r].token < manifests'[r].token]_vars
  <2> SUFFICES ASSUME TypeOK, Inv, Next, NEW r \in DOMAIN manifests, manifests'[r] # manifests[r]
               PROVE  /\ manifests'[r].token = job.token /\ r = job.run /\ job.status = "running"
                      /\ manifests[r] # None => manifests[r].token < manifests'[r].token
    OBVIOUS
  <2>1. PICK w \in Workers, ok \in BOOLEAN : Commit(w, ok) \/ CloudCommit(w, ok)
    BY DEF Next, JobStep, PublishStep, ReadStep, Begin, Heartbeat, Reclaim, Cancel, AskHuman, NewRun,
           Settle, Tick, Revoke, Die, WritePdf, Overwrite, ReviewOnly, Stage, ApproveBegin,
           PublishBegin, CloudGrant, Project, ApproveEnd, ReadStart, Authorize, AuthorizeEnd,
           Read, ReadEnd, ReadBytes, Deliver, store
  <2>2. Commits(w)
    BY <2>1, CommitGuard
  <2>3. worker[w].evidence \in Contents
    BY <2>2 DEF Inv, AttemptSound, Busy, Commits
  <2>4. /\ Candidate(w).run = worker[w].run /\ Candidate(w).token = worker[w].token
        /\ r \in Runs /\ manifests \in [Runs -> Candidates \cup {None}]
    BY DEF Candidate, TypeOK
  <2>5. r = Candidate(w).run /\ manifests'[r] = Candidate(w)
    BY <2>2, <2>4 DEF Commits
  <2> QED
    BY <2>2, <2>4, <2>5 DEF Commits, Pinned, Live, Admissible
<1>2. TypeOK /\ Inv /\ [Next]_vars => [epoch > 0 => manifests' = manifests]_vars
  <2> SUFFICES ASSUME TypeOK, Inv, Next, epoch > 0 PROVE manifests' = manifests
    OBVIOUS
  <2>1. ASSUME NEW w \in Workers, NEW ok \in BOOLEAN, Commit(w, ok) \/ CloudCommit(w, ok)
        PROVE  manifests' = manifests
    <3>1. Commits(w) \/ UNCHANGED manifests
      BY <2>1, CommitGuard
    <3> QED
      BY <3>1 DEF Commits
  <2> QED
    BY <2>1
    DEF Next, JobStep, PublishStep, ReadStep, Begin, Heartbeat, Reclaim, Cancel, AskHuman, NewRun,
           Settle, Tick, Revoke, Die, WritePdf, Overwrite, ReviewOnly, Stage, ApproveBegin,
           PublishBegin, CloudGrant, Project, ApproveEnd, ReadStart, Authorize, AuthorizeEnd,
           Read, ReadEnd, ReadBytes, Deliver, store
<1> QED
  BY <1>1, <1>2, InvHolds, PTL
     DEF Spec, PublicationIsAuthorized, CommitsAreFenced, NothingPublishedAfterRevoke

(***************************************************************************)
(* Documents on their way in                                               *)
(***************************************************************************)

ExportKey(e) == <<"exports", e>>
SnapshotKey(r) == <<"snapshots", r.id>>
Allocated == {e \in Exports : Exists(ExportKey(e))}

\* The identity of a reference was allocated for this attestation, of this very content.
AdmittedAs(ref, a) ==
  /\ files[ExportKey(a.export)] = <<[doc |-> ref.doc, ver |-> ref.ver, att |-> a]>>
  /\ ref.content = a.content

\* The storage version that a record names holds the content that was signed.
Backed(s) ==
  /\ s.version \in DOMAIN files[ContentKey(s.ref)]
  /\ files[ContentKey(s.ref)][s.version] = s.att.content

\* Allocations and snapshots are written once, and every allocation took a fresh number.
AllocationsSound ==
  /\ \A e \in Exports : Exists(ExportKey(e)) =>
       /\ Len(files[ExportKey(e)]) = 1 /\ files[ExportKey(e)][1].att.export = e
       /\ files[ExportKey(e)][1].ver <= Cardinality(Allocated)
  /\ \A e, f \in Allocated : files[ExportKey(e)][1].ver = files[ExportKey(f)][1].ver => e = f
SnapshotsSound ==
  \A r \in SourceRuns : Exists(SnapshotKey(r)) => Len(files[SnapshotKey(r)]) = 1

\* Every version of a record is of the identity it is kept under, and the first one, which
\* the service wrote, names a content that is there.
RecordOf(s, d, v) == s.ref.doc = d /\ s.ref.ver = v /\ AdmittedAs(s.ref, s.att)
DocumentSound(k, d, v) ==
  /\ \A i \in DOMAIN files[k] : RecordOf(files[k][i], d, v)
  /\ Exists(k) => Backed(files[k][1])
DocumentsSound == \A d, v \in Ids : DocumentSound(<<"documents", d, v>>, d, v)
FilesSound == AllocationsSound /\ SnapshotsSound /\ DocumentsSound

\* The call has not been refused.
Held(x) == x.pc # "audit" \/ x.code = "ok"

\* What an upload has established by the place it has reached.
UploadSound(x) ==
  /\ x.pc \in {"verify", "allocate", "content", "document", "audit"}
  /\ x.att \in Attestations /\ x.bytes \in Pdfs
  /\ x.att.follows # NoValue => Known(x.att.follows) # {}
  /\ x.pc # "verify" /\ Held(x) => x.by = x.att.by /\ x.bytes = x.att.content
  /\ x.pc \in {"content", "document", "audit"} /\ Held(x) => x.ref \in References /\ AdmittedAs(x.ref, x.att)
  /\ x.pc = "document" =>
       x.stored \in StoredDocuments /\ x.stored.ref = x.ref /\ x.stored.att = x.att /\ Backed(x.stored)
  /\ x.pc = "audit" /\ Held(x) => Exists(DocumentKey(x.ref))

SnapshotSound(x) ==
  /\ x.pc \in {"next", "lookup", "fetch", "publish", "audit"}
  /\ x.run \in SourceRuns /\ \A e \in x.run.docs : Known(e) # {}
  /\ x.pc = "audit" /\ Held(x) => files[SnapshotKey(x.run)] = <<[by |-> x.by, entries |-> x.entries]>>

\* A read is of a reference that was admitted, and for a run of the records it pinned.
ReadSound(x) ==
  /\ x.pc \in {"pin", "lookup", "fetch", "audit"}
  /\ x.ref \in References /\ \E a \in Attestations : AdmittedAs(x.ref, a)
  /\ x.op = "read_snapshot" => x.run \in SourceRuns
  /\ x.pc = "pin" => x.op = "read_snapshot"
  /\ x.op = "read_snapshot" /\ x.pc \in {"lookup", "fetch"} =>
       /\ Exists(SnapshotKey(x.run)) /\ x.entries # {}
       /\ x.entries \subseteq Latest(SnapshotKey(x.run)).entries
  /\ x.pc = "audit" /\ Held(x) => x.bytes = x.ref.content

CallSound(x) ==
  x.pc # "idle" =>
    /\ x.by \in Actors
    /\ x.pc \in {"lookup", "fetch"} => x.ref \in References
    /\ x.pc = "fetch" => x.stored \in StoredDocuments
    /\ \/ x.op = "ingest" /\ UploadSound(x)
       \/ x.op = "snapshot" /\ SnapshotSound(x)
       \/ x.op \in {"read", "read_snapshot"} /\ ReadSound(x)
CallsSound == \A c \in Callers : CallSound(call[c])

GiftSound(g) ==
  /\ g.op = "ingest" => AdmittedAs(g.value, g.of) /\ g.by = g.of.by /\ Exists(DocumentKey(g.value))
  /\ g.op = "snapshot" => files[SnapshotKey(g.of)] = <<[by |-> g.by, entries |-> g.value]>>
  /\ g.op \in {"read", "read_snapshot"} =>
       g.value = g.of.content /\ \E a \in Attestations : AdmittedAs(g.of, a)
  /\ [op |-> g.op, by |-> g.by] \in audit
GiftsSound == \A g \in given : GiftSound(g)

TransferInv == TransferTypeOK /\ FilesSound /\ CallsSound /\ GiftsSound

\* The objects are typed.
FilesTyped ==
  /\ DOMAIN files = FileKeys /\ files = [k \in FileKeys |-> files[k]]
  /\ \A k \in FileKeys : files[k] \in Seq(Kept(k))

\* What a step does to the objects: versions are added, and only to contents and records
\* that exist already.
FilesGrow ==
  \A k \in FileKeys :
    /\ \A i \in DOMAIN files[k] : i \in DOMAIN files'[k] /\ files'[k][i] = files[k][i]
    /\ Exists(k) => Exists(k)'
    /\ Exists(k) /\ k[1] \in {"exports", "snapshots"} => files'[k] = files[k]

\* The kinds of keys.
LEMMA KeysAre ==
  /\ \A e \in Exports : /\ ExportKey(e) \in FileKeys /\ Kept(ExportKey(e)) = Allocations
                        /\ ExportKey(e)[1] = "exports" /\ ExportKey(e)[2] = e
  /\ \A r \in SourceRuns : /\ SnapshotKey(r) \in FileKeys /\ Kept(SnapshotKey(r)) = Snapshots
                           /\ SnapshotKey(r)[1] = "snapshots"
  /\ \A d, v \in Ids : /\ <<"content", d, v>> \in FileKeys /\ Kept(<<"content", d, v>>) = Pdfs
                       /\ <<"content", d, v>>[1] = "content"
                       /\ <<"documents", d, v>> \in FileKeys /\ Kept(<<"documents", d, v>>) = StoredDocuments
                       /\ <<"documents", d, v>>[1] = "documents"
                       /\ <<"documents", d, v>>[2] = d /\ <<"documents", d, v>>[3] = v
<1>1. ASSUME NEW e \in Exports
      PROVE  /\ ExportKey(e) \in FileKeys /\ ExportKey(e)[1] = "exports" /\ ExportKey(e)[2] = e
  BY DEF ExportKey, FileKeys
<1>2. ASSUME NEW r \in SourceRuns
      PROVE  SnapshotKey(r) \in FileKeys /\ SnapshotKey(r)[1] = "snapshots"
  BY DEF SnapshotKey, FileKeys
<1>3. ASSUME NEW d \in Ids, NEW v \in Ids
      PROVE  /\ <<"content", d, v>> \in FileKeys /\ <<"content", d, v>>[1] = "content"
             /\ <<"documents", d, v>> \in FileKeys /\ <<"documents", d, v>>[1] = "documents"
             /\ <<"documents", d, v>>[2] = d /\ <<"documents", d, v>>[3] = v
  BY DEF FileKeys
<1>4. \A k : /\ k[1] = "exports" => Kept(k) = Allocations
             /\ k[1] = "snapshots" => Kept(k) = Snapshots
             /\ k[1] = "content" => Kept(k) = Pdfs
             /\ k[1] = "documents" => Kept(k) = StoredDocuments
  BY DEF Kept
<1> QED  BY <1>1, <1>2, <1>3, <1>4

LEMMA RecordKeys ==
  ASSUME NEW d \in Ids, NEW v \in Ids, NEW k, k = <<"documents", d, v>>
  PROVE  k \in FileKeys /\ Kept(k) = StoredDocuments /\ k[1] = "documents" /\ k[2] = d /\ k[3] = v
<1>1. k \in FileKeys
  BY DEF FileKeys
<1>2. <<"documents", d, v>>[1] = "documents" /\ <<"documents", d, v>>[2] = d /\ <<"documents", d, v>>[3] = v
  OBVIOUS
<1>3. Kept(k) = StoredDocuments
  BY <1>2 DEF Kept
<1> QED  BY <1>1, <1>2, <1>3

LEMMA ReferenceKeys ==
  ASSUME NEW ref \in References
  PROVE  /\ ref.doc \in Ids /\ ref.ver \in Ids /\ ref.content \in Pdfs
         /\ ContentKey(ref) = <<"content", ref.doc, ref.ver>>
         /\ ContentKey(ref) \in FileKeys /\ Kept(ContentKey(ref)) = Pdfs /\ ContentKey(ref)[1] = "content"
         /\ DocumentKey(ref) = <<"documents", ref.doc, ref.ver>>
         /\ DocumentKey(ref) \in FileKeys /\ Kept(DocumentKey(ref)) = StoredDocuments
         /\ DocumentKey(ref)[1] = "documents"
<1>1. ref.doc \in Ids /\ ref.ver \in Ids /\ ref.content \in Pdfs
  BY DEF References
<1>2. /\ ContentKey(ref) = <<"content", ref.doc, ref.ver>>
      /\ DocumentKey(ref) = <<"documents", ref.doc, ref.ver>>
  BY DEF ContentKey, DocumentKey
<1> QED  BY <1>1, <1>2, KeysAre

LEMMA SequenceOfOne ==
  ASSUME NEW S, NEW s \in Seq(S), Len(s) = 1
  PROVE  s = <<s[1]>> /\ s[1] \in S /\ s # << >>
<1>1. s \in [1..1 -> S] /\ s[1] \in S /\ s # << >>
  OBVIOUS
<1>2. s = [i \in 1..1 |-> s[i]]
  BY <1>1
<1>3. [i \in 1..1 |-> s[i]] = <<s[1]>>
  OBVIOUS
<1> QED  BY <1>1, <1>2, <1>3

\* The last of a sequence that is not empty.
LEMMA LastOf ==
  ASSUME NEW S, NEW s \in Seq(S), s # << >>
  PROVE  Len(s) \in Nat /\ Len(s) \in DOMAIN s /\ 1 \in DOMAIN s /\ s[1] \in S /\ s[Len(s)] \in S
OBVIOUS

LEMMA CreateIs ==
  ASSUME FilesTyped, NEW k \in FileKeys, NEW x \in Kept(k), Create(k, x)
  PROVE  /\ FilesTyped' /\ FilesGrow
         /\ \A j \in FileKeys : j # k => files'[j] = files[j]
         /\ Exists(k) => files' = files
         /\ ~Exists(k) => files'[k] = <<x>>
         /\ Exists(k)' /\ Found(k, x) = Latest(k)' /\ Found(k, x) \in Kept(k)
<1>1. CASE Exists(k)
  <2>1. files' = files
    BY <1>1 DEF Create
  <2>2. Exists(k)' /\ Latest(k)' = Latest(k) /\ Found(k, x) = Latest(k)
    BY <1>1, <2>1 DEF Exists, Latest, Found
  <2>3. Latest(k) \in Kept(k)
    BY <1>1, LastOf DEF Latest, Exists, FilesTyped
  <2> QED  BY <1>1, <2>1, <2>2, <2>3 DEF FilesTyped, FilesGrow, Exists
<1>2. CASE ~Exists(k)
  <2>1. files' = [files EXCEPT ![k] = <<x>>]
    BY <1>2 DEF Create
  <2>2. /\ files'[k] = <<x>> /\ \A j \in FileKeys : j # k => files'[j] = files[j]
        /\ DOMAIN files' = FileKeys /\ files' = [j \in FileKeys |-> files'[j]]
    BY <2>1 DEF FilesTyped
  <2>3. <<x>> \in Seq(Kept(k)) /\ <<x>> # << >> /\ Len(<<x>>) = 1 /\ <<x>>[1] = x
    OBVIOUS
  <2>4. FilesTyped'
    BY <2>2, <2>3 DEF FilesTyped
  <2>5. Exists(k)' /\ Latest(k)' = x /\ Found(k, x) = x
    BY <1>2, <2>2, <2>3 DEF Exists, Latest, Found
  <2>6. DOMAIN files[k] = {}
    BY <1>2 DEF Exists
  <2>7. FilesGrow
    BY <1>2, <2>2, <2>6 DEF FilesGrow, Exists
  <2> QED  BY <1>2, <2>2, <2>4, <2>5, <2>7
<1> QED  BY <1>1, <1>2

\* The attestations of a well-typed configuration.
LEMMA AttestationIs ==
  ASSUME NEW a \in Attestations
  PROVE  a.export \in Exports /\ a.content \in Pdfs /\ a.by \in Actors
         /\ a.follows \in Exports \cup {NoValue}
BY TransferAssumption DEF TransferAssumption, Exports

\* An admission stays, and so does the content a record names.
LEMMA AdmittedStays ==
  ASSUME FilesGrow, NEW ref, NEW a \in Attestations, AdmittedAs(ref, a)
  PROVE  AdmittedAs(ref, a)'
<1>1. ExportKey(a.export) \in FileKeys /\ ExportKey(a.export)[1] = "exports"
  BY AttestationIs, KeysAre
<1>2. Exists(ExportKey(a.export))
  BY DEF AdmittedAs, Exists
<1>3. files'[ExportKey(a.export)] = files[ExportKey(a.export)]
  BY <1>1, <1>2 DEF FilesGrow
<1> QED  BY <1>3 DEF AdmittedAs

LEMMA BackedStays ==
  ASSUME FilesGrow, NEW s \in StoredDocuments, Backed(s)
  PROVE  Backed(s)'
<1>1. s.ref \in References
  BY DEF StoredDocuments
<1>2. ContentKey(s.ref) \in FileKeys
  BY <1>1, ReferenceKeys
<1> QED  BY <1>2 DEF Backed, FilesGrow, ContentKey

LEMMA KnownStays ==
  ASSUME given \subseteq given', NEW e, Known(e) # {}
  PROVE  Known(e)' # {}
BY DEF Known

\* What a client knows was handed out by an upload that was admitted.
LEMMA KnownIs ==
  ASSUME TransferTypeOK, GiftsSound, NEW e, NEW ref \in Known(e)
  PROVE  /\ ref \in References
         /\ \E a \in Attestations : a.export = e /\ AdmittedAs(ref, a)
<1>1. PICK g \in given : g.op = "ingest" /\ g.of.export = e /\ g.value = ref
  BY DEF Known
<1>2. g \in Gifts
  BY DEF TransferTypeOK
<1>3. g.of \in Attestations /\ g.value \in References
  BY <1>1, <1>2 DEF Gifts
<1>4. AdmittedAs(g.value, g.of)
  BY <1>1 DEF GiftsSound, GiftSound
<1> QED  BY <1>1, <1>3, <1>4

LEMMA RefOfIs ==
  ASSUME NEW e, Known(e) # {}
  PROVE  RefOf(e) \in Known(e)
BY DEF RefOf

\* What a call has established stays while others store and are answered.
LEMMA CallStays ==
  ASSUME FilesGrow, given \subseteq given', NEW x \in Calls, CallSound(x)
  PROVE  CallSound(x)'
<1>1. CASE x.pc = "idle"
  BY <1>1 DEF CallSound
<1>2. CASE x.pc # "idle" /\ x.op = "ingest" /\ UploadSound(x)
  <2>1. x.att \in Attestations /\ (x.att.follows # NoValue => Known(x.att.follows)' # {})
    BY <1>2, KnownStays DEF UploadSound
  <2>2. AdmittedAs(x.ref, x.att) => AdmittedAs(x.ref, x.att)'
    BY <2>1, AdmittedStays
  <2>3. x.stored \in StoredDocuments /\ Backed(x.stored) => Backed(x.stored)'
    BY BackedStays
  <2>4. x.ref \in References /\ Exists(DocumentKey(x.ref)) => Exists(DocumentKey(x.ref))'
    <3>1. x.ref \in References => DocumentKey(x.ref) \in FileKeys /\ DocumentKey(x.ref)' = DocumentKey(x.ref)
      BY ReferenceKeys DEF DocumentKey
    <3> QED  BY <3>1 DEF FilesGrow, Exists
  <2>5. UploadSound(x)'
    BY <1>2, <2>1, <2>2, <2>3, <2>4 DEF UploadSound, Held
  <2> QED  BY <1>2, <2>5 DEF CallSound
<1>3. CASE x.pc # "idle" /\ x.op = "snapshot" /\ SnapshotSound(x)
  <2>1. SnapshotKey(x.run) \in FileKeys /\ SnapshotKey(x.run)[1] = "snapshots"
    BY <1>3, KeysAre DEF SnapshotSound
  <2>2. Exists(SnapshotKey(x.run)) => files'[SnapshotKey(x.run)] = files[SnapshotKey(x.run)]
    BY <2>1 DEF FilesGrow
  <2>3. \A e \in x.run.docs : Known(e)' # {}
    BY <1>3, KnownStays DEF SnapshotSound
  <2>4. SnapshotSound(x)'
    BY <1>3, <2>2, <2>3 DEF SnapshotSound, Held, Exists
  <2> QED  BY <1>3, <2>4 DEF CallSound
<1>4. CASE x.pc # "idle" /\ x.op \in {"read", "read_snapshot"} /\ ReadSound(x)
  <2>1. \E a \in Attestations : AdmittedAs(x.ref, a)'
    BY <1>4, AdmittedStays DEF ReadSound
  <2>2. ASSUME x.run \in SourceRuns, Exists(SnapshotKey(x.run))
        PROVE  Exists(SnapshotKey(x.run))' /\ Latest(SnapshotKey(x.run))' = Latest(SnapshotKey(x.run))
    <3>1. SnapshotKey(x.run) \in FileKeys /\ SnapshotKey(x.run)[1] = "snapshots"
      BY <2>2, KeysAre
    <3>2. files'[SnapshotKey(x.run)] = files[SnapshotKey(x.run)]
      BY <2>2, <3>1 DEF FilesGrow
    <3> QED  BY <2>2, <3>2 DEF Exists, Latest, SnapshotKey
  <2>3. ReadSound(x)'
    BY <1>4, <2>1, <2>2 DEF ReadSound, Held
  <2> QED  BY <1>4, <2>3 DEF CallSound
<1> QED  BY <1>1, <1>2, <1>3, <1>4 DEF CallSound

LEMMA GiftStays ==
  ASSUME FilesGrow, audit \subseteq audit', NEW g \in Gifts, GiftSound(g)
  PROVE  GiftSound(g)'
<1>1. CASE g.op = "ingest"
  <2>1. g.of \in Attestations /\ g.value \in References
    BY <1>1 DEF Gifts
  <2>2. AdmittedAs(g.value, g.of)'
    BY <1>1, <2>1, AdmittedStays DEF GiftSound
  <2>3. Exists(DocumentKey(g.value))'
    BY <1>1, <2>1, ReferenceKeys DEF GiftSound, FilesGrow, DocumentKey, Exists
  <2> QED  BY <1>1, <2>2, <2>3 DEF GiftSound
<1>2. CASE g.op = "snapshot"
  <2>1. g.of \in SourceRuns
    BY <1>2 DEF Gifts
  <2>2. SnapshotKey(g.of) \in FileKeys /\ SnapshotKey(g.of)[1] = "snapshots"
    BY <2>1, KeysAre
  <2>3. files[SnapshotKey(g.of)] = <<[by |-> g.by, entries |-> g.value]>>
    BY <1>2 DEF GiftSound
  <2>4. Exists(SnapshotKey(g.of))
    BY <2>3 DEF Exists
  <2>5. files'[SnapshotKey(g.of)] = files[SnapshotKey(g.of)]
    BY <2>2, <2>4 DEF FilesGrow
  <2> QED  BY <1>2, <2>3, <2>5 DEF GiftSound
<1>3. CASE g.op \in {"read", "read_snapshot"}
  BY <1>3, AdmittedStays DEF GiftSound
<1>4. g.op \in {"ingest", "snapshot", "read", "read_snapshot"}
  BY DEF Gifts
<1> QED  BY <1>1, <1>2, <1>3, <1>4

\* A step of one call that adds to the objects, and perhaps answers.
LEMMA CallMoves ==
  ASSUME TransferInv, NEW c \in Callers, NEW y \in Calls, Call(c, y),
         FilesTyped', FilesGrow, FilesSound', CallSound(y)',
         given \subseteq given', \A g \in given' \ given : g \in Gifts /\ GiftSound(g)',
         audit \subseteq audit',
         audit' \subseteq [op : {"ingest", "snapshot", "read", "read_snapshot"}, by : Actors],
         expired' = expired, rewrites' = rewrites, faults' \in Nat
  PROVE  TransferInv'
<1>1. call' \in [Callers -> Calls] /\ call'[c] = y /\ \A o \in Callers : o # c => call'[o] = call[o]
  BY DEF Call, TransferInv, TransferTypeOK
<1>2. TransferTypeOK'
  BY <1>1 DEF TransferInv, TransferTypeOK, FilesTyped
<1>3. CallsSound'
  <2> SUFFICES ASSUME NEW o \in Callers  PROVE CallSound(call[o])'
    BY DEF CallsSound
  <2>1. CASE o = c
    BY <1>1, <2>1 DEF CallSound, UploadSound, SnapshotSound, ReadSound, Held, AdmittedAs, Backed
  <2>2. CASE o # c
    <3>1. PICK x \in Calls : x = call[o]
      BY DEF TransferInv, TransferTypeOK
    <3>2. CallSound(x)'
      BY <3>1, CallStays DEF TransferInv, CallsSound
    <3> QED  BY <1>1, <2>2, <3>1, <3>2
  <2> QED  BY <2>1, <2>2
<1>4. GiftsSound'
  <2> SUFFICES ASSUME NEW g \in given'  PROVE GiftSound(g)'
    BY DEF GiftsSound
  <2>1. CASE g \in given
    BY <2>1, GiftStays DEF TransferInv, TransferTypeOK, GiftsSound
  <2> QED  BY <2>1
<1> QED  BY <1>2, <1>3, <1>4 DEF TransferInv

\* Nothing was stored.
LEMMA FilesStay ==
  ASSUME TransferInv, files' = files
  PROVE  FilesTyped' /\ FilesGrow /\ FilesSound'
<1>1. FilesTyped /\ FilesSound
  BY DEF TransferInv, TransferTypeOK, FilesTyped
<1>2. FilesTyped' /\ FilesGrow
  BY <1>1 DEF FilesTyped, FilesGrow, Exists
<1>3. FilesSound'
  <2>1. Allocated' = Allocated
    BY DEF Allocated, Exists, ExportKey
  <2>2. AllocationsSound'
    BY <1>1, <2>1 DEF FilesSound, AllocationsSound, Exists, ExportKey
  <2>3. SnapshotsSound'
    BY <1>1 DEF FilesSound, SnapshotsSound, Exists, SnapshotKey
  <2>4. DocumentsSound'
    <3>1. \A ref, a : AdmittedAs(ref, a)' <=> AdmittedAs(ref, a)
      BY DEF AdmittedAs, ExportKey
    <3>2. \A s : Backed(s)' <=> Backed(s)
      BY DEF Backed, ContentKey
    <3>3. \A k : Exists(k)' <=> Exists(k)
      BY DEF Exists
    <3>4. \A k, d, v : DocumentSound(k, d, v)' <=> DocumentSound(k, d, v)
      BY <3>1, <3>2, <3>3 DEF DocumentSound, RecordOf
    <3> QED  BY <1>1, <3>4 DEF FilesSound, DocumentsSound
  <2> QED  BY <2>2, <2>3, <2>4 DEF FilesSound
<1> QED  BY <1>2, <1>3

LEMMA CallTurns ==
  ASSUME TransferInv, NEW c \in Callers, NEW y \in Calls, Call(c, y), CallSound(y),
         UNCHANGED <<files, given, expired, rewrites>>, audit \subseteq audit',
         audit' \subseteq [op : {"ingest", "snapshot", "read", "read_snapshot"}, by : Actors],
         faults' \in Nat
  PROVE  TransferInv'
<1>1. FilesTyped' /\ FilesGrow /\ FilesSound'
  BY FilesStay
<1>2. CallSound(y)'
  BY <1>1, CallStays
<1> QED  BY <1>1, <1>2, CallMoves

LEMMA InvParts ==
  ASSUME TransferInv
  PROVE  /\ FilesTyped /\ TransferTypeOK /\ AllocationsSound /\ SnapshotsSound /\ DocumentsSound
         /\ CallsSound /\ GiftsSound
BY DEF TransferInv, FilesSound, TransferTypeOK, FilesTyped

LEMMA RecordsAre ==
  ASSUME TransferInv, NEW d \in Ids, NEW v \in Ids, NEW k, k = <<"documents", d, v>>, NEW i \in DOMAIN files[k]
  PROVE  /\ files[k][i] \in StoredDocuments /\ files[k][i].att \in Attestations
         /\ files[k][i].ref \in References /\ RecordOf(files[k][i], d, v)
<1>1. files[k] \in Seq(StoredDocuments)
  BY RecordKeys, InvParts DEF FilesTyped
<1>2. files[k][i] \in StoredDocuments
  BY <1>1
<1> QED  BY <1>2, InvParts DEF StoredDocuments, DocumentsSound, DocumentSound

LEMMA DocumentStays ==
  ASSUME TransferInv, FilesGrow, NEW d \in Ids, NEW v \in Ids, NEW k, k = <<"documents", d, v>>,
         files'[k] = files[k]
  PROVE  DocumentSound(k, d, v)'
<1>1. \A i \in DOMAIN files[k] : RecordOf(files[k][i], d, v)'
  <2> SUFFICES ASSUME NEW i \in DOMAIN files[k]  PROVE RecordOf(files[k][i], d, v)'
    OBVIOUS
  <2>1. PICK s \in StoredDocuments : s = files[k][i] /\ s.att \in Attestations /\ RecordOf(s, d, v)
    BY RecordsAre
  <2>2. RecordOf(s, d, v)'
    BY <2>1, AdmittedStays DEF RecordOf
  <2>3. s = files'[k][i]
    BY <2>1
  <2> QED  BY <2>2, <2>3
<1>2. CASE Exists(k)
  <2>1. files[k] \in Seq(StoredDocuments) /\ files[k] # << >>
    BY <1>2, RecordKeys, InvParts DEF FilesTyped, Exists
  <2>2. PICK s \in StoredDocuments : s = files[k][1]
    BY <2>1, LastOf
  <2>3. Backed(s)
    BY <1>2, <2>2, InvParts DEF DocumentsSound, DocumentSound
  <2>4. Backed(s)' /\ s = files'[k][1]
    BY <2>2, <2>3, BackedStays
  <2> QED  BY <1>1, <2>4 DEF DocumentSound
<1>3. CASE ~Exists(k)
  BY <1>1, <1>3 DEF DocumentSound, Exists
<1> QED  BY <1>2, <1>3

LEMMA AllocationsStay ==
  ASSUME TransferInv, \A e \in Exports : files'[ExportKey(e)] = files[ExportKey(e)]
  PROVE  AllocationsSound'
<1>1. \A e \in Exports : Exists(ExportKey(e))' <=> Exists(ExportKey(e))
  BY DEF Exists, ExportKey
<1>2. Allocated' = Allocated
  BY <1>1 DEF Allocated
<1> QED  BY <1>1, <1>2, InvParts DEF AllocationsSound, ExportKey, Exists, Allocated

LEMMA SnapshotsStay ==
  ASSUME TransferInv, \A r \in SourceRuns : files'[SnapshotKey(r)] = files[SnapshotKey(r)]
  PROVE  SnapshotsSound'
BY InvParts DEF SnapshotsSound, SnapshotKey, Exists

\* The numbers that were given out: one for each export that was allocated.
LEMMA NumbersAre ==
  /\ IsFiniteSet(Allocated) /\ Cardinality(Allocated) \in Nat
  /\ 1 + Cardinality(Allocated) \in Ids
<1>1. IsFiniteSet(Exports) /\ Allocated \subseteq Exports
  BY TransferAssumption DEF Allocated
<1>2. /\ IsFiniteSet(Allocated) /\ Cardinality(Allocated) \in Nat /\ Cardinality(Exports) \in Nat
      /\ Cardinality(Allocated) <= Cardinality(Exports)
  BY <1>1, FS_Subset, FS_CardinalityType
<1> QED  BY <1>2 DEF Ids

\* A fresh identity.
LEMMA AllocationIs ==
  ASSUME TransferInv, NEW c \in Callers, call[c].pc # "idle", call[c].op = "ingest", UploadSound(call[c])
  PROVE  /\ Allocation(c) \in Allocations /\ Allocation(c).att = call[c].att
         /\ Allocation(c).ver = 1 + Cardinality(Allocated)
<1>1. PICK n : n = 1 + Cardinality({e \in Exports : Exists(<<"exports", e>>)})
  OBVIOUS
<1>2. n \in Ids /\ n = 1 + Cardinality(Allocated)
  BY <1>1, NumbersAre DEF Allocated, ExportKey
<1>3. PICK f : f = call[c].att.follows
  OBVIOUS
<1>4. f # NoValue => RefOf(f).doc \in Ids
  BY <1>3, RefOfIs, KnownIs, ReferenceKeys, InvParts DEF UploadSound
<1>5. Allocation(c) = [doc |-> IF f = NoValue THEN n ELSE RefOf(f).doc, ver |-> n, att |-> call[c].att]
  BY <1>1, <1>3 DEF Allocation
<1> QED  BY <1>2, <1>4, <1>5 DEF Allocations, UploadSound

\* The allocation is created: its number was given to nobody yet.
LEMMA Allocates ==
  ASSUME TransferInv, NEW e \in Exports, NEW x \in Allocations, x.att.export = e,
         x.ver = 1 + Cardinality(Allocated), Create(ExportKey(e), x)
  PROVE  /\ FilesTyped' /\ FilesGrow /\ FilesSound'
         /\ Found(ExportKey(e), x) \in Allocations
         /\ files'[ExportKey(e)] = <<Found(ExportKey(e), x)>>
<1>1. ExportKey(e) \in FileKeys /\ Kept(ExportKey(e)) = Allocations /\ ExportKey(e)[1] = "exports"
  BY KeysAre
<1>2. /\ FilesTyped' /\ FilesGrow
      /\ \A j \in FileKeys : j # ExportKey(e) => files'[j] = files[j]
      /\ Exists(ExportKey(e)) => files' = files
      /\ ~Exists(ExportKey(e)) => files'[ExportKey(e)] = <<x>>
      /\ Found(ExportKey(e), x) = Latest(ExportKey(e))' /\ Found(ExportKey(e), x) \in Allocations
  BY <1>1, CreateIs, InvParts
<1>3. CASE Exists(ExportKey(e))
  <2>1. files' = files
    BY <1>2, <1>3
  <2>2. Len(files[ExportKey(e)]) = 1 /\ files[ExportKey(e)] \in Seq(Allocations)
    BY <1>1, <1>3, InvParts DEF AllocationsSound, FilesTyped
  <2>3. files[ExportKey(e)] = <<files[ExportKey(e)][1]>>
    BY <2>2, SequenceOfOne
  <2>4. Found(ExportKey(e), x) = files[ExportKey(e)][1]
    BY <1>3, <2>2 DEF Found, Latest
  <2> QED  BY <1>2, <2>1, <2>3, <2>4, FilesStay
<1>4. CASE ~Exists(ExportKey(e))
  <2>1. /\ Found(ExportKey(e), x) = x /\ files'[ExportKey(e)] = <<x>> /\ <<x>> # << >> /\ <<x>>[1] = x
        /\ Len(<<x>>) = 1
    BY <1>2, <1>4 DEF Found
  <2>2. \A f \in Exports : f # e => files'[ExportKey(f)] = files[ExportKey(f)]
    BY <1>2, KeysAre
  <2>3. Exists(ExportKey(e))' /\ \A f \in Exports : f # e => (Exists(ExportKey(f))' <=> Exists(ExportKey(f)))
    BY <2>1, <2>2 DEF Exists, ExportKey
  <2>4. Allocated' = Allocated \cup {e} /\ e \notin Allocated
    BY <1>4, <2>3 DEF Allocated
  <2>5. Cardinality(Allocated') = 1 + Cardinality(Allocated) /\ Cardinality(Allocated) \in Nat
    <3>1. Cardinality(Allocated \cup {e}) = Cardinality(Allocated) + 1
      BY <2>4, NumbersAre, FS_AddElement
    <3> QED  BY <2>4, <3>1, NumbersAre
  <2>6. \A f \in Allocated : /\ files[ExportKey(f)] \in Seq(Allocations) /\ Len(files[ExportKey(f)]) = 1
                             /\ files[ExportKey(f)][1] \in Allocations
                             /\ files[ExportKey(f)][1].ver \in Nat
                             /\ files[ExportKey(f)][1].ver <= Cardinality(Allocated)
    <3> SUFFICES ASSUME NEW f \in Allocated
                 PROVE  /\ files[ExportKey(f)] \in Seq(Allocations) /\ Len(files[ExportKey(f)]) = 1
                        /\ files[ExportKey(f)][1] \in Allocations
                        /\ files[ExportKey(f)][1].ver \in Nat
                        /\ files[ExportKey(f)][1].ver <= Cardinality(Allocated)
      OBVIOUS
    <3>1. f \in Exports /\ files[ExportKey(f)] \in Seq(Allocations) /\ Len(files[ExportKey(f)]) = 1
          /\ files[ExportKey(f)][1].ver <= Cardinality(Allocated)
      BY KeysAre, InvParts DEF AllocationsSound, FilesTyped, Allocated
    <3>2. files[ExportKey(f)][1] \in Allocations
      BY <3>1, SequenceOfOne
    <3> QED  BY <3>1, <3>2 DEF Allocations, Ids
  <2>7. AllocationsSound'
    <3>1. ASSUME NEW f \in Exports, Exists(ExportKey(f))'
          PROVE  /\ Len(files'[ExportKey(f)]) = 1 /\ files'[ExportKey(f)][1].att.export = f
                 /\ files'[ExportKey(f)][1].ver <= Cardinality(Allocated')
      <4>1. CASE f = e
        <5>1. Len(files'[ExportKey(f)]) = 1 /\ files'[ExportKey(f)][1] = x
          BY <2>1, <4>1
        <5> QED  BY <2>5, <4>1, <5>1
      <4>2. CASE f # e
        <5>1. f \in Allocated /\ files'[ExportKey(f)] = files[ExportKey(f)]
          BY <2>2, <2>3, <3>1, <4>2 DEF Allocated
        <5>2. files[ExportKey(f)][1].att.export = f
          BY <5>1, InvParts DEF AllocationsSound, Allocated
        <5> QED  BY <2>5, <2>6, <5>1, <5>2
      <4> QED  BY <4>1, <4>2
    <3>2. ASSUME NEW f \in Allocated', NEW g \in Allocated',
                 files'[ExportKey(f)][1].ver = files'[ExportKey(g)][1].ver
          PROVE  f = g
      BY <2>1, <2>2, <2>4, <2>5, <2>6, <3>2, InvParts DEF AllocationsSound, Allocated
    <3> QED  BY <3>1, <3>2 DEF AllocationsSound, ExportKey
  <2>8. SnapshotsSound'
    BY <1>1, <1>2, SnapshotsStay, KeysAre
  <2>9. DocumentsSound'
    <3>1. \A d, v \in Ids : files'[<<"documents", d, v>>] = files[<<"documents", d, v>>]
      <4> SUFFICES ASSUME NEW d \in Ids, NEW v \in Ids, NEW k, k = <<"documents", d, v>>
                   PROVE  files'[k] = files[k]
        OBVIOUS
      <4> QED  BY <1>1, <1>2, RecordKeys
    <3> QED  BY <1>2, <3>1, DocumentStays DEF DocumentsSound
  <2> QED  BY <1>2, <2>1, <2>7, <2>8, <2>9 DEF FilesSound
<1> QED  BY <1>3, <1>4

LEMMA StoresContent ==
  ASSUME TransferInv, NEW ref \in References, NEW b \in Pdfs, Create(ContentKey(ref), b)
  PROVE  FilesTyped' /\ FilesGrow /\ FilesSound'
<1>1. ContentKey(ref) \in FileKeys /\ Kept(ContentKey(ref)) = Pdfs /\ ContentKey(ref)[1] = "content"
  BY ReferenceKeys
<1>2. FilesTyped' /\ FilesGrow /\ \A j \in FileKeys : j # ContentKey(ref) => files'[j] = files[j]
  BY <1>1, CreateIs, InvParts
<1>3. AllocationsSound' /\ SnapshotsSound'
  BY <1>1, <1>2, AllocationsStay, SnapshotsStay, KeysAre
<1>4. \A d, v \in Ids : files'[<<"documents", d, v>>] = files[<<"documents", d, v>>]
  <2> SUFFICES ASSUME NEW d \in Ids, NEW v \in Ids, NEW k, k = <<"documents", d, v>>
               PROVE  files'[k] = files[k]
    OBVIOUS
  <2> QED  BY <1>1, <1>2, RecordKeys
<1> QED  BY <1>2, <1>3, <1>4, DocumentStays DEF FilesSound, DocumentsSound

LEMMA StoresRecord ==
  ASSUME TransferInv, NEW s \in StoredDocuments, AdmittedAs(s.ref, s.att), Backed(s),
         Create(DocumentKey(s.ref), s)
  PROVE  FilesTyped' /\ FilesGrow /\ FilesSound' /\ Exists(DocumentKey(s.ref))'
<1>0. s.ref \in References /\ s.att \in Attestations
  BY DEF StoredDocuments
<1>1. /\ DocumentKey(s.ref) \in FileKeys /\ Kept(DocumentKey(s.ref)) = StoredDocuments
      /\ DocumentKey(s.ref)[1] = "documents" /\ DocumentKey(s.ref) = <<"documents", s.ref.doc, s.ref.ver>>
  BY <1>0, ReferenceKeys
<1>2. /\ FilesTyped' /\ FilesGrow /\ \A j \in FileKeys : j # DocumentKey(s.ref) => files'[j] = files[j]
      /\ Exists(DocumentKey(s.ref)) => files' = files
      /\ ~Exists(DocumentKey(s.ref)) => files'[DocumentKey(s.ref)] = <<s>>
      /\ Exists(DocumentKey(s.ref))'
  BY <1>1, CreateIs, InvParts
<1>3. AllocationsSound' /\ SnapshotsSound'
  BY <1>1, <1>2, AllocationsStay, SnapshotsStay, KeysAre
<1>4. ASSUME NEW d \in Ids, NEW v \in Ids, NEW k, k = <<"documents", d, v>>  PROVE DocumentSound(k, d, v)'
  <2>1. k \in FileKeys /\ k[2] = d /\ k[3] = v
    BY <1>4, KeysAre
  <2>2. CASE k # DocumentKey(s.ref) \/ Exists(DocumentKey(s.ref))
    BY <1>2, <1>4, <2>1, <2>2, DocumentStays
  <2>3. CASE k = DocumentKey(s.ref) /\ ~Exists(DocumentKey(s.ref))
    <3>1. s.ref.doc = d /\ s.ref.ver = v
      BY <1>0, <1>1, <2>1, <2>3, KeysAre, ReferenceKeys
    <3>2. AdmittedAs(s.ref, s.att)' /\ Backed(s)'
      BY <1>0, <1>2, AdmittedStays, BackedStays
    <3>3. files'[k] = <<s>> /\ DOMAIN <<s>> = 1..1 /\ <<s>>[1] = s
      BY <1>2, <2>3
    <3> QED  BY <3>1, <3>2, <3>3 DEF DocumentSound, RecordOf
  <2> QED  BY <2>2, <2>3
<1> QED  BY <1>2, <1>3, <1>4 DEF FilesSound, DocumentsSound

LEMMA StoresSnapshot ==
  ASSUME TransferInv, NEW r \in SourceRuns, NEW x \in Snapshots, Create(SnapshotKey(r), x)
  PROVE  /\ FilesTyped' /\ FilesGrow /\ FilesSound'
         /\ files'[SnapshotKey(r)] = <<Found(SnapshotKey(r), x)>>
<1>1. SnapshotKey(r) \in FileKeys /\ Kept(SnapshotKey(r)) = Snapshots /\ SnapshotKey(r)[1] = "snapshots"
  BY KeysAre
<1>2. /\ FilesTyped' /\ FilesGrow /\ \A j \in FileKeys : j # SnapshotKey(r) => files'[j] = files[j]
      /\ Exists(SnapshotKey(r)) => files' = files
      /\ ~Exists(SnapshotKey(r)) => files'[SnapshotKey(r)] = <<x>>
      /\ Exists(SnapshotKey(r))'
      /\ Found(SnapshotKey(r), x) = Latest(SnapshotKey(r))'
  BY <1>1, CreateIs, InvParts
<1>3. AllocationsSound'
  BY <1>1, <1>2, AllocationsStay, KeysAre
<1>4. Len(<<x>>) = 1
  OBVIOUS
<1>5. ASSUME NEW q \in SourceRuns, Exists(SnapshotKey(q))'  PROVE Len(files'[SnapshotKey(q)]) = 1
  <2>1. CASE files'[SnapshotKey(q)] = files[SnapshotKey(q)]
    BY <1>5, <2>1, InvParts DEF SnapshotsSound, Exists, SnapshotKey
  <2>2. CASE SnapshotKey(q) = SnapshotKey(r) /\ ~Exists(SnapshotKey(r))
    BY <1>2, <1>4, <2>2
  <2> QED  BY <1>2, <2>1, <2>2, KeysAre
<1>6. SnapshotsSound'
  BY <1>5 DEF SnapshotsSound, SnapshotKey
<1>7. \A d, v \in Ids : files'[<<"documents", d, v>>] = files[<<"documents", d, v>>]
  <2> SUFFICES ASSUME NEW d \in Ids, NEW v \in Ids, NEW k, k = <<"documents", d, v>>
               PROVE  files'[k] = files[k]
    OBVIOUS
  <2> QED  BY <1>1, <1>2, RecordKeys
<1>8. DocumentsSound'
  BY <1>2, <1>7, DocumentStays DEF DocumentsSound
<1>9. files'[SnapshotKey(r)] \in Seq(Snapshots) /\ Len(files'[SnapshotKey(r)]) = 1
  BY <1>1, <1>2, <1>5 DEF FilesTyped
<1>10. /\ files'[SnapshotKey(r)] = <<files'[SnapshotKey(r)][1]>>
       /\ Latest(SnapshotKey(r))' = files'[SnapshotKey(r)][1]
  BY <1>9, SequenceOfOne DEF Latest, SnapshotKey
<1> QED  BY <1>2, <1>3, <1>6, <1>8, <1>10 DEF FilesSound

\* The call that takes a step, as a value, and what it has established.
LEMMA CallIs ==
  ASSUME TransferInv, NEW c \in Callers
  PROVE  call[c] \in Calls /\ CallSound(call[c])
BY DEF TransferInv, TransferTypeOK, CallsSound

LEMMA IdleIs == Idle \in Calls /\ Idle.pc = "idle" /\ CallSound(Idle)
<1>1. Idle \in Calls /\ Idle.pc = "idle"
  BY DEF Idle, Calls, Codes
<1> QED  BY <1>1 DEF CallSound

\* A call that is refused goes on to its audit event, whatever it had established.
LEMMA Refused ==
  ASSUME NEW x \in Calls, x.pc # "idle", CallSound(x), NEW code \in Codes \ {"ok"}, NEW y,
         y = [x EXCEPT !.pc = "audit", !.code = code]
  PROVE  y \in Calls /\ CallSound(y)
<1>1. y \in Calls /\ y.pc = "audit" /\ y.code # "ok" /\ ~Held(y)
  BY DEF Calls, Held
<1>2. y.by = x.by /\ y.op = x.op /\ y.att = x.att /\ y.bytes = x.bytes /\ y.run = x.run /\ y.ref = x.ref
  BY DEF Calls
<1>3. CASE x.op = "ingest" /\ UploadSound(x)
  <2>1. UploadSound(y)
    BY <1>1, <1>2, <1>3 DEF UploadSound
  <2> QED  BY <1>1, <1>2, <1>3, <2>1 DEF CallSound
<1>4. CASE x.op = "snapshot" /\ SnapshotSound(x)
  <2>1. SnapshotSound(y)
    BY <1>1, <1>2, <1>4 DEF SnapshotSound
  <2> QED  BY <1>1, <1>2, <1>4, <2>1 DEF CallSound
<1>5. CASE x.op \in {"read", "read_snapshot"} /\ ReadSound(x)
  <2>1. ReadSound(y)
    BY <1>1, <1>2, <1>5 DEF ReadSound
  <2> QED  BY <1>1, <1>2, <1>5, <2>1 DEF CallSound
<1> QED  BY <1>3, <1>4, <1>5 DEF CallSound

\* A refusal, also after the objects have grown.
LEMMA FailKeeps ==
  ASSUME TransferInv, NEW c \in Callers, call[c].pc # "idle", NEW code \in Codes \ {"ok"}, Fail(c, code),
         FilesTyped', FilesGrow, FilesSound', UNCHANGED <<given, audit, expired, rewrites>>, faults' \in Nat
  PROVE  TransferInv'
<1>1. PICK y : y = [call[c] EXCEPT !.pc = "audit", !.code = code]
  OBVIOUS
<1>2. y \in Calls /\ CallSound(y)
  BY <1>1, CallIs, Refused
<1>3. CallSound(y)'
  BY <1>2, CallStays
<1>4. Call(c, y)
  BY <1>1 DEF Fail
<1> QED  BY <1>2, <1>3, <1>4, CallMoves DEF TransferInv, TransferTypeOK

LEMMA FailTurns ==
  ASSUME TransferInv, NEW c \in Callers, call[c].pc # "idle", NEW code \in Codes \ {"ok"}, Fail(c, code),
         UNCHANGED <<files, given, audit, expired, faults, rewrites>>
  PROVE  TransferInv'
BY FilesStay, FailKeeps DEF TransferInv, TransferTypeOK

LEMMA BeginIngestKeeps ==
  ASSUME TransferInv, NEW c \in Callers, NEW by \in Actors, NEW a \in Attestations, NEW bytes \in Pdfs,
         BeginIngest(c, by, a, bytes)
  PROVE  TransferInv'
<1>1. PICK y : y = [Idle EXCEPT !.pc = "verify", !.op = "ingest", !.by = by, !.att = a, !.bytes = bytes]
  OBVIOUS
<1>2. /\ y \in Calls /\ y.pc = "verify" /\ y.op = "ingest" /\ y.by = by /\ y.att = a /\ y.bytes = bytes
  BY <1>1 DEF Idle, Calls, Codes
<1>3. UploadSound(y)
  BY <1>2 DEF UploadSound, BeginIngest
<1>4. CallSound(y)
  BY <1>2, <1>3 DEF CallSound
<1>5. Call(c, y) /\ UNCHANGED <<files, expired, audit, given, faults, rewrites>>
  BY <1>1 DEF BeginIngest
<1> QED  BY <1>2, <1>4, <1>5, CallTurns DEF TransferInv, TransferTypeOK

LEMMA BeginSnapshotKeeps ==
  ASSUME TransferInv, NEW c \in Callers, NEW by \in Actors, NEW r \in SourceRuns, BeginSnapshot(c, by, r)
  PROVE  TransferInv'
<1>1. PICK y : y = [Idle EXCEPT !.pc = "next", !.op = "snapshot", !.by = by, !.run = r]
  OBVIOUS
<1>2. y \in Calls /\ y.pc = "next" /\ y.op = "snapshot" /\ y.by = by /\ y.run = r
  BY <1>1 DEF Idle, Calls, Codes
<1>3. SnapshotSound(y)
  BY <1>2 DEF SnapshotSound, BeginSnapshot
<1>4. CallSound(y)
  BY <1>2, <1>3 DEF CallSound
<1>5. Call(c, y) /\ UNCHANGED <<files, expired, audit, given, faults, rewrites>>
  BY <1>1 DEF BeginSnapshot
<1> QED  BY <1>2, <1>4, <1>5, CallTurns DEF TransferInv, TransferTypeOK

LEMMA BeginReadKeeps ==
  ASSUME TransferInv, NEW c \in Callers, NEW by \in Actors, NEW e \in Exports, NEW ref \in Known(e),
         NEW r \in SourceRuns \cup {NoValue}, BeginRead(c, by, ref, r)
  PROVE  TransferInv'
<1>1. PICK op : op = IF r = NoValue THEN "read" ELSE "read_snapshot"
  OBVIOUS
<1>2. PICK s : s = [Idle EXCEPT !.op = op, !.by = by, !.ref = ref, !.run = r]
  OBVIOUS
<1>3. /\ ref \in References /\ \E a \in Attestations : AdmittedAs(ref, a)
  BY InvParts, KnownIs
<1>4. /\ s \in Calls /\ s.op = op /\ s.by = by /\ s.ref = ref /\ s.run = r /\ op \in {"read", "read_snapshot"}
      /\ op = "read_snapshot" => r \in SourceRuns
  BY <1>1, <1>2, <1>3 DEF Idle, Calls, Codes
<1>5. PICK y : y = IF <<by, "read">> \notin DocumentGrants
                   THEN [s EXCEPT !.pc = "audit", !.code = "unauthorized"]
                   ELSE [s EXCEPT !.pc = IF r = NoValue THEN "lookup" ELSE "pin"]
  OBVIOUS
<1>6. /\ y \in Calls /\ y.op = op /\ y.by = by /\ y.ref = ref /\ y.run = r
      /\ \/ y.pc = "audit" /\ y.code # "ok"
         \/ y.pc = "lookup" /\ op = "read"
         \/ y.pc = "pin" /\ op = "read_snapshot"
  <2>1. CASE <<by, "read">> \notin DocumentGrants
    <3>1. y = [s EXCEPT !.pc = "audit", !.code = "unauthorized"]
      BY <1>5, <2>1
    <3>2. y.pc = "audit" /\ y.code = "unauthorized" /\ y.op = s.op /\ y.by = s.by /\ y.ref = s.ref /\ y.run = s.run
      BY <1>4, <3>1 DEF Calls
    <3>3. y \in Calls
      BY <1>4, <3>1 DEF Calls, Codes
    <3> QED  BY <1>4, <3>2, <3>3
  <2>2. CASE <<by, "read">> \in DocumentGrants
    BY <1>1, <1>4, <1>5, <2>2 DEF Calls, Codes
  <2> QED  BY <2>1, <2>2
<1>7. ReadSound(y)
  BY <1>3, <1>4, <1>6 DEF ReadSound, Held
<1>8. CallSound(y)
  BY <1>3, <1>4, <1>6, <1>7 DEF CallSound
<1>9. Call(c, y) /\ UNCHANGED <<files, expired, audit, given, faults, rewrites>>
  BY <1>1, <1>2, <1>5 DEF BeginRead
<1> QED  BY <1>6, <1>8, <1>9, CallTurns DEF TransferInv, TransferTypeOK

LEMMA VerifyKeeps ==
  ASSUME TransferInv, NEW c \in Callers, Verify(c)
  PROVE  TransferInv'
<1>1. call[c].pc = "verify" /\ UNCHANGED <<files, expired, audit, given, faults, rewrites>>
  BY DEF Verify
<1>2. CASE \E code \in {"unauthorized", "privacy", "integrity"} : Fail(c, code)
  BY <1>1, <1>2, FailTurns DEF Codes
<1>3. CASE /\ call[c].by = call[c].att.by /\ call[c].bytes = call[c].att.content
           /\ Call(c, [call[c] EXCEPT !.pc = "allocate"])
  <2>1. PICK x \in Calls : x = call[c] /\ CallSound(x)
    BY CallIs
  <2>2. PICK y : y = [x EXCEPT !.pc = "allocate"]
    OBVIOUS
  <2>3. /\ y \in Calls /\ y.pc = "allocate" /\ y.op = x.op /\ y.by = x.by /\ y.att = x.att /\ y.bytes = x.bytes
    BY <2>2 DEF Calls
  <2>4. x.op = "ingest" /\ UploadSound(x) /\ x.by \in Actors
    BY <1>1, <2>1 DEF CallSound, SnapshotSound, ReadSound
  <2>5. UploadSound(y)
    BY <1>1, <1>3, <2>1, <2>3, <2>4 DEF UploadSound
  <2>6. CallSound(y)
    BY <2>3, <2>4, <2>5 DEF CallSound
  <2> QED  BY <1>1, <1>3, <2>1, <2>2, <2>3, <2>6, CallTurns DEF TransferInv, TransferTypeOK
<1> QED  BY <1>2, <1>3 DEF Verify, AttestationHolds

LEMMA AllocateFiles ==
  ASSUME TransferInv, NEW c \in Callers, call[c].pc = "allocate",
         Create(Creation(c).key, Creation(c).value)
  PROVE  /\ FilesTyped' /\ FilesGrow /\ FilesSound'
         /\ Found(Creation(c).key, Creation(c).value) \in Allocations
         /\ files'[ExportKey(call[c].att.export)] = <<Found(Creation(c).key, Creation(c).value)>>
<1>1. Creation(c).key = ExportKey(call[c].att.export) /\ Creation(c).value = Allocation(c)
  BY DEF Creation, ExportKey
<1>2. call[c].op = "ingest" /\ UploadSound(call[c])
  BY CallIs DEF CallSound, SnapshotSound, ReadSound
<1>3. call[c].att \in Attestations /\ call[c].att.export \in Exports
  BY <1>2, AttestationIs DEF UploadSound
<1>4. /\ Allocation(c) \in Allocations /\ Allocation(c).att = call[c].att
      /\ Allocation(c).ver = 1 + Cardinality(Allocated)
  BY <1>2, AllocationIs
<1> QED  BY <1>1, <1>3, <1>4, Allocates

LEMMA ContentFiles ==
  ASSUME TransferInv, NEW c \in Callers, call[c].pc = "content",
         Create(Creation(c).key, Creation(c).value)
  PROVE  FilesTyped' /\ FilesGrow /\ FilesSound'
<1>1. Creation(c).key = ContentKey(call[c].ref) /\ Creation(c).value = call[c].bytes
  BY DEF Creation
<1>2. call[c].ref \in References /\ call[c].bytes \in Pdfs
  BY CallIs DEF CallSound, SnapshotSound, ReadSound, UploadSound, Held
<1> QED  BY <1>1, <1>2, StoresContent

LEMMA RecordFiles ==
  ASSUME TransferInv, NEW c \in Callers, call[c].pc = "document", NEW ref, ref = call[c].ref,
         Create(Creation(c).key, Creation(c).value)
  PROVE  FilesTyped' /\ FilesGrow /\ FilesSound' /\ Exists(DocumentKey(ref))'
<1>1. PICK x \in Calls : x = call[c] /\ CallSound(x) /\ x.pc = "document"
  BY CallIs
<1>2. UploadSound(x)
  BY <1>1 DEF CallSound, SnapshotSound, ReadSound
<1>3. PICK s \in StoredDocuments : s = x.stored /\ s.ref = x.ref /\ AdmittedAs(s.ref, s.att) /\ Backed(s)
  BY <1>1, <1>2 DEF UploadSound, Held
<1>4. Creation(c).key = DocumentKey(s.ref) /\ Creation(c).value = s
  BY <1>1, <1>3 DEF Creation
<1>5. FilesTyped' /\ FilesGrow /\ FilesSound' /\ Exists(DocumentKey(s.ref))'
  BY <1>3, <1>4, StoresRecord
<1> QED  BY <1>1, <1>3, <1>5

LEMMA PublishFiles ==
  ASSUME TransferInv, NEW c \in Callers, call[c].pc = "publish",
         Create(Creation(c).key, Creation(c).value)
  PROVE  /\ FilesTyped' /\ FilesGrow /\ FilesSound'
         /\ files'[SnapshotKey(call[c].run)] = <<Found(Creation(c).key, Creation(c).value)>>
         /\ Creation(c).value = [by |-> call[c].by, entries |-> call[c].entries]
<1>1. /\ Creation(c).key = SnapshotKey(call[c].run)
      /\ Creation(c).value = [by |-> call[c].by, entries |-> call[c].entries]
  BY DEF Creation, SnapshotKey
<1>2. call[c].run \in SourceRuns /\ call[c].by \in Actors /\ call[c].entries \in SUBSET Entries
  <2>1. call[c].entries \in SUBSET Entries
    BY CallIs DEF Calls
  <2> QED  BY <2>1, CallIs DEF CallSound, SnapshotSound, ReadSound, UploadSound
<1>3. Creation(c).value \in Snapshots
  BY <1>1, <1>2 DEF Snapshots
<1> QED  BY <1>1, <1>2, <1>3, StoresSnapshot

LEMMA AllocateKeeps ==
  ASSUME TransferInv, NEW c \in Callers, Allocate(c)
  PROVE  TransferInv'
<1>1. PICK f : f = Found(Creation(c).key, Creation(c).value)
  OBVIOUS
<1>2. /\ call[c].pc = "allocate" /\ Create(Creation(c).key, Creation(c).value)
      /\ UNCHANGED <<expired, audit, given, faults, rewrites>>
  BY DEF Allocate
<1>3. /\ FilesTyped' /\ FilesGrow /\ FilesSound' /\ f \in Allocations
      /\ files'[ExportKey(call[c].att.export)] = <<f>>
  BY <1>1, <1>2, AllocateFiles
<1>4. CASE Fail(c, "conflict")
  BY <1>2, <1>3, <1>4, FailKeeps DEF TransferInv, TransferTypeOK, Codes
<1>5. CASE /\ f.att = call[c].att
           /\ Call(c, [call[c] EXCEPT !.pc = "content",
                          !.ref = [doc |-> f.doc, ver |-> f.ver, content |-> call[c].bytes]])
  <2>1. PICK x \in Calls : x = call[c] /\ CallSound(x) /\ x.pc = "allocate"
    BY <1>2, CallIs
  <2>2. x.op = "ingest" /\ UploadSound(x) /\ x.by \in Actors
    BY <2>1 DEF CallSound, SnapshotSound, ReadSound
  <2>3. PICK ref : ref = [doc |-> f.doc, ver |-> f.ver, content |-> x.bytes]
    OBVIOUS
  <2>4. ref \in References /\ ref.doc = f.doc /\ ref.ver = f.ver /\ ref.content = x.bytes
    BY <1>3, <2>2, <2>3 DEF References, Allocations, UploadSound
  <2>5. PICK y : y = [x EXCEPT !.pc = "content", !.ref = ref]
    OBVIOUS
  <2>6. /\ y \in Calls /\ y.pc = "content" /\ y.op = x.op /\ y.by = x.by /\ y.att = x.att /\ y.bytes = x.bytes
        /\ y.ref = ref
    BY <2>4, <2>5 DEF Calls
  <2>7. AdmittedAs(ref, x.att)'
    <3>1. f = [doc |-> ref.doc, ver |-> ref.ver, att |-> x.att]
      BY <1>3, <1>5, <2>1, <2>4 DEF Allocations
    <3>2. ref.content = x.att.content
      BY <2>1, <2>2, <2>4 DEF UploadSound, Held
    <3> QED  BY <1>3, <2>1, <3>1, <3>2 DEF AdmittedAs, ExportKey
  <2>8. CallSound(x)'
    BY <1>2, <1>3, <2>1, CallStays
  <2>9. UploadSound(x)'
    BY <2>1, <2>2, <2>8 DEF CallSound
  <2>10. UploadSound(y)'
    BY <2>1, <2>4, <2>6, <2>7, <2>9 DEF UploadSound, Held
  <2>11. CallSound(y)'
    BY <2>2, <2>6, <2>10 DEF CallSound
  <2>12. Call(c, y)
    BY <1>5, <2>1, <2>3, <2>5
  <2> QED  BY <1>2, <1>3, <2>6, <2>11, <2>12, CallMoves DEF TransferInv, TransferTypeOK
<1> QED  BY <1>1, <1>4, <1>5 DEF Allocate

LEMMA PutContentKeeps ==
  ASSUME TransferInv, NEW c \in Callers, PutContent(c)
  PROVE  TransferInv'
<1>1. PICK x \in Calls : x = call[c] /\ CallSound(x) /\ x.pc = "content"
  BY CallIs DEF PutContent
<1>2. x.op = "ingest" /\ UploadSound(x) /\ x.by \in Actors
  BY <1>1 DEF CallSound, SnapshotSound, ReadSound
<1>3. PICK k : k = ContentKey(x.ref)
  OBVIOUS
<1>4. Creation(c).key = k /\ Creation(c).value = x.bytes
  BY <1>1, <1>3 DEF Creation
<1>5. PICK v : v = IF Exists(k) THEN Len(files[k]) ELSE 1
  OBVIOUS
<1>6. /\ Create(k, x.bytes) /\ UNCHANGED <<expired, audit, given, faults, rewrites>>
      /\ IF Found(k, x.bytes) # x.bytes THEN Fail(c, "conflict")
         ELSE Call(c, [x EXCEPT !.pc = "document", !.stored = [ref |-> x.ref, att |-> x.att, version |-> v]])
  BY <1>1, <1>4, <1>5 DEF PutContent
<1>7. FilesTyped' /\ FilesGrow /\ FilesSound'
  BY <1>1, <1>4, <1>6, ContentFiles
<1>8. CASE Fail(c, "conflict")
  BY <1>1, <1>6, <1>7, <1>8, FailKeeps DEF TransferInv, TransferTypeOK, Codes
<1>9. CASE /\ Found(k, x.bytes) = x.bytes
           /\ Call(c, [x EXCEPT !.pc = "document", !.stored = [ref |-> x.ref, att |-> x.att, version |-> v]])
  <2>1. /\ x.ref \in References /\ x.att \in Attestations /\ x.bytes \in Pdfs /\ x.bytes = x.att.content
        /\ AdmittedAs(x.ref, x.att)
    BY <1>1, <1>2 DEF UploadSound, Held
  <2>2. /\ k \in FileKeys /\ Kept(k) = Pdfs
    BY <1>3, <2>1, ReferenceKeys
  <2>3. /\ Exists(k) => files' = files
        /\ ~Exists(k) => files'[k] = <<x.bytes>>
    BY <1>6, <2>1, <2>2, CreateIs, InvParts
  <2>4. v \in Nat /\ v \in DOMAIN files'[k] /\ files'[k][v] = x.bytes
    <3>1. CASE Exists(k)
      <4>1. files[k] \in Seq(Pdfs) /\ files[k] # << >> /\ v = Len(files[k])
        BY <1>5, <2>2, <3>1, InvParts DEF FilesTyped, Exists
      <4>2. v \in Nat /\ v \in DOMAIN files[k]
        BY <4>1, LastOf
      <4> QED  BY <1>9, <2>3, <3>1, <4>1, <4>2 DEF Found, Latest
    <3>2. CASE ~Exists(k)
      BY <1>5, <2>3, <3>2
    <3> QED  BY <3>1, <3>2
  <2>5. PICK s : s = [ref |-> x.ref, att |-> x.att, version |-> v]
    OBVIOUS
  <2>6. s \in StoredDocuments /\ s.ref = x.ref /\ s.att = x.att /\ s.version = v
    BY <2>1, <2>4, <2>5 DEF StoredDocuments
  <2>7. Backed(s)'
    BY <1>3, <2>1, <2>4, <2>6 DEF Backed, ContentKey
  <2>8. PICK y : y = [x EXCEPT !.pc = "document", !.stored = s]
    OBVIOUS
  <2>9. /\ y \in Calls /\ y.pc = "document" /\ y.op = x.op /\ y.by = x.by /\ y.att = x.att /\ y.bytes = x.bytes
        /\ y.ref = x.ref /\ y.stored = s
    BY <2>6, <2>8 DEF Calls
  <2>10. UploadSound(x)'
    <3>1. CallSound(x)'
      BY <1>1, <1>6, <1>7, CallStays
    <3> QED  BY <1>1, <1>2, <3>1 DEF CallSound
  <2>11. UploadSound(y)'
    BY <1>1, <2>6, <2>7, <2>9, <2>10 DEF UploadSound, Held
  <2>12. CallSound(y)'
    BY <1>2, <2>9, <2>11 DEF CallSound
  <2>13. Call(c, y)
    BY <1>9, <2>5, <2>8
  <2> QED  BY <1>6, <1>7, <2>9, <2>12, <2>13, CallMoves DEF TransferInv, TransferTypeOK
<1> QED  BY <1>6, <1>8, <1>9

LEMMA PutDocumentKeeps ==
  ASSUME TransferInv, NEW c \in Callers, PutDocument(c)
  PROVE  TransferInv'
<1>1. PICK x \in Calls : x = call[c] /\ CallSound(x) /\ x.pc = "document"
  BY CallIs DEF PutDocument
<1>2. x.op = "ingest" /\ UploadSound(x) /\ x.by \in Actors
  BY <1>1 DEF CallSound, SnapshotSound, ReadSound
<1>3. Creation(c).value = x.stored
  BY <1>1 DEF Creation
<1>4. /\ Create(Creation(c).key, Creation(c).value) /\ UNCHANGED <<expired, audit, given, faults, rewrites>>
      /\ Fail(c, "conflict") \/ Call(c, [x EXCEPT !.pc = "audit"])
  BY <1>1, <1>3 DEF PutDocument
<1>5. FilesTyped' /\ FilesGrow /\ FilesSound' /\ Exists(DocumentKey(x.ref))'
  BY <1>1, <1>4, RecordFiles
<1>6. CASE Fail(c, "conflict")
  BY <1>1, <1>4, <1>5, <1>6, FailKeeps DEF TransferInv, TransferTypeOK, Codes
<1>7. CASE Call(c, [x EXCEPT !.pc = "audit"])
  <2>1. PICK y : y = [x EXCEPT !.pc = "audit"]
    OBVIOUS
  <2>2. /\ y \in Calls /\ y.pc = "audit" /\ y.op = x.op /\ y.by = x.by /\ y.att = x.att /\ y.bytes = x.bytes
        /\ y.ref = x.ref
    BY <2>1 DEF Calls
  <2>3. UploadSound(x)'
    <3>1. CallSound(x)'
      BY <1>1, <1>4, <1>5, CallStays
    <3> QED  BY <1>1, <1>2, <3>1 DEF CallSound
  <2>4. UploadSound(y)'
    BY <1>1, <1>5, <2>2, <2>3 DEF UploadSound, Held
  <2>5. CallSound(y)'
    BY <1>2, <2>2, <2>4 DEF CallSound
  <2> QED  BY <1>4, <1>5, <1>7, <2>1, <2>2, <2>5, CallMoves DEF TransferInv, TransferTypeOK
<1> QED  BY <1>4, <1>6, <1>7

LEMMA NextDocumentKeeps ==
  ASSUME TransferInv, NEW c \in Callers, NextDocument(c)
  PROVE  TransferInv'
<1>1. PICK x \in Calls : x = call[c] /\ CallSound(x) /\ x.pc = "next"
  BY CallIs DEF NextDocument
<1>2. x.op = "snapshot" /\ SnapshotSound(x) /\ x.by \in Actors
  BY <1>1 DEF CallSound, UploadSound, ReadSound
<1>3. UNCHANGED <<files, expired, audit, given, faults, rewrites>>
  BY DEF NextDocument
<1>4. CASE Fail(c, "unauthorized")
  BY <1>1, <1>3, <1>4, FailTurns DEF Codes
<1>5. CASE Call(c, [x EXCEPT !.pc = "publish"])
  <2>1. PICK y : y = [x EXCEPT !.pc = "publish"]
    OBVIOUS
  <2>2. y \in Calls /\ y.pc = "publish" /\ y.op = x.op /\ y.by = x.by /\ y.run = x.run
    BY <2>1 DEF Calls
  <2>3. CallSound(y)
    BY <1>2, <2>2 DEF CallSound, SnapshotSound
  <2> QED  BY <1>3, <1>5, <2>1, <2>2, <2>3, CallTurns DEF TransferInv, TransferTypeOK
<1>6. CASE \E ref \in Missing(c) : Call(c, [x EXCEPT !.pc = "lookup", !.ref = ref])
  <2>1. PICK ref \in Missing(c) : Call(c, [x EXCEPT !.pc = "lookup", !.ref = ref])
    BY <1>6
  <2>2. ref \in References
    <3>1. PICK e \in x.run.docs : ref = RefOf(e)
      BY <1>1 DEF Missing
    <3> QED  BY <1>2, <3>1, RefOfIs, KnownIs, InvParts DEF SnapshotSound
  <2>3. PICK y : y = [x EXCEPT !.pc = "lookup", !.ref = ref]
    OBVIOUS
  <2>4. y \in Calls /\ y.pc = "lookup" /\ y.op = x.op /\ y.by = x.by /\ y.run = x.run /\ y.ref = ref
    BY <2>2, <2>3 DEF Calls
  <2>5. CallSound(y)
    BY <1>2, <2>2, <2>4 DEF CallSound, SnapshotSound
  <2> QED  BY <1>3, <2>1, <2>3, <2>4, <2>5, CallTurns DEF TransferInv, TransferTypeOK
<1> QED  BY <1>1, <1>4, <1>5, <1>6 DEF NextDocument

LEMMA PinKeeps ==
  ASSUME TransferInv, NEW c \in Callers, Pin(c)
  PROVE  TransferInv'
<1>1. PICK x \in Calls : x = call[c] /\ CallSound(x) /\ x.pc = "pin"
  BY CallIs DEF Pin
<1>2. x.op = "read_snapshot" /\ ReadSound(x) /\ x.by \in Actors
  BY <1>1 DEF CallSound, UploadSound, SnapshotSound, ReadSound
<1>3. UNCHANGED <<files, expired, audit, given, faults, rewrites>>
  BY DEF Pin
<1>4. PICK e : e = {z \in Latest(SnapshotKey(x.run)).entries : z.ref = x.ref}
  OBVIOUS
<1>5. CASE \E code \in {"not_found", "unauthorized"} : Fail(c, code)
  BY <1>1, <1>3, <1>5, FailTurns DEF Codes
<1>6. CASE /\ Exists(SnapshotKey(x.run)) /\ Cardinality(e) = 1
           /\ Call(c, [x EXCEPT !.pc = "lookup", !.entries = e])
  <2>1. e # {}
    BY <1>6, FS_EmptySet
  <2>2. x.run \in SourceRuns /\ SnapshotKey(x.run) \in FileKeys /\ Kept(SnapshotKey(x.run)) = Snapshots
    BY <1>2, KeysAre DEF ReadSound
  <2>3. files[SnapshotKey(x.run)] \in Seq(Snapshots)
    BY <2>2, InvParts DEF FilesTyped
  <2>4. Latest(SnapshotKey(x.run)) \in Snapshots
    BY <1>6, <2>3, LastOf DEF Latest, Exists
  <2>5. e \in SUBSET Entries /\ e \subseteq Latest(SnapshotKey(x.run)).entries
    BY <1>4, <2>4 DEF Snapshots
  <2>6. PICK y : y = [x EXCEPT !.pc = "lookup", !.entries = e]
    OBVIOUS
  <2>7. /\ y \in Calls /\ y.pc = "lookup" /\ y.op = x.op /\ y.by = x.by /\ y.run = x.run /\ y.ref = x.ref
        /\ y.entries = e
    BY <2>5, <2>6 DEF Calls
  <2>8. ReadSound(y)
    BY <1>2, <1>6, <2>1, <2>5, <2>7 DEF ReadSound
  <2>9. CallSound(y)
    BY <1>2, <2>7, <2>8 DEF CallSound, ReadSound
  <2> QED  BY <1>3, <1>6, <2>6, <2>7, <2>9, CallTurns DEF TransferInv, TransferTypeOK
<1> QED  BY <1>1, <1>4, <1>5, <1>6 DEF Pin, SnapshotKey

LEMMA LookupKeeps ==
  ASSUME TransferInv, NEW c \in Callers, Lookup(c)
  PROVE  TransferInv'
<1>1. PICK x \in Calls : x = call[c] /\ CallSound(x) /\ x.pc = "lookup"
  BY CallIs DEF Lookup
<1>2. /\ \/ x.op = "snapshot" /\ SnapshotSound(x)
         \/ x.op \in {"read", "read_snapshot"} /\ ReadSound(x)
      /\ x.by \in Actors /\ x.ref \in References
  BY <1>1 DEF CallSound, UploadSound
<1>3. UNCHANGED <<files, expired, audit, given, faults, rewrites>>
  BY DEF Lookup
<1>4. CASE \E code \in {"not_found", "integrity"} : Fail(c, code)
  BY <1>1, <1>3, <1>4, FailTurns DEF Codes
<1>5. CASE /\ Exists(DocumentKey(x.ref))
           /\ Call(c, [x EXCEPT !.pc = "fetch", !.stored = Latest(DocumentKey(x.ref))])
  <2>1. files[DocumentKey(x.ref)] \in Seq(StoredDocuments)
    BY <1>2, ReferenceKeys, InvParts DEF FilesTyped
  <2>2. PICK s \in StoredDocuments : s = Latest(DocumentKey(x.ref))
    BY <1>5, <2>1, LastOf DEF Latest, Exists
  <2>3. PICK y : y = [x EXCEPT !.pc = "fetch", !.stored = s]
    OBVIOUS
  <2>4. /\ y \in Calls /\ y.pc = "fetch" /\ y.op = x.op /\ y.by = x.by /\ y.run = x.run /\ y.ref = x.ref
        /\ y.entries = x.entries /\ y.stored = s
    BY <2>2, <2>3 DEF Calls
  <2>5. CallSound(y)
    <3>1. CASE x.op = "snapshot" /\ SnapshotSound(x)
      <4>1. SnapshotSound(y)
        BY <2>4, <3>1 DEF SnapshotSound
      <4> QED  BY <1>2, <2>2, <2>4, <3>1, <4>1 DEF CallSound
    <3>2. CASE x.op \in {"read", "read_snapshot"} /\ ReadSound(x)
      <4>1. ReadSound(y)
        BY <1>1, <2>4, <3>2 DEF ReadSound
      <4> QED  BY <1>2, <2>2, <2>4, <3>2, <4>1 DEF CallSound
    <3> QED  BY <1>2, <3>1, <3>2
  <2> QED  BY <1>3, <1>5, <2>2, <2>3, <2>4, <2>5, CallTurns DEF TransferInv, TransferTypeOK
<1> QED  BY <1>1, <1>4, <1>5 DEF Lookup

LEMMA FetchKeeps ==
  ASSUME TransferInv, NEW c \in Callers, Fetch(c)
  PROVE  TransferInv'
<1>1. PICK x \in Calls : x = call[c] /\ CallSound(x) /\ x.pc = "fetch"
  BY CallIs DEF Fetch
<1>2. /\ \/ x.op = "snapshot" /\ SnapshotSound(x)
         \/ x.op \in {"read", "read_snapshot"} /\ ReadSound(x)
      /\ x.by \in Actors /\ x.ref \in References /\ x.stored \in StoredDocuments
  BY <1>1 DEF CallSound, UploadSound
<1>3. UNCHANGED <<files, expired, audit, given, faults, rewrites>>
  BY DEF Fetch
<1>4. CASE \E code \in {"not_found", "integrity"} : Fail(c, code)
  BY <1>1, <1>3, <1>4, FailTurns DEF Codes
<1>5. CASE Accept(c, x.ref.content)
  <2>1. CASE x.op = "snapshot" /\ SnapshotSound(x)
    <3>1. PICK e : e = x.entries \cup {[ref |-> x.ref, stored |-> x.stored]}
      OBVIOUS
    <3>2. e \in SUBSET Entries
      BY <1>2, <3>1 DEF Calls, Entries
    <3>3. PICK y : y = [x EXCEPT !.pc = "next", !.entries = e]
      OBVIOUS
    <3>4. y \in Calls /\ y.pc = "next" /\ y.op = x.op /\ y.by = x.by /\ y.run = x.run
      BY <3>2, <3>3 DEF Calls
    <3>5. CallSound(y)
      BY <1>2, <2>1, <3>4 DEF CallSound, SnapshotSound
    <3>6. [x EXCEPT !.pc = "next", !.entries = @ \cup {[ref |-> x.ref, stored |-> x.stored]}] = y
      BY <3>1, <3>3 DEF Calls
    <3>7. Call(c, y)
      BY <1>1, <1>5, <2>1, <3>6 DEF Accept
    <3> QED  BY <1>3, <3>4, <3>5, <3>7, CallTurns DEF TransferInv, TransferTypeOK
  <2>2. CASE x.op \in {"read", "read_snapshot"} /\ ReadSound(x)
    <3>1. PICK y : y = [x EXCEPT !.pc = "audit", !.bytes = x.ref.content]
      OBVIOUS
    <3>2. x.ref.content \in Pdfs
      BY <1>2, ReferenceKeys
    <3>3. /\ y \in Calls /\ y.pc = "audit" /\ y.op = x.op /\ y.by = x.by /\ y.run = x.run /\ y.ref = x.ref
          /\ y.bytes = x.ref.content
      BY <3>1, <3>2 DEF Calls
    <3>4. ReadSound(y)
      BY <2>2, <3>3 DEF ReadSound
    <3>5. CallSound(y)
      BY <1>2, <2>2, <3>3, <3>4 DEF CallSound
    <3>6. Call(c, y)
      BY <1>1, <1>5, <2>2, <3>1 DEF Accept
    <3> QED  BY <1>3, <3>3, <3>5, <3>6, CallTurns DEF TransferInv, TransferTypeOK
  <2> QED  BY <1>2, <2>1, <2>2
<1> QED  BY <1>1, <1>4, <1>5 DEF Fetch

LEMMA PublishSnapshotKeeps ==
  ASSUME TransferInv, NEW c \in Callers, PublishSnapshot(c)
  PROVE  TransferInv'
<1>1. PICK x \in Calls : x = call[c] /\ CallSound(x) /\ x.pc = "publish"
  BY CallIs DEF PublishSnapshot
<1>2. x.op = "snapshot" /\ SnapshotSound(x) /\ x.by \in Actors
  BY <1>1 DEF CallSound, UploadSound, ReadSound
<1>3. /\ Create(Creation(c).key, Creation(c).value) /\ UNCHANGED <<expired, audit, given, faults, rewrites>>
      /\ \/ Fail(c, "conflict")
         \/ /\ Found(Creation(c).key, Creation(c).value) = Creation(c).value
            /\ Call(c, [x EXCEPT !.pc = "audit"])
  BY <1>1 DEF PublishSnapshot
<1>4. /\ FilesTyped' /\ FilesGrow /\ FilesSound'
      /\ files'[SnapshotKey(x.run)] = <<Found(Creation(c).key, Creation(c).value)>>
      /\ Creation(c).value = [by |-> x.by, entries |-> x.entries]
  BY <1>1, <1>3, PublishFiles
<1>5. CASE Fail(c, "conflict")
  BY <1>1, <1>3, <1>4, <1>5, FailKeeps DEF TransferInv, TransferTypeOK, Codes
<1>6. CASE /\ Found(Creation(c).key, Creation(c).value) = Creation(c).value
           /\ Call(c, [x EXCEPT !.pc = "audit"])
  <2>1. PICK y : y = [x EXCEPT !.pc = "audit"]
    OBVIOUS
  <2>2. /\ y \in Calls /\ y.pc = "audit" /\ y.op = x.op /\ y.by = x.by /\ y.run = x.run
        /\ y.entries = x.entries
    BY <2>1 DEF Calls
  <2>3. SnapshotSound(x)'
    <3>1. CallSound(x)'
      BY <1>1, <1>3, <1>4, CallStays
    <3> QED  BY <1>1, <1>2, <3>1 DEF CallSound
  <2>4. SnapshotSound(y)'
    BY <1>4, <1>6, <2>2, <2>3 DEF SnapshotSound, SnapshotKey
  <2>5. CallSound(y)'
    BY <1>2, <2>2, <2>4 DEF CallSound
  <2> QED  BY <1>3, <1>4, <1>6, <2>1, <2>2, <2>5, CallMoves DEF TransferInv, TransferTypeOK
<1> QED  BY <1>3, <1>5, <1>6

\* What a call that ended well hands out is what it has established.
LEMMA GiftIs ==
  ASSUME TransferInv, NEW c \in Callers, call[c].pc = "audit", call[c].code = "ok", NEW g, g = Gift(c),
         FilesGrow, given \subseteq given', [op |-> g.op, by |-> g.by] \in audit'
  PROVE  g \in Gifts /\ GiftSound(g)'
<1>1. PICK x \in Calls : /\ x = call[c] /\ CallSound(x) /\ CallSound(x)' /\ x.pc = "audit" /\ x.code = "ok"
                          /\ Held(x) /\ Held(x)'
  BY CallIs, CallStays DEF Held
<1>2. CASE x.op = "ingest" /\ UploadSound(x)
  <2>1. g = [op |-> x.op, by |-> x.by, of |-> x.att, value |-> x.ref]
    BY <1>1, <1>2 DEF Gift
  <2>2. x.ref \in References /\ x.att \in Attestations /\ x.by \in Actors /\ x.by = x.att.by
    BY <1>1, <1>2 DEF UploadSound, CallSound
  <2>3. UploadSound(x)'
    BY <1>1, <1>2 DEF CallSound
  <2>4. AdmittedAs(x.ref, x.att)' /\ Exists(DocumentKey(x.ref))'
    BY <1>1, <2>3 DEF UploadSound
  <2> QED  BY <1>2, <2>1, <2>2, <2>4 DEF Gifts, GiftSound
<1>3. CASE x.op = "snapshot" /\ SnapshotSound(x)
  <2>1. g = [op |-> x.op, by |-> x.by, of |-> x.run, value |-> x.entries]
    BY <1>1, <1>3 DEF Gift
  <2>2. x.run \in SourceRuns /\ x.by \in Actors /\ x.entries \in SUBSET Entries
    BY <1>1, <1>3 DEF SnapshotSound, CallSound, Calls
  <2>3. SnapshotSound(x)'
    BY <1>1, <1>3 DEF CallSound
  <2>4. files'[SnapshotKey(x.run)] = <<[by |-> x.by, entries |-> x.entries]>>
    BY <1>1, <2>3 DEF SnapshotSound, SnapshotKey
  <2> QED  BY <1>3, <2>1, <2>2, <2>4 DEF Gifts, GiftSound, SnapshotKey
<1>4. CASE x.op \in {"read", "read_snapshot"} /\ ReadSound(x)
  <2>1. g = [op |-> x.op, by |-> x.by, of |-> x.ref, value |-> x.bytes]
    BY <1>1, <1>4 DEF Gift
  <2>2. x.ref \in References /\ x.by \in Actors /\ x.bytes = x.ref.content /\ x.ref.content \in Pdfs
    BY <1>1, <1>4, ReferenceKeys DEF ReadSound, CallSound
  <2>3. \E a \in Attestations : AdmittedAs(x.ref, a)'
    BY <1>1, <1>4 DEF ReadSound, CallSound
  <2> QED  BY <1>4, <2>1, <2>2, <2>3 DEF Gifts, GiftSound
<1> QED  BY <1>1, <1>2, <1>3, <1>4 DEF CallSound

\* The event of a call names one of the operations.
LEMMA EventIs ==
  ASSUME TransferInv, NEW c \in Callers, call[c].pc = "audit"
  PROVE  /\ audit \subseteq Audited(c)
         /\ Audited(c) \subseteq [op : {"ingest", "snapshot", "read", "read_snapshot"}, by : Actors]
<1>1. call[c].op \in {"ingest", "snapshot", "read", "read_snapshot"} /\ call[c].by \in Actors
  BY CallIs DEF CallSound
<1> QED  BY <1>1 DEF Audited, TransferInv, TransferTypeOK

LEMMA AnswerKeeps ==
  ASSUME TransferInv, NEW c \in Callers, Answer(c)
  PROVE  TransferInv'
<1>1. PICK g : g = Gift(c)
  OBVIOUS
<1>2. /\ call[c].pc = "audit" /\ audit' = Audited(c) /\ Call(c, Idle)
      /\ given' = IF call[c].code = "ok" THEN given \cup {g} ELSE given
      /\ UNCHANGED <<files, expired, faults, rewrites>>
  BY <1>1 DEF Answer
<1>3. FilesTyped' /\ FilesGrow /\ FilesSound'
  BY <1>2, FilesStay
<1>4. audit \subseteq audit' /\ audit' \subseteq [op : {"ingest", "snapshot", "read", "read_snapshot"}, by : Actors]
  BY <1>2, EventIs
<1>5. \A h \in given' \ given : h \in Gifts /\ GiftSound(h)'
  <2> SUFFICES ASSUME NEW h \in given' \ given  PROVE h \in Gifts /\ GiftSound(h)'
    OBVIOUS
  <2>1. call[c].code = "ok" /\ h = g
    BY <1>2
  <2>2. g.op = call[c].op /\ g.by = call[c].by
    BY <1>1 DEF Gift
  <2>3. [op |-> g.op, by |-> g.by] \in audit'
    BY <1>2, <2>1, <2>2 DEF Audited
  <2> QED  BY <1>1, <1>2, <1>3, <2>1, <2>3, GiftIs
<1>6. Idle \in Calls /\ CallSound(Idle)'
  BY IdleIs DEF CallSound
<1> QED  BY <1>2, <1>3, <1>4, <1>5, <1>6, CallMoves DEF TransferInv, TransferTypeOK

LEMMA AuditFailsKeeps ==
  ASSUME TransferInv, NEW c \in Callers, AuditFails(c)
  PROVE  TransferInv'
<1>1. /\ call[c].pc = "audit" /\ faults' \in Nat /\ audit' \in {audit, Audited(c)} /\ Call(c, Idle)
      /\ UNCHANGED <<files, expired, given, rewrites>>
  BY DEF AuditFails, TransferInv, TransferTypeOK
<1>2. audit \subseteq audit' /\ audit' \subseteq [op : {"ingest", "snapshot", "read", "read_snapshot"}, by : Actors]
  BY <1>1, EventIs DEF TransferInv, TransferTypeOK
<1> QED  BY <1>1, <1>2, IdleIs, CallTurns

LEMMA StorageFailsKeeps ==
  ASSUME TransferInv, NEW c \in Callers, StorageFails(c)
  PROVE  TransferInv'
<1>1. /\ call[c].pc \in Creating \cup {"pin", "lookup", "fetch"} /\ faults' \in Nat
      /\ UNCHANGED <<expired, audit, given, rewrites>>
      /\ \E code \in {"unavailable", "not_found"} : Fail(c, code)
      /\ \/ files' = files
         \/ call[c].pc \in Creating /\ Create(Creation(c).key, Creation(c).value)
  BY DEF StorageFails, TransferInv, TransferTypeOK
<1>2. FilesTyped' /\ FilesGrow /\ FilesSound'
  <2>1. CASE files' = files
    BY <2>1, FilesStay
  <2>2. CASE call[c].pc \in Creating /\ Create(Creation(c).key, Creation(c).value)
    BY <2>2, AllocateFiles, ContentFiles, RecordFiles, PublishFiles DEF Creating
  <2> QED  BY <1>1, <2>1, <2>2
<1>3. call[c].pc # "idle"
  BY <1>1 DEF Creating
<1>4. PICK code \in Codes \ {"ok"} : Fail(c, code)
  BY <1>1 DEF Codes
<1> QED  BY <1>1, <1>2, <1>3, <1>4, FailKeeps

LEMMA CrashKeeps ==
  ASSUME TransferInv, NEW c \in Callers, Crash(c)
  PROVE  TransferInv'
<1>1. faults' \in Nat /\ Call(c, Idle) /\ UNCHANGED <<files, expired, audit, given, rewrites>>
  BY DEF Crash, TransferInv, TransferTypeOK
<1> QED  BY <1>1, IdleIs, CallTurns DEF TransferInv, TransferTypeOK

\* Nobody's call moves.
LEMMA OthersMove ==
  ASSUME TransferInv, FilesTyped', FilesGrow, FilesSound', UNCHANGED <<call, audit, given, faults>>,
         expired' \subseteq Attestations, rewrites' \in Nat
  PROVE  TransferInv'
<1>1. TransferTypeOK'
  BY DEF TransferInv, TransferTypeOK, FilesTyped
<1>2. CallsSound'
  <2> SUFFICES ASSUME NEW o \in Callers  PROVE CallSound(call[o])'
    BY DEF CallsSound
  <2>1. PICK x \in Calls : x = call[o] /\ CallSound(x)
    BY CallIs
  <2>2. CallSound(x)'
    BY <2>1, CallStays
  <2> QED  BY <2>1, <2>2
<1>3. GiftsSound'
  BY GiftStays DEF TransferInv, TransferTypeOK, GiftsSound
<1> QED  BY <1>1, <1>2, <1>3 DEF TransferInv

LEMMA ExpireKeeps ==
  ASSUME TransferInv, NEW a \in Attestations, Expire(a)
  PROVE  TransferInv'
<1>1. expired' \subseteq Attestations /\ UNCHANGED <<files, call, audit, given, faults, rewrites>>
  BY DEF Expire, TransferInv, TransferTypeOK
<1> QED  BY <1>1, FilesStay, OthersMove DEF TransferInv, TransferTypeOK

LEMMA AppendIs ==
  ASSUME NEW S, NEW s \in Seq(S), NEW z \in S
  PROVE  /\ Append(s, z) \in Seq(S) /\ Append(s, z) # << >>
         /\ DOMAIN Append(s, z) = DOMAIN s \cup {Len(s) + 1} /\ Append(s, z)[Len(s) + 1] = z
         /\ \A i \in DOMAIN s : Append(s, z)[i] = s[i]
OBVIOUS

\* A version is added to a content or a record that exists.
LEMMA Appends ==
  ASSUME TransferInv, NEW key \in FileKeys, Exists(key), key[1] \in {"content", "documents"},
         NEW z \in Kept(key), files' = [files EXCEPT ![key] = Append(@, z)]
  PROVE  /\ FilesTyped' /\ FilesGrow /\ AllocationsSound' /\ SnapshotsSound'
         /\ files'[key] = Append(files[key], z)
         /\ \A j \in FileKeys : j # key => files'[j] = files[j]
<1>1. /\ DOMAIN files = FileKeys /\ files = [k \in FileKeys |-> files[k]]
      /\ \A k \in FileKeys : files[k] \in Seq(Kept(k))
  BY InvParts DEF FilesTyped
<1>2. /\ files'[key] = Append(files[key], z) /\ \A j \in FileKeys : j # key => files'[j] = files[j]
      /\ DOMAIN files' = FileKeys /\ files' = [j \in FileKeys |-> files'[j]]
  BY <1>1
<1>3. /\ files'[key] \in Seq(Kept(key)) /\ files'[key] # << >>
      /\ \A i \in DOMAIN files[key] : i \in DOMAIN files'[key] /\ files'[key][i] = files[key][i]
  BY <1>1, <1>2, AppendIs
<1>4. FilesTyped'
  BY <1>1, <1>2, <1>3 DEF FilesTyped
<1>5. FilesGrow
  BY <1>2, <1>3 DEF FilesGrow, Exists
<1>6. AllocationsSound' /\ SnapshotsSound'
  BY <1>2, AllocationsStay, SnapshotsStay, KeysAre
<1> QED  BY <1>2, <1>4, <1>5, <1>6

LEMMA RewriteKeeps ==
  ASSUME TransferInv, NEW key \in FileKeys, Rewrite(key)
  PROVE  TransferInv'
<1>1. Exists(key) /\ rewrites' \in Nat /\ UNCHANGED <<call, expired, audit, given, faults>>
  BY DEF Rewrite, TransferInv, TransferTypeOK
<1>2. CASE key[1] = "content" /\ \E b \in Pdfs : files' = [files EXCEPT ![key] = Append(@, b)]
  <2>1. PICK b \in Pdfs : files' = [files EXCEPT ![key] = Append(@, b)]
    BY <1>2
  <2>2. Kept(key) = Pdfs
    BY <1>2 DEF Kept
  <2>3. /\ FilesTyped' /\ FilesGrow /\ AllocationsSound' /\ SnapshotsSound'
        /\ \A j \in FileKeys : j # key => files'[j] = files[j]
    BY <1>1, <1>2, <2>1, <2>2, Appends
  <2>4. ASSUME NEW d \in Ids, NEW v \in Ids, NEW k, k = <<"documents", d, v>>  PROVE DocumentSound(k, d, v)'
    <3>1. files'[k] = files[k]
      BY <1>2, <2>3, <2>4, RecordKeys
    <3> QED  BY <2>3, <2>4, <3>1, DocumentStays
  <2> QED  BY <1>1, <2>3, <2>4, OthersMove DEF FilesSound, DocumentsSound, TransferInv, TransferTypeOK
<1>3. CASE key[1] = "documents" /\ \E v \in 1..2 \ {Latest(key).version} :
               files' = [files EXCEPT ![key] = Append(@, [Latest(key) EXCEPT !.version = v])]
  <2>1. PICK n \in 1..2 : files' = [files EXCEPT ![key] = Append(@, [Latest(key) EXCEPT !.version = n])]
    BY <1>3
  <2>2. Kept(key) = StoredDocuments /\ files[key] \in Seq(StoredDocuments) /\ files[key] # << >>
    BY <1>1, <1>3, InvParts DEF Kept, FilesTyped, Exists
  <2>3. PICK s \in StoredDocuments : s = Latest(key) /\ Len(files[key]) \in DOMAIN files[key]
    BY <2>2, LastOf DEF Latest
  <2>4. PICK z : z = [s EXCEPT !.version = n]
    OBVIOUS
  <2>5. z \in StoredDocuments /\ z.ref = s.ref /\ z.att = s.att /\ s.att \in Attestations
    BY <2>4 DEF StoredDocuments
  <2>6. /\ FilesTyped' /\ FilesGrow /\ AllocationsSound' /\ SnapshotsSound'
        /\ files'[key] = Append(files[key], z)
        /\ \A j \in FileKeys : j # key => files'[j] = files[j]
    BY <1>1, <1>3, <2>1, <2>2, <2>3, <2>4, <2>5, Appends
  <2>7. ASSUME NEW d \in Ids, NEW v \in Ids, NEW k, k = <<"documents", d, v>>  PROVE DocumentSound(k, d, v)'
    <3>1. CASE k # key
      BY <2>6, <2>7, <3>1, RecordKeys, DocumentStays
    <3>2. CASE k = key
      <4>1. /\ DOMAIN files'[k] = DOMAIN files[k] \cup {Len(files[k]) + 1} /\ files'[k][Len(files[k]) + 1] = z
            /\ \A i \in DOMAIN files[k] : files'[k][i] = files[k][i]
        BY <2>2, <2>5, <2>6, <3>2, AppendIs
      <4>2. \A i \in DOMAIN files[k] : RecordOf(files[k][i], d, v) /\ files[k][i].att \in Attestations
        BY <2>7, RecordsAre
      <4>3. RecordOf(s, d, v)
        BY <2>3, <3>2, <4>2 DEF Latest
      <4>4. RecordOf(z, d, v)'
        BY <2>5, <2>6, <4>3, AdmittedStays DEF RecordOf
      <4>5. \A i \in DOMAIN files[k] : RecordOf(files[k][i], d, v)'
        <5> SUFFICES ASSUME NEW i \in DOMAIN files[k]  PROVE RecordOf(files[k][i], d, v)'
          OBVIOUS
        <5>1. PICK w : w = files[k][i] /\ RecordOf(w, d, v) /\ w.att \in Attestations
          BY <4>2
        <5>2. RecordOf(w, d, v)'
          BY <2>6, <5>1, AdmittedStays DEF RecordOf
        <5>3. w = files'[k][i]
          BY <4>1, <5>1
        <5> QED  BY <5>2, <5>3
      <4>6. Backed(files[k][1])'
        <5>1. PICK w \in StoredDocuments : w = files[k][1] /\ Backed(w)
          BY <1>1, <2>2, <2>7, <3>2, LastOf, InvParts DEF DocumentsSound, DocumentSound
        <5>2. Backed(w)' /\ w = files'[k][1]
          BY <2>2, <2>6, <3>2, <4>1, <5>1, BackedStays, LastOf
        <5> QED  BY <5>2
      <4>7. \A i \in DOMAIN files'[k] : i \in DOMAIN files[k] \/ i = Len(files[k]) + 1
        BY <4>1
      <4> QED  BY <4>1, <4>4, <4>5, <4>6, <4>7 DEF DocumentSound
    <3> QED  BY <3>1, <3>2
  <2> QED  BY <1>1, <2>6, <2>7, OthersMove DEF FilesSound, DocumentsSound, TransferInv, TransferTypeOK
<1> QED  BY <1>2, <1>3 DEF Rewrite

\* Every step of a caller, a clock or an outside writer keeps the invariant.
LEMMA TransferStepKeeps ==
  ASSUME TransferInv, [TransferNext]_transferVars
  PROVE  TransferInv'
<1>1. ASSUME NEW c \in Callers, BeginCall(c)  PROVE TransferInv'
  BY <1>1, BeginIngestKeeps, BeginSnapshotKeeps, BeginReadKeeps DEF BeginCall
<1>2. ASSUME NEW c \in Callers, Step(c)  PROVE TransferInv'
  BY <1>2, VerifyKeeps, AllocateKeeps, PutContentKeeps, PutDocumentKeeps, NextDocumentKeeps, PinKeeps,
     LookupKeeps, FetchKeeps, PublishSnapshotKeeps, AnswerKeeps DEF Step
<1>3. ASSUME NEW c \in Callers, AuditFails(c) \/ StorageFails(c) \/ Crash(c)  PROVE TransferInv'
  BY <1>3, AuditFailsKeeps, StorageFailsKeeps, CrashKeeps
<1>4. CASE UNCHANGED transferVars
  BY <1>4, FilesStay, OthersMove DEF transferVars, TransferInv, TransferTypeOK
<1> QED  BY <1>1, <1>2, <1>3, <1>4, ExpireKeeps, RewriteKeeps DEF TransferNext

\* Whatever callers, clocks, failures and outside writers do, the objects are sound, every
\* call has established what its place says, and every answer was earned.
THEOREM TransferInvHolds == TransferSpec => []TransferInv
<1>1. TransferInit => TransferInv
  <2> SUFFICES ASSUME TransferInit  PROVE TransferInv
    OBVIOUS
  <2>1. \A k \in FileKeys : files[k] = << >> /\ files[k] \in Seq(Kept(k))
    BY DEF TransferInit
  <2>2. TransferTypeOK
    BY <2>1, IdleIs DEF TransferInit, TransferTypeOK
  <2>3. \A k \in FileKeys : ~Exists(k) /\ DOMAIN files[k] = {}
    BY <2>1 DEF Exists
  <2>4. AllocationsSound /\ SnapshotsSound
    BY <2>3, KeysAre DEF AllocationsSound, SnapshotsSound, Allocated
  <2>5. ASSUME NEW d \in Ids, NEW v \in Ids, NEW k, k = <<"documents", d, v>>  PROVE DocumentSound(k, d, v)
    BY <2>3, <2>5, RecordKeys DEF DocumentSound
  <2>6. CallsSound /\ GiftsSound
    BY IdleIs DEF TransferInit, CallsSound, GiftsSound
  <2> QED  BY <2>2, <2>4, <2>5, <2>6 DEF TransferInv, FilesSound, DocumentsSound
<1> QED  BY <1>1, TransferStepKeeps, PTL DEF TransferSpec

\* Two admissions under one number, or of one export, are the same.
LEMMA AdmittedOnce ==
  ASSUME TransferInv, NEW r \in References, NEW q \in References, NEW a \in Attestations, NEW b \in Attestations,
         AdmittedAs(r, a), AdmittedAs(q, b), r.ver = q.ver \/ a.export = b.export
  PROVE  r = q /\ a = b
<1>1. /\ Exists(ExportKey(a.export)) /\ files[ExportKey(a.export)][1] = [doc |-> r.doc, ver |-> r.ver, att |-> a]
      /\ Exists(ExportKey(b.export)) /\ files[ExportKey(b.export)][1] = [doc |-> q.doc, ver |-> q.ver, att |-> b]
  BY DEF AdmittedAs, Exists
<1>2. a.export \in Allocated /\ b.export \in Allocated
  BY <1>1, AttestationIs DEF Allocated
<1>3. a.export = b.export
  BY <1>1, <1>2, InvParts DEF AllocationsSound
<1>4. a = b /\ r.doc = q.doc /\ r.ver = q.ver
  <2>1. [doc |-> r.doc, ver |-> r.ver, att |-> a] = [doc |-> q.doc, ver |-> q.ver, att |-> b]
    BY <1>1, <1>3
  <2> QED  BY <2>1
<1>5. r.content = q.content
  BY <1>4 DEF AdmittedAs
<1> QED  BY <1>4, <1>5 DEF References

\* HandedOutIsAdmitted for any number of callers, attestations, runs, failures and outside
\* writes: one identity per export, stored before it is handed out; one set of entries per
\* run; the signed content whenever it is read; and an event for every answer.
THEOREM HandedOutAdmitted == TransferSpec => []HandedOutIsAdmitted
<1>1. ASSUME TransferInv  PROVE HandedOutIsAdmitted
  <2>1. \A g \in given : g.op = "ingest" =>
          g.of \in Attestations /\ g.value \in References /\ AdmittedAs(g.value, g.of)
          /\ g.by = g.of.by /\ Exists(DocumentKey(g.value))
    BY <1>1 DEF TransferInv, TransferTypeOK, Gifts, GiftsSound, GiftSound
  <2>2. OneIdentityPerExport
    <3> SUFFICES ASSUME NEW g \in given, NEW h \in given, g.op = "ingest", h.op = "ingest"
                 PROVE  /\ g.of.export = h.of.export <=> g.value.ver = h.value.ver
                        /\ g.of.export = h.of.export => g = h
      BY DEF OneIdentityPerExport
    <3>1. ASSUME g.of.export = h.of.export \/ g.value.ver = h.value.ver
          PROVE  g.of = h.of /\ g.value = h.value /\ g.by = h.by
      BY <1>1, <2>1, <3>1, AdmittedOnce
    <3>2. g \in Gifts /\ h \in Gifts
      BY <1>1 DEF TransferInv, TransferTypeOK
    <3>3. /\ g = [op |-> g.op, by |-> g.by, of |-> g.of, value |-> g.value]
          /\ h = [op |-> h.op, by |-> h.by, of |-> h.of, value |-> h.value]
      BY <3>2 DEF Gifts
    <3> QED  BY <3>1, <3>3
  <2>3. ReturnedIsStored
    <3> SUFFICES ASSUME NEW g \in given, g.op = "ingest", NEW k, k = DocumentKey(g.value)
                 PROVE  /\ Exists(k) /\ Exists(ContentKey(g.value))
                        /\ files[k][1] = [ref |-> g.value, att |-> g.of, version |-> files[k][1].version]
                        /\ files[ContentKey(g.value)][files[k][1].version] = g.of.content
      BY DEF ReturnedIsStored
    <3>1. /\ g.value.doc \in Ids /\ g.value.ver \in Ids /\ k = <<"documents", g.value.doc, g.value.ver>>
          /\ k \in FileKeys /\ Kept(k) = StoredDocuments /\ Exists(k)
      BY <2>1, ReferenceKeys
    <3>2. files[k] \in Seq(StoredDocuments) /\ 1 \in DOMAIN files[k]
      BY <1>1, <3>1, InvParts, LastOf DEF FilesTyped, Exists
    <3>3. PICK s \in StoredDocuments : s = files[k][1] /\ RecordOf(s, g.value.doc, g.value.ver) /\ Backed(s)
      BY <1>1, <3>1, <3>2, RecordsAre, InvParts DEF DocumentsSound, DocumentSound
    <3>4. s.ref \in References /\ s.att \in Attestations /\ s.ref.ver = g.value.ver /\ AdmittedAs(s.ref, s.att)
      BY <3>3 DEF RecordOf, StoredDocuments
    <3>5. s.ref = g.value /\ s.att = g.of
      BY <1>1, <2>1, <3>4, AdmittedOnce
    <3>6. s = [ref |-> g.value, att |-> g.of, version |-> s.version]
      BY <3>5 DEF StoredDocuments
    <3>7. Exists(ContentKey(g.value))
      BY <3>3, <3>5 DEF Backed, Exists
    <3> QED  BY <3>1, <3>3, <3>5, <3>6, <3>7 DEF Backed
  <2>4. ReadsAreAttested
    <3> SUFFICES ASSUME NEW g \in given, g.op \in {"read", "read_snapshot"}
                 PROVE  /\ g.value = g.of.content
                        /\ \E a \in Attestations : a.content = g.value
                              /\ files[<<"exports", a.export>>] = <<[doc |-> g.of.doc, ver |-> g.of.ver, att |-> a]>>
      BY DEF ReadsAreAttested
    <3> QED  BY <1>1 DEF TransferInv, GiftsSound, GiftSound, AdmittedAs, ExportKey
  <2>5. SnapshotsAgree /\ AnswersAreAudited
    BY <1>1 DEF TransferInv, GiftsSound, GiftSound, SnapshotsAgree, AnswersAreAudited, SnapshotKey
  <2> QED  BY <2>2, <2>3, <2>4, <2>5 DEF HandedOutIsAdmitted
<1> QED  BY <1>1, TransferInvHolds, PTL

\* A call is moved by its own caller.
LEMMA OwnMoves ==
  ASSUME TransferInv, [TransferNext]_transferVars, NEW c \in Callers, call'[c] # call[c]
  PROVE  BeginCall(c) \/ Step(c) \/ AuditFails(c) \/ StorageFails(c) \/ Crash(c)
<1>1. call \in [Callers -> Calls]
  BY DEF TransferInv, TransferTypeOK
<1>2. PICK d \in Callers : BeginCall(d) \/ Step(d) \/ AuditFails(d) \/ StorageFails(d) \/ Crash(d)
  BY DEF TransferNext, Expire, Rewrite, transferVars
<1>3. ASSUME BeginCall(d)  PROVE \E y : Call(d, y)
  BY <1>3 DEF BeginCall, BeginIngest, BeginSnapshot, BeginRead
<1>4. ASSUME Verify(d) \/ Allocate(d) \/ PutContent(d) \/ PutDocument(d)  PROVE \E y : Call(d, y)
  BY <1>4 DEF Verify, Allocate, PutContent, PutDocument, Fail
<1>5. ASSUME NextDocument(d) \/ Pin(d) \/ Lookup(d)  PROVE \E y : Call(d, y)
  BY <1>5 DEF NextDocument, Pin, Lookup, Fail
<1>6. ASSUME Fetch(d) \/ PublishSnapshot(d) \/ Answer(d)  PROVE \E y : Call(d, y)
  BY <1>6 DEF Fetch, Accept, PublishSnapshot, Answer, Fail
<1>7. ASSUME AuditFails(d) \/ StorageFails(d) \/ Crash(d)  PROVE \E y : Call(d, y)
  BY <1>7 DEF AuditFails, StorageFails, Crash, Fail
<1>8. PICK y : Call(d, y)
  BY <1>2, <1>3, <1>4, <1>5, <1>6, <1>7 DEF Step
<1>9. d = c
  BY <1>1, <1>8 DEF Call
<1> QED  BY <1>2, <1>9

\* Where a call is after it was refused, or has begun or ended.
LEMMA PlacesAre ==
  ASSUME TransferInv, NEW c \in Callers
  PROVE  /\ BeginCall(c) => call[c].pc = "idle"
         /\ \A code : Fail(c, code) => call'[c].pc = "audit"
         /\ Call(c, Idle) => call'[c].pc = "idle"
         /\ \A y : Call(c, y) => call'[c] = y
<1>1. call \in [Callers -> Calls] /\ call[c] \in Calls
  BY DEF TransferInv, TransferTypeOK
<1>2. \A y : Call(c, y) => call'[c] = y
  BY <1>1 DEF Call
<1>3. \A code : Fail(c, code) => call'[c].pc = "audit"
  BY <1>1, <1>2 DEF Fail, Calls
<1>4. BeginCall(c) => call[c].pc = "idle"
  BY IdleIs DEF BeginCall, BeginIngest, BeginSnapshot, BeginRead
<1> QED  BY <1>2, <1>3, <1>4, IdleIs

\* ChecksAreBinding, for any number of callers, runs and outside writes: a worker only goes
\* on to the content through a record that its run's snapshot was made of, whatever was
\* written since, and an attestation outside its window admits nothing.
THEOREM ChecksBind == TransferSpec => ChecksAreBinding
<1>1. ASSUME TransferInv, [TransferNext]_transferVars, NEW c \in DOMAIN call,
             call[c].pc = "lookup", call[c].op = "read_snapshot", call'[c].pc = "fetch"
      PROVE  \E e \in Latest(<<"snapshots", call[c].run.id>>).entries : e.stored = call'[c].stored
  <2>1. c \in Callers /\ call'[c] # call[c]
    BY <1>1 DEF TransferInv, TransferTypeOK
  <2>2. Lookup(c)
    <3>1. BeginCall(c) \/ Step(c) \/ AuditFails(c) \/ StorageFails(c) \/ Crash(c)
      BY <1>1, <2>1, OwnMoves
    <3>2. ~BeginCall(c) /\ ~AuditFails(c) /\ ~StorageFails(c) /\ ~Crash(c)
      BY <1>1, <2>1, PlacesAre DEF AuditFails, StorageFails, Crash
    <3> QED
      BY <1>1, <3>1, <3>2 DEF Step, Verify, Allocate, PutContent, PutDocument, NextDocument, Pin, Fetch,
         PublishSnapshot, Answer
  <2>3. PICK x \in Calls : x = call[c] /\ CallSound(x) /\ x.pc = "lookup" /\ x.op = "read_snapshot"
    BY <1>1, <2>1, CallIs
  <2>4. ReadSound(x)
    BY <2>3 DEF CallSound
  <2>5. PICK s : s = Latest(DocumentKey(x.ref))
    OBVIOUS
  <2>6. /\ ~\E e \in x.entries : e.stored # s
        /\ Call(c, [x EXCEPT !.pc = "fetch", !.stored = s])
    BY <1>1, <2>1, <2>2, <2>3, <2>5, PlacesAre DEF Lookup
  <2>7. call'[c].stored = s
    BY <1>1, <2>1, <2>3, <2>6, PlacesAre DEF Calls
  <2>8. PICK e \in x.entries : e \in Latest(SnapshotKey(x.run)).entries
    BY <2>3, <2>4 DEF ReadSound
  <2> QED  BY <2>3, <2>6, <2>7, <2>8 DEF SnapshotKey
<1>2. ASSUME TransferInv, [TransferNext]_transferVars, NEW c \in DOMAIN call,
             call[c].pc = "verify", call'[c].pc = "allocate"
      PROVE  call[c].att \notin expired
  <2>1. c \in Callers /\ call'[c] # call[c]
    BY <1>2 DEF TransferInv, TransferTypeOK
  <2>2. Verify(c)
    <3>1. BeginCall(c) \/ Step(c) \/ AuditFails(c) \/ StorageFails(c) \/ Crash(c)
      BY <1>2, <2>1, OwnMoves
    <3>2. ~BeginCall(c) /\ ~AuditFails(c) /\ ~StorageFails(c) /\ ~Crash(c)
      BY <1>2, <2>1, PlacesAre DEF AuditFails, StorageFails, Crash
    <3> QED
      BY <1>2, <3>1, <3>2 DEF Step, Allocate, PutContent, PutDocument, NextDocument, Pin, Lookup, Fetch,
         PublishSnapshot, Answer
  <2> QED  BY <1>2, <2>1, <2>2, PlacesAre DEF Verify, AttestationHolds
<1>3. ASSUME TransferInv, [TransferNext]_transferVars
      PROVE  /\ \A c \in DOMAIN call : call[c].pc = "lookup" /\ call[c].op = "read_snapshot" /\ call'[c].pc = "fetch"
                  => \E e \in Latest(<<"snapshots", call[c].run.id>>).entries : e.stored = call'[c].stored
             /\ \A c \in DOMAIN call :
                  call[c].pc = "verify" /\ call'[c].pc = "allocate" => call[c].att \notin expired
  BY <1>1, <1>2, <1>3
<1> QED  BY <1>3, TransferInvHolds, PTL DEF TransferSpec, ChecksAreBinding, SnapshotReadsArePinned, ExpiredAdmitsNothing
=============================================================================
