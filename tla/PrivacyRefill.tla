--------------------------- MODULE PrivacyRefill ---------------------------
(***************************************************************************)
(* Restoring the original values into a published result, on the local     *)
(* machine only: LocalRestoreCoordinator resolves a result to the current  *)
(* publication and its mapping, LocalPrivacyRefillExecutor restores it     *)
(* when the OCR of both PDFs is certain, and otherwise LocalRefillReview   *)
(* has a human read every uncertain cell, first of the published PDF and   *)
(* then of the restored candidate.  The session lock admits one request at *)
(* a time; the slow work of a restore runs in a thread while publications, *)
(* permissions, the mapping, the source and the OCR engine may change.     *)
(***************************************************************************)
EXTENDS Naturals, FiniteSets

CONSTANTS
  Results,      \* results of the backend
  Pages,        \* the pages of a published PDF, one uncertain cell each at most
  Faults,       \* the parts of Trusted that may change
  MaxVersion,   \* bound: publications of one result
  MaxReviews,   \* OCR reviews one session may hold (2 in the code)
  MaxArchives,  \* archive directories of the workspace (4 in the code)
  MaxIds,       \* bound: reviews ever opened
  MaxFiles      \* bound: files ever written

\* What a restore depends on besides the publication
Trusted == {"source", "mapping", "permission", "engine"}

Stages == {"published", "restored"}

ASSUME RefillAssumption ==
  /\ Faults \subseteq Trusted
  /\ {MaxVersion, MaxReviews, MaxArchives, MaxIds, MaxFiles} \subseteq Nat
  /\ MaxVersion > 0

VARIABLES
  version,    \* version[r]: the current publication of r
  intact,     \* the members of Trusted that are as they were
  cache,      \* cache[r]: the version the coordinator resolved, 0 for none
  reviews,    \* review id -> review: the session's reviews
  opened,     \* how many reviews were opened
  archives,   \* how many archive directories exist
  archived,   \* history: the reviews whose evidence was archived
  files,      \* file id -> what was written there
  restored,   \* file id -> the download entry of the session
  work,       \* the restore running in the worker thread
  reading,    \* the download being read, 0 for none
  delivered   \* history: the last download delivered

env == <<version, intact>>
pool == <<reviews, opened, archives, archived>>
disk == <<files, restored>>
vars == <<env, pool, disk, cache, work, reading, delivered>>

Ids == 1..MaxIds
FileIds == 1..MaxFiles
Idle == [at |-> "idle", r |-> 0, ver |-> 0, id |-> 0]

Init ==
  /\ version = [r \in Results |-> 1] /\ intact = Trusted
  /\ cache = [r \in Results |-> 0]
  /\ reviews = <<>> /\ opened = 0 /\ archives = 0 /\ archived = {}
  /\ files = <<>> /\ restored = <<>>
  /\ work = Idle /\ reading = 0 /\ delivered = [file |-> 0, ok |-> TRUE]

-----------------------------------------------------------------------------
(* Authority. *)

\* LocalRestoreCoordinator._checked: the current publication, the admitted
\* forms, the exported mapping and the original, all readable now
Checked == {"source", "mapping", "permission"} \subseteq intact

\* resolve: what was resolved once is pinned for the life of the session
Resolves(r) == Checked /\ cache[r] \in {0, version[r]}

\* _CurrentPublication.permits and _PinnedPublisher.permits
PublicationPermits(r, ver) == Checked /\ version[r] = ver

\* authorize_review; it compares the identity of the OCR engine with itself as it is
\* now, so it does not notice a changed engine
Authorized(rv) == Resolves(rv.r) /\ version[rv.r] = rv.ver

\* LocalRefillReview._check: lifetime, the engine the review was opened with,
\* authority, evidence
Check(rv) == rv.live /\ "engine" \in intact /\ Authorized(rv)

ReviewOf(r) == {i \in DOMAIN reviews : reviews[i].r = r}

\* A cell is required where the OCR is uncertain; every required cell was read.
AllRead(rv) == rv.items \subseteq rv.read

\* _receipt
WithReceipt(rv) == IF AllRead(rv) THEN [rv EXCEPT !.receipts = @ \cup {rv.stage}] ELSE rv

Idling == work.at = "idle" /\ reading = 0

-----------------------------------------------------------------------------
(* restore *)

\* Capacity is checked before anything is resolved or rendered.
HasCapacity(r) == ReviewOf(r) # {} \/ Cardinality(DOMAIN reviews) < MaxReviews

Restore ==
  /\ Idling
  /\ \E r \in Results :
       /\ HasCapacity(r)
       /\ Resolves(r)
       /\ cache' = [cache EXCEPT ![r] = version[r]]
       /\ work' = [at |-> IF ReviewOf(r) = {} THEN "execute" ELSE "advance",
                   r |-> r, ver |-> version[r],
                   id |-> IF ReviewOf(r) = {} THEN 0 ELSE CHOOSE i \in ReviewOf(r) : TRUE]
  /\ UNCHANGED <<env, pool, disk, reading, delivered>>

\* Any check of the restore fails: nothing is written.
Fail ==
  /\ work.at # "idle"
  /\ work' = Idle
  /\ UNCHANGED <<env, pool, disk, cache, reading, delivered>>

\* LocalPrivacyRefillExecutor.execute: both PDFs read with certainty, and every
\* authority checked again after the slow work
Execute ==
  /\ work.at = "execute"
  /\ PublicationPermits(work.r, work.ver)
  /\ work' = [work EXCEPT !.at = "save"]
  /\ UNCHANGED <<env, pool, disk, cache, reading, delivered>>

\* The cells whose OCR is uncertain, unreadable or misplaced; none when all of
\* the page is certain
UncertainCells == SUBSET Pages

\* LocalRefillReview, bound to one publication, engine and destination; asked is
\* history: <<stage, page, returned>>, the images that were asked for
NewReview(r, ver, items) ==
  [r |-> r, ver |-> ver, stage |-> "published", items |-> items,
   read |-> {}, seen |-> {}, asked |-> {}, receipts |-> {}, complete |-> FALSE, live |-> TRUE]

\* RefillOCRFailure: a review is opened on the published PDF
OpenReview ==
  /\ work.at = "execute"
  /\ opened < MaxIds
  /\ \E items \in UncertainCells :
       LET rv == NewReview(work.r, work.ver, items)
       IN  /\ Check(rv)
           /\ reviews' = [i \in DOMAIN reviews \cup {opened + 1} |->
                            IF i = opened + 1 THEN rv ELSE reviews[i]]
  /\ opened' = opened + 1
  /\ work' = Idle
  /\ UNCHANGED <<env, disk, cache, archives, archived, reading, delivered>>

\* What was seen and read before counts for the next stage as well.
RePrepared(rv, items) ==
  [rv EXCEPT !.stage = "restored", !.items = items]

\* A stage is prepared afresh: rendered, measured, nothing seen or read yet.
Prepared(rv, items) ==
  [rv EXCEPT !.stage = "restored", !.items = items, !.read = {}, !.seen = {}]

\* advance, in the published stage: the receipt, then the candidate is written
\* and measured; it may need a review of its own
AdvancePublished ==
  /\ work.at = "advance"
  /\ LET rv == reviews[work.id] IN
       /\ Check(rv)
       /\ rv.stage = "published" /\ AllRead(rv)
       /\ \E items \in UncertainCells :
            LET next == Prepared(WithReceipt(rv), items) IN
              /\ reviews' = [reviews EXCEPT ![work.id] = WithReceipt(next)]
              /\ work' = IF AllRead(next) THEN [work EXCEPT !.at = "complete"] ELSE Idle
  /\ UNCHANGED <<env, disk, cache, opened, archives, archived, reading, delivered>>

\* advance raises after the receipt: before the candidate was prepared, or at the
\* last check after it was
AdvanceFails ==
  /\ work.at = "advance"
  /\ LET rv == reviews[work.id] IN
       /\ Check(rv)
       /\ rv.stage = "published" /\ AllRead(rv)
       /\ \/ reviews' = [reviews EXCEPT ![work.id] = WithReceipt(rv)]
          \/ \E items \in UncertainCells :
               reviews' = [reviews EXCEPT ![work.id] = Prepared(WithReceipt(rv), items)]
  /\ work' = Idle
  /\ UNCHANGED <<env, disk, cache, opened, archives, archived, reading, delivered>>

\* advance, in the restored stage
AdvanceRestored ==
  /\ work.at = "advance"
  /\ LET rv == reviews[work.id] IN
       /\ Check(rv)
       /\ rv.stage = "restored" /\ AllRead(rv)
       /\ reviews' = [reviews EXCEPT ![work.id] = WithReceipt(rv)]
       /\ work' = [work EXCEPT !.at = IF rv.complete THEN "save" ELSE "complete"]
  /\ UNCHANGED <<env, disk, cache, opened, archives, archived, reading, delivered>>

Complete ==
  /\ work.at = "complete"
  /\ Check(reviews[work.id])
  /\ reviews' = [reviews EXCEPT ![work.id].complete = TRUE]
  /\ work' = [work EXCEPT !.at = "save"]
  /\ UNCHANGED <<env, disk, cache, opened, archives, archived, reading, delivered>>

\* The file of a review has its own fixed destination.
FilesOf(id) == {f \in DOMAIN restored : id # 0 /\ restored[f].id = id}

SavesNew(id) == FilesOf(id) = {}

\* _save_new, or the same file again for a review that already has one
Save ==
  /\ work.at = "save"
  /\ PublicationPermits(work.r, work.ver)
  /\ LET entry == [r |-> work.r, ver |-> work.ver, id |-> work.id]
         f == Cardinality(DOMAIN files) + 1
     IN  IF SavesNew(work.id)
         THEN /\ f \in FileIds
              /\ files' = [g \in DOMAIN files \cup {f} |-> IF g = f THEN entry ELSE files[g]]
              /\ restored' = [g \in DOMAIN restored \cup {f} |->
                                IF g = f THEN entry ELSE restored[g]]
         ELSE UNCHANGED disk
  /\ work' = Idle
  /\ UNCHANGED <<env, pool, cache, reading, delivered>>

-----------------------------------------------------------------------------
(* The OCR review. *)

\* image: the page is recorded as seen before the second check.  When the authority
\* is lost in between nothing is returned, and the page stays recorded.
ViewImage ==
  /\ Idling
  /\ \E i \in DOMAIN reviews, p \in Pages, returned \in BOOLEAN :
       /\ Check(reviews[i])
       /\ reviews' = [reviews EXCEPT ![i].seen = @ \cup {p},
                                     ![i].asked = @ \cup {<<reviews[i].stage, p, returned>>}]
  /\ UNCHANGED <<env, disk, cache, opened, archives, archived, work, reading, delivered>>

\* confirm: the reading is kept; its receipt waits when the check after it fails.
ConfirmReading ==
  /\ Idling
  /\ \E i \in DOMAIN reviews : \E p \in reviews[i].items :
       LET rv == [reviews[i] EXCEPT !.read = @ \cup {p}] IN
         /\ Check(reviews[i])
         /\ ~reviews[i].complete
         /\ p \in reviews[i].seen
         /\ \E next \in {rv, WithReceipt(rv)} : reviews' = [reviews EXCEPT ![i] = next]
  /\ UNCHANGED <<env, disk, cache, opened, archives, archived, work, reading, delivered>>

\* A review ends only by an explicit restart, which archives its evidence even
\* when it has expired.
Archivable(rv) == Authorized(rv) /\ ~rv.complete

RestartReview ==
  /\ Idling
  /\ archives < MaxArchives
  /\ \E i \in DOMAIN reviews :
       /\ Archivable(reviews[i])
       /\ archived' = archived \cup {i}
       /\ archives' = archives + 1
       /\ reviews' = [j \in DOMAIN reviews \ {i} |-> reviews[j]]
  /\ UNCHANGED <<env, disk, cache, opened, work, reading, delivered>>

\* The archive was written, but the authority was gone when it was to be used.
RestartFails ==
  /\ Idling
  /\ archives < MaxArchives
  /\ \E i \in DOMAIN reviews : Archivable(reviews[i])
  /\ archives' = archives + 1
  /\ UNCHANGED <<env, disk, cache, reviews, opened, archived, work, reading, delivered>>

-----------------------------------------------------------------------------
(* The download: _read_restored checks before and after it reads. *)

\* require_current
DownloadPermitted(e) ==
  /\ Resolves(e.r)
  /\ PublicationPermits(e.r, e.ver)
  /\ e.id # 0 => /\ e.id \in DOMAIN reviews
                 /\ Check(reviews[e.id])
                 /\ reviews[e.id].complete /\ reviews[e.id].receipts = Stages

StartDownload ==
  /\ Idling
  /\ \E f \in DOMAIN restored :
       /\ DownloadPermitted(restored[f])
       /\ reading' = f
  /\ UNCHANGED <<env, pool, disk, cache, work, delivered>>

Rechecks(f) == DownloadPermitted(restored[f])

Deliver ==
  /\ reading # 0
  /\ Rechecks(reading)
  /\ delivered' = [file |-> reading, ok |-> DownloadPermitted(files[reading])]
  /\ reading' = 0
  /\ UNCHANGED <<env, pool, disk, cache, work>>

RefuseDownload ==
  /\ reading # 0
  /\ ~Rechecks(reading)
  /\ reading' = 0
  /\ UNCHANGED <<env, pool, disk, cache, work, delivered>>

-----------------------------------------------------------------------------
(* What happens around the session. *)

NewPublication ==
  /\ \E r \in Results :
       version[r] < MaxVersion /\ version' = [version EXCEPT ![r] = @ + 1]
  /\ UNCHANGED <<intact, pool, disk, cache, work, reading, delivered>>

TrustChanges ==
  /\ \E t \in Faults : intact' = IF t \in intact THEN intact \ {t} ELSE intact \cup {t}
  /\ UNCHANGED <<version, pool, disk, cache, work, reading, delivered>>

ReviewLapses ==
  /\ \E i \in DOMAIN reviews :
       reviews[i].live /\ reviews' = [reviews EXCEPT ![i].live = FALSE]
  /\ UNCHANGED <<env, disk, cache, opened, archives, archived, work, reading, delivered>>

Next ==
  \/ Restore \/ Fail \/ Execute \/ OpenReview \/ AdvancePublished
  \/ AdvanceFails \/ AdvanceRestored
  \/ Complete \/ Save \/ ViewImage \/ ConfirmReading \/ RestartReview \/ RestartFails
  \/ StartDownload \/ Deliver \/ RefuseDownload
  \/ NewPublication \/ TrustChanges \/ ReviewLapses

Spec == Init /\ [][Next]_vars

-----------------------------------------------------------------------------
\* Every variable has its type.
TypeOK ==
  /\ version \in [Results -> 1..MaxVersion] /\ intact \subseteq Trusted
  /\ cache \in [Results -> 0..MaxVersion]
  /\ DOMAIN reviews \subseteq 1..opened /\ opened \in 0..MaxIds
  /\ Cardinality(DOMAIN reviews) <= MaxReviews
  /\ archives \in 0..MaxArchives /\ archived \subseteq Ids
  /\ \A i \in DOMAIN reviews :
       /\ reviews[i].r \in Results /\ reviews[i].stage \in Stages
       /\ reviews[i].read \subseteq Pages /\ reviews[i].seen \subseteq Pages
       /\ reviews[i].items \subseteq Pages
       /\ reviews[i].asked \subseteq Stages \X Pages \X BOOLEAN
  /\ DOMAIN restored \subseteq DOMAIN files /\ DOMAIN files \subseteq FileIds
  /\ work.at \in {"idle", "execute", "advance", "complete", "save"}
  /\ reading \in {0} \cup FileIds

\* A receipt stands for readings of its own stage: every cell of the stage was read,
\* and each on a page whose image was asked for in that very review and stage while its
\* authority stood; the readings of the published PDF never count for the restored
\* candidate.
ReceiptsWereRead ==
  \A i \in DOMAIN reviews :
    LET rv == reviews[i] IN
      /\ \A p \in rv.read : \E returned \in BOOLEAN : <<rv.stage, p, returned>> \in rv.asked
      /\ rv.stage \in rv.receipts => AllRead(rv)
      /\ rv.complete => rv.receipts = Stages
      /\ rv.stage = "restored" => "published" \in rv.receipts

\* "Exact rendered page must be viewed" (privacy_refill_review.py:424): a cell is read
\* on a page whose image was returned.  image records the page before its second check,
\* so this fails when that check does and the authority comes back.
ReadPagesWereShown ==
  \A i \in DOMAIN reviews : \A p \in reviews[i].read :
    <<reviews[i].stage, p, TRUE>> \in reviews[i].asked

\* What was written came from a completed review or from no review at all, of
\* the publication it names, and a review writes one file only, however often
\* the restore is repeated.
OneFilePerReview ==
  \A f, g \in DOMAIN files : files[f].id # 0 /\ files[f].id = files[g].id => f = g

\* Evidence is never silently dropped: a review leaves the session only after
\* its evidence was archived, and a completed one never leaves it.
EvidenceIsArchived ==
  [][\A i \in DOMAIN reviews \ DOMAIN reviews' : i \in archived' /\ ~reviews[i].complete]_vars

\* A PDF with the original values is delivered only while its publication, the
\* permission, the mapping, the source and its review still stand, also when
\* they changed while the file was being read.
DeliveredIsCurrent == delivered.ok

\* A restored file is of the publication that was current and pinned when it
\* was written, and of a review that has both receipts.
WrittenIsAuthorized ==
  [][\A f \in DOMAIN files' \ DOMAIN files :
       /\ version[files'[f].r] = files'[f].ver /\ cache[files'[f].r] = files'[f].ver
       /\ files'[f].id # 0 => /\ files'[f].id \in DOMAIN reviews
                              /\ reviews[files'[f].id].receipts = Stages]_vars

\* The restored files are those of reviews whose cells were read stage by stage, and
\* only current ones are handed out (LocalRefillReview,
\* LocalRestoreCoordinator.require_current).
RestoredIsEarned == ReceiptsWereRead /\ OneFilePerReview /\ DeliveredIsCurrent
=============================================================================
