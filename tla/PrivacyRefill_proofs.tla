------------------------ MODULE PrivacyRefill_proofs -----------------------
(***************************************************************************)
(* Theorems about the local privacy session.  The way back: what is        *)
(* restored, for every set of results, pages and faults and every bound on *)
(* reviews, archives and files.  The way out: what is exported, for every  *)
(* set of sources, pages and regions and every bound on revisions,         *)
(* approvals and previews.                                                 *)
(***************************************************************************)
EXTENDS PrivacyRefill, PrivacyExport, FiniteSetTheorems, TLAPS

ReviewRows ==
  [r : Results, ver : Nat, stage : Stages, items : SUBSET Pages, read : SUBSET Pages,
   seen : SUBSET Pages, asked : SUBSET (Stages \X Pages \X BOOLEAN), receipts : SUBSET Stages,
   complete : BOOLEAN, live : BOOLEAN]
FileRows == [r : Results, ver : Nat, id : Nat]
WorkRows == [at : {"idle", "execute", "advance", "complete", "save"}, r : Results \cup {0},
             ver : Nat, id : Nat]

\* Types of the session's state; a review's id is among those ever opened.
Types ==
  /\ version \in [Results -> 1..MaxVersion] /\ intact \subseteq Trusted
  /\ cache \in [Results -> 0..MaxVersion]
  /\ opened \in 0..MaxIds
  /\ reviews \in [DOMAIN reviews -> ReviewRows] /\ DOMAIN reviews \subseteq 1..opened
  /\ archives \in 0..MaxArchives /\ archived \subseteq Ids
  /\ work \in WorkRows
  /\ reading \in {0} \cup FileIds

\* The session holds at most as many reviews as it may, one more at most while one is opened.
Room ==
  /\ Cardinality(DOMAIN reviews) <= MaxReviews
  /\ work.at = "execute" => Cardinality(DOMAIN reviews) < MaxReviews

\* A page counts as seen once its image was asked for at this stage; what was read was
\* seen; and the receipts are those of the stages that were passed and of a stage that is
\* read to the end.
Honest(rv) ==
  /\ rv.read \subseteq rv.seen
  /\ \A p \in rv.seen : \E returned \in BOOLEAN : <<rv.stage, p, returned>> \in rv.asked
  /\ rv.stage \in rv.receipts => AllRead(rv)
  /\ rv.complete => rv.receipts = Stages
  /\ rv.stage = "restored" => "published" \in rv.receipts
  /\ rv.stage = "published" => "restored" \notin rv.receipts

ReviewsHonest == \A i \in DOMAIN reviews : Honest(reviews[i])

\* The restore under way is of the pinned publication and holds what its stage needs.
WorkSound ==
  /\ work.at # "idle" => work.r \in Results /\ cache[work.r] = work.ver
  /\ work.at = "execute" => work.id = 0
  /\ work.at \in {"advance", "complete"} => work.id \in DOMAIN reviews
  /\ work.at = "complete" => reviews[work.id].receipts = Stages
  /\ work.at = "save" /\ work.id # 0 =>
       work.id \in DOMAIN reviews /\ reviews[work.id].receipts = Stages

\* The files of the disk are the session's downloads, numbered in the order they were
\* written, one for each review.
FilesSound ==
  /\ restored = files
  /\ \E n \in 0..MaxFiles : files \in [1..n -> FileRows]
  /\ OneFilePerReview
  /\ delivered.ok

Inv == Types /\ Room /\ ReviewsHonest /\ WorkSound /\ FilesSound

-----------------------------------------------------------------------------
(***************************************************************************)
(* Reviews and files                                                       *)
(***************************************************************************)

\* The session holds a finite number of reviews.
LEMMA ReviewsFinite ==
  ASSUME Types
  PROVE  IsFiniteSet(DOMAIN reviews) /\ Cardinality(DOMAIN reviews) \in Nat
<1>1. opened \in Int
  BY RefillAssumption DEF Types
<1>2. IsFiniteSet(1..opened)
  BY <1>1, FS_Interval
<1> QED
  BY <1>2, FS_Subset, FS_CardinalityType DEF Types

\* A review that is replaced by an honest one leaves every other as it was.
LEMMA ReviewReplaced ==
  ASSUME Types, ReviewsHonest, NEW i \in DOMAIN reviews, NEW rv \in ReviewRows,
         reviews' = [reviews EXCEPT ![i] = rv], Honest(rv)
  PROVE  /\ DOMAIN reviews' = DOMAIN reviews
         /\ reviews' \in [DOMAIN reviews -> ReviewRows]
         /\ reviews'[i] = rv
         /\ \A j \in DOMAIN reviews \ {i} : reviews'[j] = reviews[j]
         /\ ReviewsHonest'
<1>1. /\ DOMAIN reviews' = DOMAIN reviews
      /\ reviews' \in [DOMAIN reviews -> ReviewRows]
      /\ reviews'[i] = rv
      /\ \A j \in DOMAIN reviews \ {i} : reviews'[j] = reviews[j]
  BY DEF Types
<1>2. \A j \in DOMAIN reviews : Honest(reviews'[j])
  BY <1>1 DEF ReviewsHonest
<1> QED
  BY <1>1, <1>2 DEF ReviewsHonest

\* _receipt leaves a review as it is but for the receipt of a stage that was read.
LEMMA ReceiptFields ==
  ASSUME NEW rv \in ReviewRows
  PROVE  /\ WithReceipt(rv) \in ReviewRows
         /\ WithReceipt(rv).receipts =
              IF AllRead(rv) THEN rv.receipts \cup {rv.stage} ELSE rv.receipts
         /\ WithReceipt(rv).stage = rv.stage
         /\ WithReceipt(rv).items = rv.items
         /\ WithReceipt(rv).read = rv.read
         /\ WithReceipt(rv).seen = rv.seen
         /\ WithReceipt(rv).asked = rv.asked
         /\ WithReceipt(rv).complete = rv.complete
         /\ WithReceipt(rv).r = rv.r
         /\ WithReceipt(rv).ver = rv.ver
<1>1. CASE AllRead(rv)
  BY <1>1 DEF WithReceipt, ReviewRows
<1>2. CASE ~AllRead(rv)
  BY <1>2 DEF WithReceipt
<1> QED
  BY <1>1, <1>2

\* Preparing the restored candidate forgets what was seen and read of the published PDF.
LEMMA PreparedFields ==
  ASSUME NEW rv \in ReviewRows, NEW items \in SUBSET Pages
  PROVE  /\ Prepared(rv, items) \in ReviewRows
         /\ Prepared(rv, items).receipts = rv.receipts
         /\ Prepared(rv, items).stage = "restored"
         /\ Prepared(rv, items).read = {}
         /\ Prepared(rv, items).seen = {}
         /\ Prepared(rv, items).complete = rv.complete
BY DEF Prepared, ReviewRows, Stages

\* A receipt is given for a stage that is read to the end.
LEMMA ReceiptHonest ==
  ASSUME NEW rv \in ReviewRows, Honest(rv)
  PROVE  Honest(WithReceipt(rv))
<1>1. CASE AllRead(rv)
  <2>1. WithReceipt(rv).receipts = rv.receipts \cup {rv.stage}
    BY <1>1, ReceiptFields
  <2>2. AllRead(WithReceipt(rv))
    BY <1>1, ReceiptFields DEF AllRead
  <2>3. rv.stage \in Stages /\ rv.receipts \subseteq Stages
    BY DEF ReviewRows
  <2> QED
    BY <2>1, <2>2, <2>3, ReceiptFields DEF Honest, Stages
<1>2. CASE ~AllRead(rv)
  BY <1>2 DEF WithReceipt
<1> QED
  BY <1>1, <1>2

\* The restored stage begins with the receipt of the published one and nothing read.
LEMMA PreparedHonest ==
  ASSUME NEW rv \in ReviewRows, NEW items \in SUBSET Pages, Honest(rv),
         rv.stage = "published", AllRead(rv)
  PROVE  /\ Prepared(WithReceipt(rv), items) \in ReviewRows
         /\ Honest(Prepared(WithReceipt(rv), items))
         /\ Prepared(WithReceipt(rv), items).stage = "restored"
         /\ "published" \in Prepared(WithReceipt(rv), items).receipts
<1>1. /\ WithReceipt(rv) \in ReviewRows
      /\ WithReceipt(rv).receipts = rv.receipts \cup {"published"}
      /\ WithReceipt(rv).complete = rv.complete
  BY ReceiptFields
<1> DEFINE next == Prepared(WithReceipt(rv), items)
<1>2. /\ next \in ReviewRows /\ next.receipts = rv.receipts \cup {"published"}
      /\ next.stage = "restored" /\ next.read = {} /\ next.seen = {}
      /\ next.complete = rv.complete
  BY <1>1, PreparedFields
<1> HIDE DEF next
<1>3. "restored" \notin next.receipts /\ "published" \in next.receipts
  BY <1>2 DEF Honest
<1>4. ~next.complete
  BY <1>2 DEF Honest, Stages
<1>5. Honest(next)
  BY <1>2, <1>3, <1>4 DEF Honest
<1> QED
  BY <1>2, <1>3, <1>5 DEF next

\* The next file has a number of its own.
LEMMA NextFile ==
  ASSUME FilesSound
  PROVE  \E n \in 0..MaxFiles : /\ files \in [1..n -> FileRows]
                                /\ Cardinality(DOMAIN files) = n
<1>1. PICK n \in 0..MaxFiles : files \in [1..n -> FileRows]
  BY DEF FilesSound
<1>2. DOMAIN files = 1..n
  BY <1>1
<1>3. Cardinality(1..n) = n
  BY FS_Interval, RefillAssumption
<1> QED
  BY <1>1, <1>2, <1>3

-----------------------------------------------------------------------------
(***************************************************************************)
(* What is left alone stays sound                                          *)
(***************************************************************************)

LEMMA ReviewsStay ==
  ASSUME ReviewsHonest, UNCHANGED reviews
  PROVE  ReviewsHonest'
BY DEF ReviewsHonest

LEMMA FilesStay ==
  ASSUME FilesSound, UNCHANGED <<files, restored, delivered>>
  PROVE  FilesSound'
BY DEF FilesSound, OneFilePerReview

-----------------------------------------------------------------------------
(***************************************************************************)
(* The steps of a restore                                                  *)
(***************************************************************************)

\* A restore pins the current publication and finds the review it goes on with, or room
\* for one.
LEMMA RestoreKeeps ==
  ASSUME Inv, Restore
  PROVE  Inv'
<1>1. PICK r \in Results :
        /\ HasCapacity(r)
        /\ cache' = [cache EXCEPT ![r] = version[r]]
        /\ work' = [at |-> IF ReviewOf(r) = {} THEN "execute" ELSE "advance",
                    r |-> r, ver |-> version[r],
                    id |-> IF ReviewOf(r) = {} THEN 0 ELSE CHOOSE i \in ReviewOf(r) : TRUE]
  BY DEF Restore
<1>2. UNCHANGED <<version, intact, reviews, opened, archives, archived, files, restored,
                  reading, delivered>>
  BY DEF Restore, env, pool, disk
<1>3. version[r] \in 1..MaxVersion /\ version[r] \in Nat /\ version[r] \in 0..MaxVersion
  BY RefillAssumption DEF Inv, Types
<1>4. ReviewOf(r) \subseteq DOMAIN reviews /\ DOMAIN reviews \subseteq Nat
  BY RefillAssumption DEF ReviewOf, Inv, Types
<1>5. ReviewOf(r) # {} => (CHOOSE i \in ReviewOf(r) : TRUE) \in ReviewOf(r)
  OBVIOUS
<1>6. /\ work'.at \in {"execute", "advance"} /\ work'.r = r /\ work'.ver = version[r]
      /\ work'.at = "execute" => work'.id = 0 /\ ReviewOf(r) = {}
      /\ work'.at = "advance" => work'.id \in DOMAIN reviews
      /\ work' \in WorkRows
  BY <1>1, <1>3, <1>4, <1>5 DEF WorkRows
<1>7. Types'
  BY <1>1, <1>2, <1>3, <1>6 DEF Inv, Types
<1>8. Room'
  BY <1>1, <1>2, <1>6 DEF Inv, Room, HasCapacity
<1>9. WorkSound'
  BY <1>1, <1>2, <1>6 DEF Inv, Types, WorkSound
<1> QED
  BY <1>2, <1>7, <1>8, <1>9, ReviewsStay, FilesStay DEF Inv

LEMMA FailKeeps ==
  ASSUME Inv, Fail
  PROVE  Inv'
<1>1. UNCHANGED <<version, intact, reviews, opened, archives, archived, files, restored,
                  cache, reading, delivered>>
  BY DEF Fail, env, pool, disk
<1>2. work' = Idle /\ work'.at = "idle" /\ work' \in WorkRows
  BY DEF Fail, Idle, WorkRows
<1>3. Types' /\ Room' /\ WorkSound'
  BY <1>1, <1>2 DEF Inv, Types, Room, WorkSound
<1> QED
  BY <1>1, <1>3, ReviewsStay, FilesStay DEF Inv

LEMMA ExecuteKeeps ==
  ASSUME Inv, Execute
  PROVE  Inv'
<1>1. UNCHANGED <<version, intact, reviews, opened, archives, archived, files, restored,
                  cache, reading, delivered>>
  BY DEF Execute, env, pool, disk
<1>2. /\ work.at = "execute" /\ work'.at = "save" /\ work'.r = work.r /\ work'.ver = work.ver
      /\ work'.id = work.id /\ work' \in WorkRows
  BY DEF Execute, Inv, Types, WorkRows
<1>3. Types' /\ Room' /\ WorkSound'
  BY <1>1, <1>2 DEF Inv, Types, Room, WorkSound
<1> QED
  BY <1>1, <1>3, ReviewsStay, FilesStay DEF Inv

\* The review is new, and there was room for it.
LEMMA OpenReviewKeeps ==
  ASSUME Inv, OpenReview
  PROVE  Inv'
<1> DEFINE new == opened + 1
<1>1. PICK items \in SUBSET Pages :
        reviews' = [i \in DOMAIN reviews \cup {new} |->
                      IF i = new THEN NewReview(work.r, work.ver, items) ELSE reviews[i]]
  BY DEF OpenReview, UncertainCells
<1>2. UNCHANGED <<version, intact, archives, archived, files, restored,
                  cache, reading, delivered>>
  BY DEF OpenReview, env, disk
<1>3. /\ work.at = "execute" /\ opened < MaxIds /\ opened' = new
      /\ work' = Idle /\ work'.at = "idle" /\ work' \in WorkRows
  BY DEF OpenReview, Idle, WorkRows
<1>4. /\ opened \in Nat /\ new \in 0..MaxIds /\ new \notin DOMAIN reviews
      /\ DOMAIN reviews \cup {new} \subseteq 1..new
  BY <1>3, RefillAssumption DEF Inv, Types
<1> DEFINE rv == NewReview(work.r, work.ver, items)
<1>5. /\ rv \in ReviewRows /\ rv.read = {} /\ rv.seen = {} /\ ~rv.complete
      /\ rv.receipts = {} /\ rv.stage = "published"
  <2>1. work.r \in Results /\ work.ver \in Nat
    BY <1>3 DEF Inv, Types, WorkSound, WorkRows
  <2> QED
    BY <2>1 DEF NewReview, ReviewRows, Stages
<1> HIDE DEF rv, new
<1>6. /\ DOMAIN reviews' = DOMAIN reviews \cup {new}
      /\ reviews'[new] = rv
      /\ \A i \in DOMAIN reviews : reviews'[i] = reviews[i]
      /\ reviews' \in [DOMAIN reviews' -> ReviewRows]
  BY <1>1, <1>4, <1>5 DEF Inv, Types, rv
<1>7. Types'
  BY <1>2, <1>3, <1>4, <1>6 DEF Inv, Types
<1>8. Room'
  <2>1. IsFiniteSet(DOMAIN reviews) /\ Cardinality(DOMAIN reviews) \in Nat
    BY ReviewsFinite DEF Inv
  <2>2. Cardinality(DOMAIN reviews') = Cardinality(DOMAIN reviews) + 1
    BY <1>4, <1>6, <2>1, FS_AddElement
  <2>3. Cardinality(DOMAIN reviews) < MaxReviews
    BY <1>3 DEF Inv, Room
  <2> QED
    BY <1>3, <2>1, <2>2, <2>3, RefillAssumption DEF Room
<1>9. ReviewsHonest'
  <2>1. Honest(rv)
    BY <1>5 DEF Honest
  <2>2. \A i \in DOMAIN reviews : Honest(reviews'[i])
    BY <1>2, <1>6 DEF Inv, ReviewsHonest
  <2> QED
    BY <1>6, <2>1, <2>2 DEF ReviewsHonest
<1>10. WorkSound'
  BY <1>3 DEF WorkSound
<1> QED
  BY <1>2, <1>7, <1>8, <1>9, <1>10, FilesStay DEF Inv

\* advance and its completion change the review of the restore and no other.
LEMMA WorkReview ==
  ASSUME Inv, work.at \in {"advance", "complete"}
  PROVE  /\ work.id \in DOMAIN reviews
         /\ reviews[work.id] \in ReviewRows
         /\ Honest(reviews[work.id])
         /\ work.r \in Results /\ work.ver \in Nat /\ work.id \in Nat
         /\ cache[work.r] = work.ver
BY DEF Inv, Types, WorkSound, ReviewsHonest, WorkRows

LEMMA AdvancePublishedKeeps ==
  ASSUME Inv, AdvancePublished
  PROVE  Inv'
<1> DEFINE i == work.id
           rv == reviews[i]
<1>1. PICK items \in SUBSET Pages :
        LET next == Prepared(WithReceipt(rv), items) IN
          /\ reviews' = [reviews EXCEPT ![i] = WithReceipt(next)]
          /\ work' = IF AllRead(next) THEN [work EXCEPT !.at = "complete"] ELSE Idle
  BY DEF AdvancePublished, UncertainCells
<1>2. UNCHANGED <<version, intact, opened, archives, archived, files, restored,
                  cache, reading, delivered>>
  BY DEF AdvancePublished, env, disk
<1>3. work.at = "advance" /\ rv.stage = "published" /\ AllRead(rv)
  BY DEF AdvancePublished
<1>4. /\ i \in DOMAIN reviews /\ rv \in ReviewRows /\ Honest(rv)
      /\ work.r \in Results /\ work.ver \in Nat /\ work.id \in Nat /\ cache[work.r] = work.ver
  BY <1>3, WorkReview
<1> DEFINE next == Prepared(WithReceipt(rv), items)
           new == WithReceipt(next)
<1> HIDE DEF i, rv
<1>5. next \in ReviewRows /\ Honest(next) /\ "published" \in next.receipts /\ next.stage = "restored"
  BY <1>3, <1>4, PreparedHonest
<1> HIDE DEF next
<1>6. /\ new \in ReviewRows
      /\ new.receipts = IF AllRead(next) THEN next.receipts \cup {"restored"} ELSE next.receipts
  BY <1>5, ReceiptFields
<1>7. Honest(new)
  BY <1>5, ReceiptHonest
<1> HIDE DEF new
<1>8. new.receipts \subseteq Stages
  BY <1>6 DEF ReviewRows
<1>10. reviews' = [reviews EXCEPT ![i] = new]
  BY <1>1 DEF new, next
<1>11. /\ DOMAIN reviews' = DOMAIN reviews
       /\ reviews' \in [DOMAIN reviews -> ReviewRows]
       /\ reviews'[i] = new
       /\ ReviewsHonest'
  BY <1>4, <1>6, <1>7, <1>10, ReviewReplaced DEF Inv
<1>12. \/ AllRead(next) /\ work' = [work EXCEPT !.at = "complete"]
       \/ work' = Idle
  BY <1>1 DEF next
<1>13. CASE AllRead(next) /\ work' = [work EXCEPT !.at = "complete"]
  <2>1. /\ work'.at = "complete" /\ work'.r = work.r /\ work'.ver = work.ver /\ work'.id = i
        /\ work' \in WorkRows
    BY <1>4, <1>13 DEF i, WorkRows, Inv, Types
  <2>2. new.receipts = Stages
    BY <1>5, <1>6, <1>8, <1>13 DEF Stages
  <2>3. Types' /\ Room'
    BY <1>2, <1>11, <2>1 DEF Inv, Types, Room
  <2>4. WorkSound'
    BY <1>2, <1>4, <1>11, <2>1, <2>2 DEF WorkSound, i
  <2> QED
    BY <1>2, <1>11, <2>3, <2>4, FilesStay DEF Inv
<1>14. CASE work' = Idle
  <2>1. work'.at = "idle" /\ work' \in WorkRows
    BY <1>14 DEF Idle, WorkRows
  <2>2. Types' /\ Room' /\ WorkSound'
    BY <1>2, <1>11, <2>1 DEF Inv, Types, Room, WorkSound
  <2> QED
    BY <1>2, <1>11, <2>2, FilesStay DEF Inv
<1> QED
  BY <1>12, <1>13, <1>14

\* What a failing advance leaves behind is a review to go on with.
LEMMA AdvanceFailsKeeps ==
  ASSUME Inv, AdvanceFails
  PROVE  Inv'
<1> DEFINE i == work.id
           rv == reviews[i]
<1>1. /\ work.at = "advance" /\ rv.stage = "published" /\ AllRead(rv)
      /\ \/ reviews' = [reviews EXCEPT ![i] = WithReceipt(rv)]
         \/ \E items \in SUBSET Pages :
              reviews' = [reviews EXCEPT ![i] = Prepared(WithReceipt(rv), items)]
  BY DEF AdvanceFails, UncertainCells
<1>2. UNCHANGED <<version, intact, opened, archives, archived, files, restored,
                  cache, reading, delivered>>
  BY DEF AdvanceFails, env, disk
<1>3. work' = Idle /\ work'.at = "idle" /\ work' \in WorkRows
  BY DEF AdvanceFails, Idle, WorkRows
<1>4. i \in DOMAIN reviews /\ rv \in ReviewRows /\ Honest(rv)
  BY <1>1, WorkReview
<1> HIDE DEF i, rv
<1>5. PICK new \in ReviewRows : Honest(new) /\ reviews' = [reviews EXCEPT ![i] = new]
  <2>1. WithReceipt(rv) \in ReviewRows /\ Honest(WithReceipt(rv))
    BY <1>4, ReceiptFields, ReceiptHonest
  <2>2. \A items \in SUBSET Pages :
           /\ Prepared(WithReceipt(rv), items) \in ReviewRows
           /\ Honest(Prepared(WithReceipt(rv), items))
    BY <1>1, <1>4, PreparedHonest
  <2> QED
    BY <1>1, <2>1, <2>2
<1>6. /\ DOMAIN reviews' = DOMAIN reviews
      /\ reviews' \in [DOMAIN reviews -> ReviewRows]
      /\ ReviewsHonest'
  BY <1>4, <1>5, ReviewReplaced DEF Inv
<1>7. Types' /\ Room' /\ WorkSound'
  BY <1>2, <1>3, <1>6 DEF Inv, Types, Room, WorkSound
<1> QED
  BY <1>2, <1>6, <1>7, FilesStay DEF Inv

LEMMA AdvanceRestoredKeeps ==
  ASSUME Inv, AdvanceRestored
  PROVE  Inv'
<1> DEFINE i == work.id
           rv == reviews[i]
           new == WithReceipt(rv)
<1>1. /\ reviews' = [reviews EXCEPT ![i] = new]
      /\ work' = [work EXCEPT !.at = IF rv.complete THEN "save" ELSE "complete"]
      /\ work.at = "advance" /\ rv.stage = "restored" /\ AllRead(rv)
  BY DEF AdvanceRestored
<1>2. UNCHANGED <<version, intact, opened, archives, archived, files, restored,
                  cache, reading, delivered>>
  BY DEF AdvanceRestored, env, disk
<1>3. /\ i \in DOMAIN reviews /\ rv \in ReviewRows /\ Honest(rv)
      /\ work.r \in Results /\ work.ver \in Nat /\ work.id \in Nat /\ cache[work.r] = work.ver
  BY <1>1, WorkReview
<1>4. /\ work' \in WorkRows /\ work'.at \in {"save", "complete"} /\ work'.r = work.r
      /\ work'.ver = work.ver /\ work'.id = i
  BY <1>1 DEF WorkRows, Inv, Types
<1> HIDE DEF rv
<1>5. /\ new \in ReviewRows /\ new.receipts = rv.receipts \cup {"restored"}
      /\ new.stage = rv.stage /\ new.read = rv.read /\ new.seen = rv.seen
      /\ new.complete = rv.complete
  BY <1>1, <1>3, ReceiptFields
<1> HIDE DEF new
<1>6. new.receipts = Stages
  <2>1. "published" \in new.receipts /\ "restored" \in new.receipts /\ new.receipts \subseteq Stages
    BY <1>1, <1>3, <1>5 DEF Honest, ReviewRows
  <2> QED
    BY <2>1 DEF Stages
<1>7. Honest(new)
  BY <1>3, ReceiptHonest DEF new
<1> HIDE DEF i
<1>8. /\ DOMAIN reviews' = DOMAIN reviews
      /\ reviews' \in [DOMAIN reviews -> ReviewRows]
      /\ reviews'[i] = new
      /\ ReviewsHonest'
  BY <1>1, <1>2, <1>3, <1>5, <1>7, ReviewReplaced DEF Inv
<1>9. Types' /\ Room'
  BY <1>2, <1>4, <1>8 DEF Inv, Types, Room
<1>10. WorkSound'
  BY <1>2, <1>3, <1>4, <1>6, <1>8 DEF WorkSound
<1> QED
  BY <1>2, <1>8, <1>9, <1>10, FilesStay DEF Inv

LEMMA CompleteKeeps ==
  ASSUME Inv, Complete
  PROVE  Inv'
<1> DEFINE i == work.id
           rv == reviews[i]
           new == [rv EXCEPT !.complete = TRUE]
<1>1. /\ reviews' = [reviews EXCEPT ![i].complete = TRUE]
      /\ work' = [work EXCEPT !.at = "save"]
      /\ work.at = "complete"
  BY DEF Complete
<1>2. UNCHANGED <<version, intact, opened, archives, archived, files, restored,
                  cache, reading, delivered>>
  BY DEF Complete, env, disk
<1>3. /\ i \in DOMAIN reviews /\ rv \in ReviewRows /\ Honest(rv)
      /\ work.r \in Results /\ work.ver \in Nat /\ work.id \in Nat /\ cache[work.r] = work.ver
      /\ rv.receipts = Stages
  BY <1>1, WorkReview DEF Inv, WorkSound
<1>4. /\ work' \in WorkRows /\ work'.at = "save" /\ work'.r = work.r
      /\ work'.ver = work.ver /\ work'.id = i
  BY <1>1 DEF WorkRows, Inv, Types
<1>5. reviews' = [reviews EXCEPT ![i] = new]
  BY <1>1, <1>3
<1> HIDE DEF rv
<1>6. /\ new \in ReviewRows /\ new.receipts = Stages
      /\ new.stage = rv.stage /\ new.read = rv.read /\ new.seen = rv.seen
      /\ new.asked = rv.asked /\ new.items = rv.items
  BY <1>3 DEF ReviewRows
<1> HIDE DEF new
<1>7. Honest(new)
  BY <1>3, <1>6 DEF Honest, AllRead, Stages
<1> HIDE DEF i
<1>8. /\ DOMAIN reviews' = DOMAIN reviews
      /\ reviews' \in [DOMAIN reviews -> ReviewRows]
      /\ reviews'[i] = new
      /\ ReviewsHonest'
  BY <1>2, <1>3, <1>5, <1>6, <1>7, ReviewReplaced DEF Inv
<1>9. Types' /\ Room'
  BY <1>2, <1>4, <1>8 DEF Inv, Types, Room
<1>10. WorkSound'
  BY <1>2, <1>3, <1>4, <1>6, <1>8 DEF WorkSound
<1> QED
  BY <1>2, <1>8, <1>9, <1>10, FilesStay DEF Inv

\* A file is written for the work's publication and, unless it needed no review, for a
\* review that has no file yet.
LEMMA SaveWrites ==
  ASSUME Inv, Save
  PROVE  \/ UNCHANGED <<files, restored>>
         \/ \E n \in 0..MaxFiles :
              LET f == n + 1
                  entry == [r |-> work.r, ver |-> work.ver, id |-> work.id]
              IN  /\ files \in [1..n -> FileRows]
                  /\ f \in 1..MaxFiles
                  /\ entry \in FileRows
                  /\ work.id # 0 => \A g \in 1..n : files[g].id # work.id
                  /\ files' \in [1..f -> FileRows]
                  /\ files'[f] = entry
                  /\ \A g \in 1..n : files'[g] = files[g]
                  /\ restored' = files'
<1>1. PICK n \in 0..MaxFiles : files \in [1..n -> FileRows] /\ Cardinality(DOMAIN files) = n
  BY NextFile DEF Inv
<1> DEFINE f == n + 1
           entry == [r |-> work.r, ver |-> work.ver, id |-> work.id]
<1>2. n \in Nat /\ f \in Nat /\ DOMAIN files = 1..n /\ 1..n \cup {f} = 1..f /\ f \notin 1..n
  BY <1>1, RefillAssumption
<1>3. restored = files
  BY DEF Inv, FilesSound
<1>4. work.at = "save"
  BY DEF Save
<1>5. entry \in FileRows
  BY <1>4 DEF Inv, Types, WorkRows, WorkSound, FileRows
<1>6. \/ UNCHANGED <<files, restored>>
      \/ /\ SavesNew(work.id)
         /\ f \in FileIds
         /\ files' = [g \in DOMAIN files \cup {f} |-> IF g = f THEN entry ELSE files[g]]
         /\ restored' = [g \in DOMAIN restored \cup {f} |-> IF g = f THEN entry ELSE restored[g]]
  BY <1>1 DEF Save, disk
<1> HIDE DEF entry
<1>7. ASSUME SavesNew(work.id), f \in FileIds,
             files' = [g \in DOMAIN files \cup {f} |-> IF g = f THEN entry ELSE files[g]],
             restored' = [g \in DOMAIN restored \cup {f} |-> IF g = f THEN entry ELSE restored[g]]
      PROVE  /\ f \in 1..MaxFiles
             /\ work.id # 0 => \A g \in 1..n : files[g].id # work.id
             /\ files' \in [1..f -> FileRows]
             /\ files'[f] = entry
             /\ \A g \in 1..n : files'[g] = files[g]
             /\ restored' = files'
  <2>1. f \in 1..MaxFiles
    BY <1>7 DEF FileIds
  <2>2. work.id # 0 => \A g \in 1..n : files[g].id # work.id
    BY <1>2, <1>3, <1>7 DEF SavesNew, FilesOf
  <2>3. files' = [g \in 1..f |-> IF g = f THEN entry ELSE files[g]]
    BY <1>2, <1>7
  <2>4. restored' = files'
    BY <1>3, <1>7
  <2> QED
    BY <1>1, <1>2, <1>5, <2>1, <2>2, <2>3, <2>4
<1> QED
  BY <1>1, <1>5, <1>6, <1>7 DEF entry

LEMMA SaveKeeps ==
  ASSUME Inv, Save
  PROVE  Inv'
<1>1. UNCHANGED <<version, intact, reviews, opened, archives, archived, cache, reading,
                  delivered>>
  BY DEF Save, env, pool
<1>2. work' = Idle /\ work'.at = "idle" /\ work' \in WorkRows
  BY DEF Save, Idle, WorkRows
<1>3. Types' /\ Room' /\ WorkSound'
  BY <1>1, <1>2 DEF Inv, Types, Room, WorkSound
<1>4. FilesSound'
  <2>1. CASE UNCHANGED <<files, restored>>
    BY <1>1, <2>1, FilesStay DEF Inv
  <2>2. ASSUME NEW n \in 0..MaxFiles, files \in [1..n -> FileRows], n + 1 \in 1..MaxFiles,
               work.id # 0 => \A g \in 1..n : files[g].id # work.id,
               files' \in [1..(n + 1) -> FileRows], files'[n + 1].id = work.id,
               \A g \in 1..n : files'[g] = files[g], restored' = files'
        PROVE  FilesSound'
    <3>1. n \in Nat /\ 1..(n + 1) = 1..n \cup {n + 1} /\ n + 1 \in 0..MaxFiles
      BY <2>2, RefillAssumption
    <3>2. OneFilePerReview'
      <4> SUFFICES ASSUME NEW f \in 1..(n + 1), NEW g \in 1..(n + 1),
                          files'[f].id # 0, files'[f].id = files'[g].id
                   PROVE  f = g
        BY <2>2 DEF OneFilePerReview
      <4>1. CASE f \in 1..n /\ g \in 1..n
        BY <2>2, <4>1 DEF Inv, FilesSound, OneFilePerReview
      <4>2. CASE f = n + 1 /\ g \in 1..n
        BY <2>2, <4>2
      <4>3. CASE f \in 1..n /\ g = n + 1
        BY <2>2, <4>3
      <4> QED
        BY <3>1, <4>1, <4>2, <4>3
    <3>3. delivered'.ok
      BY <1>1 DEF Inv, FilesSound
    <3> QED
      BY <2>2, <3>1, <3>2, <3>3 DEF FilesSound
  <2>3. work.id # 0 \/ work.id = 0
    OBVIOUS
  <2> QED
    BY <2>1, <2>2, SaveWrites
<1> QED
  BY <1>1, <1>3, <1>4, ReviewsStay DEF Inv

-----------------------------------------------------------------------------
(***************************************************************************)
(* The review, the download and what happens around the session            *)
(***************************************************************************)

\* A page that is recorded as seen was asked for in its review and stage.
LEMMA ViewImageKeeps ==
  ASSUME Inv, ViewImage
  PROVE  Inv'
<1>1. PICK i \in DOMAIN reviews, p \in Pages, returned \in BOOLEAN :
        reviews' = [reviews EXCEPT ![i].seen = @ \cup {p},
                                   ![i].asked = @ \cup {<<reviews[i].stage, p, returned>>}]
  BY DEF ViewImage
<1>2. UNCHANGED <<version, intact, opened, archives, archived, files, restored, cache, work,
                  reading, delivered>>
  BY DEF ViewImage, env, disk
<1>3. work.at = "idle"
  BY DEF ViewImage, Idling
<1> DEFINE rv == reviews[i]
           new == [rv EXCEPT !.seen = rv.seen \cup {p},
                             !.asked = rv.asked \cup {<<rv.stage, p, returned>>}]
<1>4. rv \in ReviewRows /\ Honest(rv)
  BY DEF Inv, Types, ReviewsHonest
<1>5. reviews' = [reviews EXCEPT ![i] = new]
  BY <1>1, <1>4 DEF ReviewRows, Inv, Types
<1> HIDE DEF rv
<1>6. /\ new \in ReviewRows /\ new.receipts = rv.receipts /\ new.stage = rv.stage
      /\ new.read = rv.read /\ new.seen = rv.seen \cup {p} /\ new.complete = rv.complete
      /\ new.items = rv.items /\ new.asked = rv.asked \cup {<<rv.stage, p, returned>>}
  <2>1. rv.stage \in Stages /\ rv.asked \subseteq Stages \X Pages \X BOOLEAN
    BY <1>4 DEF ReviewRows
  <2> DEFINE asked == rv.asked \cup {<<rv.stage, p, returned>>}
  <2>2. asked \in SUBSET (Stages \X Pages \X BOOLEAN)
    BY <2>1
  <2> HIDE DEF asked
  <2>3. new = [rv EXCEPT !.seen = rv.seen \cup {p}, !.asked = asked]
    BY DEF asked
  <2> HIDE DEF new
  <2> QED
    BY <1>4, <2>2, <2>3 DEF ReviewRows, asked
<1> HIDE DEF new
<1>7. Honest(new)
  BY <1>4, <1>6 DEF Honest, AllRead
<1>8. /\ DOMAIN reviews' = DOMAIN reviews
      /\ reviews' \in [DOMAIN reviews -> ReviewRows]
      /\ ReviewsHonest'
  BY <1>5, <1>6, <1>7, ReviewReplaced DEF Inv
<1>9. Types' /\ Room' /\ WorkSound'
  BY <1>2, <1>3, <1>8 DEF Inv, Types, Room, WorkSound
<1> QED
  BY <1>2, <1>8, <1>9, FilesStay DEF Inv

\* Only a cell whose page counts as seen is read; its receipt may wait.
LEMMA ConfirmReadingKeeps ==
  ASSUME Inv, ConfirmReading
  PROVE  Inv'
<1>1. PICK i \in DOMAIN reviews : \E p \in reviews[i].items :
        LET more == [reviews[i] EXCEPT !.read = reviews[i].read \cup {p}] IN
          /\ p \in reviews[i].seen
          /\ \E next \in {more, WithReceipt(more)} : reviews' = [reviews EXCEPT ![i] = next]
  BY DEF ConfirmReading
<1> DEFINE rv == reviews[i]
<1>2. PICK p \in rv.items :
        LET more == [rv EXCEPT !.read = rv.read \cup {p}] IN
          /\ p \in rv.seen
          /\ \E next \in {more, WithReceipt(more)} : reviews' = [reviews EXCEPT ![i] = next]
  BY <1>1
<1>3. UNCHANGED <<version, intact, opened, archives, archived, files, restored, cache,
                  work, reading, delivered>>
  BY DEF ConfirmReading, env, disk
<1>4. work.at = "idle"
  BY DEF ConfirmReading, Idling
<1>5. rv \in ReviewRows /\ Honest(rv)
  BY DEF Inv, Types, ReviewsHonest
<1> DEFINE more == [rv EXCEPT !.read = rv.read \cup {p}]
<1> HIDE DEF rv
<1>6. /\ more \in ReviewRows /\ more.receipts = rv.receipts /\ more.stage = rv.stage
      /\ more.read = rv.read \cup {p} /\ more.seen = rv.seen /\ more.complete = rv.complete
      /\ more.items = rv.items /\ more.asked = rv.asked
  BY <1>2, <1>5 DEF ReviewRows
<1>7. PICK new \in {more, WithReceipt(more)} : reviews' = [reviews EXCEPT ![i] = new]
  BY <1>2
<1> HIDE DEF more
<1>8. Honest(more)
  BY <1>2, <1>5, <1>6 DEF Honest, AllRead
<1>9. new \in ReviewRows /\ Honest(new)
  BY <1>6, <1>7, <1>8, ReceiptFields, ReceiptHonest
<1>10. /\ DOMAIN reviews' = DOMAIN reviews
       /\ reviews' \in [DOMAIN reviews -> ReviewRows]
       /\ ReviewsHonest'
  BY <1>7, <1>9, ReviewReplaced DEF Inv
<1>11. Types' /\ Room' /\ WorkSound'
  BY <1>3, <1>4, <1>10 DEF Inv, Types, Room, WorkSound
<1> QED
  BY <1>3, <1>10, <1>11, FilesStay DEF Inv

LEMMA RestartReviewKeeps ==
  ASSUME Inv, RestartReview
  PROVE  Inv'
<1>1. PICK i \in DOMAIN reviews :
        /\ archived' = archived \cup {i}
        /\ reviews' = [j \in DOMAIN reviews \ {i} |-> reviews[j]]
  BY DEF RestartReview
<1>2. UNCHANGED <<version, intact, opened, files, restored, cache, work, reading,
                  delivered>>
  BY DEF RestartReview, env, disk
<1>3. work.at = "idle" /\ archives < MaxArchives /\ archives' = archives + 1
  BY DEF RestartReview, Idling
<1>4. /\ DOMAIN reviews' = DOMAIN reviews \ {i}
      /\ reviews' \in [DOMAIN reviews' -> ReviewRows]
      /\ \A j \in DOMAIN reviews' : reviews'[j] = reviews[j]
  BY <1>1 DEF Inv, Types
<1>5. i \in Ids
  BY RefillAssumption DEF Inv, Types, Ids
<1>6. Types'
  BY <1>1, <1>2, <1>3, <1>4, <1>5, RefillAssumption DEF Inv, Types
<1>7. Room'
  <2>1. IsFiniteSet(DOMAIN reviews) /\ Cardinality(DOMAIN reviews) \in Nat
    BY ReviewsFinite DEF Inv
  <2>2. Cardinality(DOMAIN reviews') <= Cardinality(DOMAIN reviews)
    BY <1>4, <2>1, FS_Subset
  <2>3. Cardinality(DOMAIN reviews') \in Nat
    BY <1>4, <2>1, FS_Subset, FS_CardinalityType
  <2> QED
    BY <1>2, <1>3, <2>1, <2>2, <2>3, RefillAssumption DEF Inv, Room
<1>8. ReviewsHonest' /\ WorkSound'
  BY <1>2, <1>3, <1>4 DEF Inv, ReviewsHonest, WorkSound
<1> QED
  BY <1>2, <1>6, <1>7, <1>8, FilesStay DEF Inv

LEMMA ReviewLapsesKeeps ==
  ASSUME Inv, ReviewLapses
  PROVE  Inv'
<1>1. PICK i \in DOMAIN reviews : reviews' = [reviews EXCEPT ![i].live = FALSE]
  BY DEF ReviewLapses
<1>2. UNCHANGED <<version, intact, opened, archives, archived, files, restored, cache,
                  work, reading, delivered>>
  BY DEF ReviewLapses, env, disk
<1> DEFINE rv == reviews[i]
           new == [rv EXCEPT !.live = FALSE]
<1>3. rv \in ReviewRows /\ Honest(rv)
  BY DEF Inv, Types, ReviewsHonest
<1>4. reviews' = [reviews EXCEPT ![i] = new]
  BY <1>1, <1>3
<1> HIDE DEF rv
<1>5. /\ new \in ReviewRows /\ new.receipts = rv.receipts /\ new.stage = rv.stage
      /\ new.read = rv.read /\ new.seen = rv.seen /\ new.complete = rv.complete
      /\ new.items = rv.items /\ new.asked = rv.asked
  BY <1>3 DEF ReviewRows
<1> HIDE DEF new
<1>6. Honest(new)
  BY <1>3, <1>5 DEF Honest, AllRead
<1>7. /\ DOMAIN reviews' = DOMAIN reviews
      /\ reviews' \in [DOMAIN reviews -> ReviewRows]
      /\ reviews'[i] = new
      /\ \A j \in DOMAIN reviews \ {i} : reviews'[j] = reviews[j]
      /\ ReviewsHonest'
  BY <1>2, <1>4, <1>5, <1>6, ReviewReplaced DEF Inv
<1>8. \A j \in DOMAIN reviews : reviews'[j].receipts = reviews[j].receipts
  BY <1>5, <1>7 DEF rv
<1>9. Types' /\ Room' /\ WorkSound'
  BY <1>2, <1>7, <1>8 DEF Inv, Types, Room, WorkSound
<1> QED
  BY <1>2, <1>7, <1>9, FilesStay DEF Inv

\* The steps that touch neither reviews nor files.
LEMMA OthersKeep ==
  ASSUME Inv, RestartFails \/ StartDownload \/ RefuseDownload \/ NewPublication \/ TrustChanges
  PROVE  Inv'
<1>1. UNCHANGED <<reviews, opened, archived, files, restored, cache, work, delivered>>
  BY DEF RestartFails, StartDownload, RefuseDownload, NewPublication, TrustChanges, env, pool, disk
<1>2. archives' \in 0..MaxArchives
  BY RefillAssumption DEF RestartFails, StartDownload, RefuseDownload, NewPublication,
     TrustChanges, pool, Inv, Types
<1>3. reading' \in {0} \cup FileIds
  <2>1. restored = files /\ \E n \in 0..MaxFiles : DOMAIN files = 1..n
    BY DEF Inv, FilesSound
  <2>2. DOMAIN restored \subseteq FileIds
    BY <2>1, RefillAssumption DEF FileIds
  <2> QED
    BY <2>2 DEF RestartFails, StartDownload, RefuseDownload, NewPublication, TrustChanges,
       Inv, Types
<1>4. version' \in [Results -> 1..MaxVersion]
  BY RefillAssumption DEF RestartFails, StartDownload, RefuseDownload, NewPublication,
     TrustChanges, env, Inv, Types
<1>5. intact' \subseteq Trusted
  BY RefillAssumption DEF RestartFails, StartDownload, RefuseDownload, NewPublication,
     TrustChanges, env, Inv, Types
<1>6. Types' /\ Room' /\ WorkSound'
  BY <1>1, <1>2, <1>3, <1>4, <1>5 DEF Inv, Types, Room, WorkSound
<1> QED
  BY <1>1, <1>6, ReviewsStay, FilesStay DEF Inv

\* The download that is rechecked is the file that is delivered.
LEMMA DeliverKeeps ==
  ASSUME Inv, Deliver
  PROVE  Inv'
<1>1. UNCHANGED <<version, intact, reviews, opened, archives, archived, files, restored,
                  cache, work>>
  BY DEF Deliver, env, pool, disk
<1>2. reading' = 0
  BY DEF Deliver
<1>3. delivered'.ok
  <2>1. Rechecks(reading) /\ delivered' = [file |-> reading, ok |-> DownloadPermitted(files[reading])]
    BY DEF Deliver
  <2>2. restored = files
    BY DEF Inv, FilesSound
  <2> QED
    BY <2>1, <2>2 DEF Rechecks
<1>4. Types' /\ Room' /\ WorkSound'
  BY <1>1, <1>2 DEF Inv, Types, Room, WorkSound
<1>5. FilesSound'
  BY <1>1, <1>3 DEF Inv, FilesSound, OneFilePerReview
<1> QED
  BY <1>1, <1>4, <1>5, ReviewsStay DEF Inv

\* Every step keeps the invariant.
LEMMA StepKeeps ==
  ASSUME Inv, [Next]_vars
  PROVE  Inv'
<1>1. CASE Next
  BY <1>1, RestoreKeeps, FailKeeps, ExecuteKeeps, OpenReviewKeeps, AdvancePublishedKeeps,
     AdvanceFailsKeeps,
     AdvanceRestoredKeeps, CompleteKeeps, SaveKeeps, ViewImageKeeps, ConfirmReadingKeeps,
     RestartReviewKeeps, ReviewLapsesKeeps, OthersKeep, DeliverKeeps DEF Next
<1>2. CASE UNCHANGED vars
  <2>1. UNCHANGED <<version, intact, reviews, opened, archives, archived, files, restored,
                    cache, work, reading, delivered>>
    BY <1>2 DEF vars, env, pool, disk
  <2>2. Types' /\ Room' /\ WorkSound'
    BY <2>1 DEF Inv, Types, Room, WorkSound
  <2> QED
    BY <2>1, <2>2, ReviewsStay, FilesStay DEF Inv
<1> QED
  BY <1>1, <1>2

\* The invariant holds in every reachable state.
LEMMA InvHolds == Spec => []Inv
<1>1. Init => Inv
  <2> SUFFICES ASSUME Init PROVE Inv
    OBVIOUS
  <2>1. DOMAIN reviews = {} /\ DOMAIN files = {} /\ opened = 0 /\ 1..0 = {}
    BY DEF Init
  <2>2. work \in WorkRows /\ work.at = "idle"
    BY DEF Init, Idle, WorkRows
  <2>3. reviews \in [DOMAIN reviews -> ReviewRows]
    BY <2>1 DEF Init
  <2>4. Types
    BY <2>1, <2>2, <2>3, RefillAssumption DEF Init, Types
  <2>5. Room
    BY <2>1, <2>2, FS_EmptySet, RefillAssumption DEF Room
  <2>6. ReviewsHonest /\ WorkSound
    BY <2>1, <2>2 DEF ReviewsHonest, WorkSound
  <2>7. FilesSound
    <3>1. files \in [1..0 -> FileRows]
      BY <2>1 DEF Init
    <3> QED
      BY <2>1, <3>1, RefillAssumption DEF Init, FilesSound, OneFilePerReview
  <2> QED
    BY <2>4, <2>5, <2>6, <2>7 DEF Inv
<1> QED
  BY <1>1, StepKeeps, PTL DEF Spec

-----------------------------------------------------------------------------
(***************************************************************************)
(* The theorems                                                            *)
(***************************************************************************)

\* Types of the session's state, and its limits on reviews and archives.
THEOREM TypeCorrect == Spec => []TypeOK
<1>1. Inv => TypeOK
  <2> SUFFICES ASSUME Inv PROVE TypeOK
    OBVIOUS
  <2>1. DOMAIN restored \subseteq DOMAIN files /\ DOMAIN files \subseteq FileIds
    BY RefillAssumption DEF Inv, FilesSound, FileIds
  <2>2. \A i \in DOMAIN reviews : reviews[i] \in ReviewRows
    BY DEF Inv, Types
  <2> QED
    BY <2>1, <2>2 DEF Inv, Types, Room, TypeOK, ReviewRows, WorkRows
<1> QED
  BY <1>1, InvHolds, PTL

\* The restored files are those of reviews whose cells were read stage by stage: each
\* reading is of a page whose image was asked for in that review and stage while its
\* authority stood, a receipt stands for every cell of its stage, a completed review has
\* both receipts and writes one file, and what is delivered is permitted at that very
\* moment (LocalRefillReview, LocalRestoreCoordinator.require_current).
THEOREM RestoredEarned == Spec => []RestoredIsEarned
<1>1. Inv => RestoredIsEarned
  <2> SUFFICES ASSUME Inv PROVE RestoredIsEarned
    OBVIOUS
  <2>1. ReceiptsWereRead
    BY DEF Inv, ReviewsHonest, Honest, ReceiptsWereRead
  <2> QED
    BY <2>1 DEF Inv, FilesSound, RestoredIsEarned, DeliveredIsCurrent
<1> QED
  BY <1>1, InvHolds, PTL

\* A review leaves the session only when its evidence is archived, and never once it is
\* complete (restart).
THEOREM EvidenceArchived == Spec => EvidenceIsArchived
<1>1. Inv /\ [Next]_vars =>
        [\A i \in DOMAIN reviews \ DOMAIN reviews' : i \in archived' /\ ~reviews[i].complete]_vars
  <2> SUFFICES ASSUME Inv, Next, NEW i \in DOMAIN reviews \ DOMAIN reviews'
               PROVE  i \in archived' /\ ~reviews[i].complete
    BY DEF vars
  <2>1. RestartReview \/ DOMAIN reviews \subseteq DOMAIN reviews'
    BY DEF Next, Restore, Fail, Execute, OpenReview, AdvancePublished, AdvanceFails, AdvanceRestored,
       Complete,
       Save, ViewImage, ConfirmReading, RestartFails, StartDownload, Deliver, RefuseDownload,
       NewPublication, TrustChanges, ReviewLapses, pool, Inv, Types
  <2>2. RestartReview
    BY <2>1
  <2> QED
    BY <2>2 DEF RestartReview, Archivable
<1> QED
  BY <1>1, InvHolds, PTL DEF Spec, EvidenceIsArchived

\* A file with the original values is written only of the publication that is current and
\* pinned, and, where a review was needed, on both of its receipts (_save_new).
THEOREM WrittenAuthorized == Spec => WrittenIsAuthorized
<1>1. Inv /\ [Next]_vars =>
        [\A f \in DOMAIN files' \ DOMAIN files :
           /\ version[files'[f].r] = files'[f].ver /\ cache[files'[f].r] = files'[f].ver
           /\ files'[f].id # 0 => /\ files'[f].id \in DOMAIN reviews
                                  /\ reviews[files'[f].id].receipts = Stages]_vars
  <2> SUFFICES ASSUME Inv, Next, NEW f \in DOMAIN files' \ DOMAIN files
               PROVE  /\ version[files'[f].r] = files'[f].ver /\ cache[files'[f].r] = files'[f].ver
                      /\ files'[f].id # 0 => /\ files'[f].id \in DOMAIN reviews
                                             /\ reviews[files'[f].id].receipts = Stages
    BY DEF vars
  <2>1. Save \/ UNCHANGED files
    BY DEF Next, Restore, Fail, Execute, OpenReview, AdvancePublished, AdvanceFails, AdvanceRestored,
       Complete,
       ViewImage, ConfirmReading, RestartReview, RestartFails, StartDownload, Deliver,
       RefuseDownload, NewPublication, TrustChanges, ReviewLapses, disk
  <2>2. Save
    BY <2>1
  <2>3. files'[f] = [r |-> work.r, ver |-> work.ver, id |-> work.id]
    BY <2>2, SaveWrites, RefillAssumption
  <2>4. work.at = "save" /\ version[work.r] = work.ver
    BY <2>2 DEF Save, PublicationPermits
  <2> QED
    BY <2>3, <2>4 DEF Inv, WorkSound
<1> QED
  BY <1>1, InvHolds, PTL DEF Spec, WrittenIsAuthorized

(***************************************************************************)
(* The way out: review, preview and transfer                               *)
(***************************************************************************)

\* The pages that were previewed were seen under the selections as they are, and a page is
\* reviewed only when it was previewed.
ReviewShown ==
  review.cmd # NoValue =>
    /\ review.cmd.pages \subseteq review.previewed
    /\ review.previewed # {} =>
         /\ seen # NoValue
         /\ seen.now = [src |-> review.cmd.src, sel |-> review.cmd.sel]
         /\ review.previewed \subseteq seen.pages

UnderWay == {"seal", "confirm", "readmit", "accept"}
Stored == {"confirm", "readmit", "accept", "record"}

\* What a transfer may rely on: its preview was taken for it, the mapping of that preview is
\* stored, the preview was looked at, and at the end the review is the one it was built from.
TransferSound ==
  /\ sending.at # "idle" => bridge.preview # NoValue /\ bridge.preview.attempted
  /\ sending.map # 0 => sending.map \in DOMAIN store
  /\ sending.at \in {"idle", "seal"} => sending.map = 0
  /\ sending.at \in Stored =>
       /\ sending.map \in DOMAIN store
       /\ store[sending.map].man = bridge.preview.man
       /\ store[sending.map].cmd = bridge.preview.cmd
  /\ sending.at \in {"readmit", "accept"} => bridge.preview.viewed
  /\ sending.at = "accept" =>
       /\ review.cmd = bridge.preview.cmd /\ review.cmd.pages = SourcePages
       /\ review.approval # NoValue /\ review.approval.rev = review.cmd.rev
  /\ sending.at = "record" =>
       \E i \in DOMAIN sent : sent[i].man = bridge.preview.man /\ sent[i].map = sending.map

\* Previews are numbered in the order they were prepared, and one that was not attempted,
\* or is still under way, was not sent.
PreviewFresh ==
  /\ \A i \in DOMAIN sent : sent[i].preview <= prepared
  /\ bridge.preview # NoValue =>
       /\ bridge.preview.id <= prepared
       /\ ~bridge.preview.attempted \/ sending.at \in UnderWay =>
            \A i \in DOMAIN sent : sent[i].preview # bridge.preview.id

ExportInv == ExportTypeOK /\ ReviewShown /\ TransferSound /\ PreviewFresh /\ SentIsKnown

-----------------------------------------------------------------------------
\* Fields of a session and of what it holds.
LEMMA SessionFields ==
  ASSUME NEW b \in Sessions
  PROVE  /\ b.preview # NoValue => b.preview \in Previews
         /\ \A p \in Previews \cup {NoValue} :
              /\ [b EXCEPT !.preview = p] \in Sessions
              /\ [b EXCEPT !.preview = p].preview = p
              /\ [b EXCEPT !.preview = p].src = b.src
         /\ \A a \in Nat \cup {NoValue} :
              /\ [b EXCEPT !.approval = a, !.preview = NoValue] \in Sessions
              /\ [b EXCEPT !.approval = a, !.preview = NoValue].preview = NoValue
BY DEF Sessions

\* _change replaces selections, pages and previews, and drops the approval.
LEMMA Changed ==
  ASSUME ExportInv, review.cmd # NoValue, NEW sel \in Selections,
         NEW pages \in SUBSET SourcePages, NEW previewed \in SUBSET SourcePages,
         Change(sel, pages, previewed)
  PROVE  /\ review' \in ReviewRecords /\ revision' \in 0..MaxEvents /\ UNCHANGED approvals
         /\ review'.cmd.src = review.cmd.src /\ review'.cmd.sel = sel
         /\ review'.cmd.pages = pages /\ review'.previewed = previewed
<1>1. review \in ReviewRecords /\ revision \in Nat /\ MaxEvents \in Nat /\ review.cmd \in Commands
  BY PrivacyAssumption DEF ExportInv, ExportTypeOK, ReviewRecords
<1>2. PICK n \in Nat : n = revision + 1
  BY <1>1
<1>3. PICK c : c = [review.cmd EXCEPT !.rev = n, !.sel = sel, !.pages = pages]
  OBVIOUS
<1>4. c \in Commands /\ c.src = review.cmd.src /\ c.sel = sel /\ c.pages = pages
  BY <1>1, <1>3 DEF Commands
<1>5. review' = [review EXCEPT !.cmd = c, !.previewed = previewed, !.approval = NoValue]
  BY <1>2, <1>3 DEF Change
<1>6. review' \in ReviewRecords /\ review'.cmd = c /\ review'.previewed = previewed
  BY <1>1, <1>4, <1>5 DEF ReviewRecords
<1>7. revision' \in 0..MaxEvents /\ UNCHANGED approvals
  BY <1>1 DEF Change
<1> QED  BY <1>4, <1>6, <1>7

\* What the session does to the review, while nothing is being sent.
LEMMA ReviewStep ==
  ASSUME ExportInv, Resting, UNCHANGED <<maps, exported, world, sending, sent, prepared>>,
         review' \in ReviewRecords, revision' \in 0..MaxEvents, approvals' \in 0..MaxApprovals,
         seen' \in Looks \cup {NoValue}, ReviewShown',
         bridge' \in Sessions, bridge'.preview = bridge.preview \/ bridge'.preview = NoValue
  PROVE  ExportInv'
<1>1. ExportTypeOK'
  BY DEF ExportInv, ExportTypeOK, world
<1>2. TransferSound'
  BY DEF ExportInv, TransferSound, Resting, Stored, world
<1>3. PreviewFresh'
  BY DEF ExportInv, PreviewFresh, Resting, UnderWay
<1>4. SentIsKnown'
  BY DEF ExportInv, SentIsKnown, SentOnce, SentCanBeRestored, ExportedIsExact, world
<1> QED  BY <1>1, <1>2, <1>3, <1>4 DEF ExportInv

LEMMA OpenSourceKeeps ==
  ASSUME ExportInv, OpenSource
  PROVE  ExportInv'
<1>1. PICK s \in Sources : /\ bridge' = [NoSession EXCEPT !.src = s]
                           /\ IF s \in readable THEN Rescan(s) ELSE UNCHANGED service
  BY DEF OpenSource
<1>2. bridge' \in Sessions /\ bridge'.preview = NoValue
  BY <1>1 DEF NoSession, Sessions
<1>3. Resting /\ UNCHANGED <<maps, exported, world, sending, sent, seen, prepared>>
  BY DEF OpenSource
<1>4. /\ review \in ReviewRecords /\ revision \in 0..MaxEvents /\ approvals \in 0..MaxApprovals
      /\ seen \in Looks \cup {NoValue} /\ ReviewShown
  BY DEF ExportInv, ExportTypeOK
<1>5. NoReview \in ReviewRecords /\ NoReview.cmd = NoValue
  BY DEF NoReview, ReviewRecords
<1>6. /\ review' \in ReviewRecords /\ revision' \in 0..MaxEvents /\ approvals' \in 0..MaxApprovals
      /\ ReviewShown'
  <2>1. CASE s \notin readable
    BY <1>1, <2>1, <1>3, <1>4 DEF service, ReviewShown
  <2>2. CASE s \in readable /\ review' = NoReview
    <3>1. Rescan(s)  BY <1>1, <2>2
    <3>2. revision' \in 0..MaxEvents /\ UNCHANGED approvals
      BY <3>1, <1>4, PrivacyAssumption DEF Rescan
    <3> QED  BY <2>2, <3>2, <1>4, <1>5 DEF ReviewShown
  <2>3. CASE s \in readable /\ review' # NoReview
    <3>1. Rescan(s)  BY <1>1, <2>3
    <3>2. revision' \in 0..MaxEvents /\ UNCHANGED approvals /\ revision + 1 \in Nat
      BY <3>1, <1>4, PrivacyAssumption DEF Rescan
    <3>3. PICK scan \in ScanOutcomes, n \in Nat :
             review' = [cmd |-> [src |-> s, rev |-> n, pages |-> {}, sel |-> DetectedSelection(scan)],
                        scan |-> scan, previewed |-> {}, approval |-> NoValue]
      BY <3>1, <3>2, <2>3 DEF Rescan
    <3>4. DetectedSelection(scan) \in Selections
      BY DEF DetectedSelection, Selections
    <3>5. [src |-> s, rev |-> n, pages |-> {}, sel |-> DetectedSelection(scan)] \in Commands
      BY <3>4 DEF Commands, Selections
    <3>6. review' \in ReviewRecords /\ review'.previewed = {} /\ review'.cmd.pages = {}
      BY <3>3, <3>5 DEF ReviewRecords, ScanOutcomes
    <3> QED  BY <3>2, <3>6, <1>4 DEF ReviewShown
  <2> QED  BY <2>1, <2>2, <2>3
<1> QED  BY <1>2, <1>3, <1>4, <1>6, ReviewStep

LEMMA PreviewPageKeeps ==
  ASSUME ExportInv, PreviewPage
  PROVE  ExportInv'
<1>1. PICK p \in SourcePages :
        /\ review' = [review EXCEPT !.previewed = @ \cup {p}]
        /\ seen' = LET now == [src |-> review.cmd.src, sel |-> review.cmd.sel]
                   IN  [now |-> now,
                        pages |-> {p} \cup IF seen # NoValue /\ seen.now = now
                                           THEN seen.pages ELSE {}]
  BY DEF PreviewPage
<1>2. /\ Resting /\ UNCHANGED <<revision, approvals, session, world, sending, sent, prepared>>
      /\ review.cmd # NoValue
  BY DEF PreviewPage
<1>3. /\ review \in ReviewRecords /\ revision \in 0..MaxEvents /\ approvals \in 0..MaxApprovals
      /\ seen \in Looks \cup {NoValue} /\ ReviewShown /\ bridge \in Sessions
      /\ review.cmd \in Commands
  BY <1>2 DEF ExportInv, ExportTypeOK, ReviewRecords
<1>4. PICK now : now = [src |-> review.cmd.src, sel |-> review.cmd.sel]
  OBVIOUS
<1>5. PICK old : old = IF seen # NoValue /\ seen.now = now THEN seen.pages ELSE {}
  OBVIOUS
<1>6. seen' = [now |-> now, pages |-> {p} \cup old]
  BY <1>1, <1>4, <1>5
<1>7. now \in [src : Sources, sel : Selections]
  BY <1>3, <1>4 DEF Commands, Selections
<1>8. old \subseteq SourcePages
  BY <1>3, <1>5 DEF Looks
<1>9. seen' \in Looks /\ seen'.now = now /\ seen'.pages = {p} \cup old /\ seen' # NoValue
  BY <1>6, <1>7, <1>8, PrivacyAssumption DEF Looks
<1>10. /\ review' \in ReviewRecords /\ review'.previewed = review.previewed \cup {p}
       /\ review'.cmd = review.cmd
  BY <1>1, <1>3 DEF ReviewRecords
<1>11. review.cmd.pages \subseteq review.previewed /\ review.previewed \subseteq old
  BY <1>2, <1>3, <1>4, <1>5 DEF ReviewShown
<1>12. ReviewShown'
  BY <1>4, <1>9, <1>10, <1>11 DEF ReviewShown
<1> QED  BY <1>2, <1>3, <1>9, <1>10, <1>12, ReviewStep DEF session

LEMMA ReviewPageKeeps ==
  ASSUME ExportInv, ReviewPage
  PROVE  ExportInv'
<1>1. /\ Resting /\ UNCHANGED <<maps, exported, world, sending, sent, seen, prepared>> /\ Forget
      /\ review.cmd # NoValue
  BY DEF ReviewPage
<1>2. PICK p \in review.previewed : Change(review.cmd.sel, review.cmd.pages \cup {p}, review.previewed)
  BY DEF ReviewPage
<1>3. /\ review \in ReviewRecords /\ approvals \in 0..MaxApprovals
      /\ seen \in Looks \cup {NoValue} /\ ReviewShown /\ bridge \in Sessions
      /\ review.cmd \in Commands
  BY <1>1 DEF ExportInv, ExportTypeOK, ReviewRecords
<1>4. /\ review.cmd.sel \in Selections /\ review.cmd.pages \cup {p} \in SUBSET SourcePages
      /\ review.previewed \in SUBSET SourcePages
  BY <1>2, <1>3 DEF ReviewRecords, Commands, Selections
<1>5. /\ review' \in ReviewRecords /\ revision' \in 0..MaxEvents /\ UNCHANGED approvals
      /\ review'.cmd.src = review.cmd.src /\ review'.cmd.sel = review.cmd.sel
      /\ review'.cmd.pages = review.cmd.pages \cup {p} /\ review'.previewed = review.previewed
  BY <1>1, <1>2, <1>4, Changed
<1>6. ReviewShown'
  BY <1>1, <1>2, <1>3, <1>5 DEF ReviewShown
<1>7. bridge' \in Sessions /\ bridge'.preview = NoValue
  BY <1>1, <1>3, SessionFields DEF Forget
<1> QED  BY <1>1, <1>3, <1>5, <1>6, <1>7, ReviewStep

LEMMA EditSelectionKeeps ==
  ASSUME ExportInv, EditSelection
  PROVE  ExportInv'
<1>1. /\ Resting /\ UNCHANGED <<maps, exported, world, sending, sent, seen, prepared>> /\ Forget
      /\ review.cmd # NoValue
  BY DEF EditSelection
<1>2. PICK c \in Cands, d \in {"redact", "dismiss"} : Change([review.cmd.sel EXCEPT ![c] = d], {}, {})
  BY DEF EditSelection
<1>3. /\ review \in ReviewRecords /\ approvals \in 0..MaxApprovals
      /\ seen \in Looks \cup {NoValue} /\ bridge \in Sessions /\ review.cmd \in Commands
  BY <1>1 DEF ExportInv, ExportTypeOK, ReviewRecords
<1>4. [review.cmd.sel EXCEPT ![c] = d] \in Selections
  BY <1>3 DEF Commands, Selections
<1>5. /\ review' \in ReviewRecords /\ revision' \in 0..MaxEvents /\ UNCHANGED approvals
      /\ review'.cmd.pages = {} /\ review'.previewed = {}
  BY <1>1, <1>2, <1>4, Changed
<1>6. ReviewShown'
  BY <1>5 DEF ReviewShown
<1>7. bridge' \in Sessions /\ bridge'.preview = NoValue
  BY <1>1, <1>3, SessionFields DEF Forget
<1> QED  BY <1>1, <1>3, <1>5, <1>6, <1>7, ReviewStep

LEMMA RefusedCommandKeeps ==
  ASSUME ExportInv, RefusedCommand
  PROVE  ExportInv'
<1>1. /\ Resting /\ UNCHANGED <<service, maps, exported, world, sending, sent, seen, prepared>> /\ Forget
  BY DEF RefusedCommand
<1>2. /\ review \in ReviewRecords /\ revision \in 0..MaxEvents /\ approvals \in 0..MaxApprovals
      /\ seen \in Looks \cup {NoValue} /\ ReviewShown /\ bridge \in Sessions
  BY DEF ExportInv, ExportTypeOK
<1>3. bridge' \in Sessions /\ bridge'.preview = NoValue
  BY <1>1, <1>2, SessionFields DEF Forget
<1>4. ReviewShown'  BY <1>1, <1>2 DEF ReviewShown, service
<1> QED  BY <1>1, <1>2, <1>3, <1>4, ReviewStep DEF service

LEMMA ConfirmReviewKeeps ==
  ASSUME ExportInv, ConfirmReview
  PROVE  ExportInv'
<1>1. /\ Resting /\ UNCHANGED <<revision, maps, exported, world, sending, sent, seen, prepared>>
      /\ review.cmd # NoValue
  BY DEF ConfirmReview
<1>2. /\ review \in ReviewRecords /\ revision \in 0..MaxEvents /\ approvals \in 0..MaxApprovals
      /\ seen \in Looks \cup {NoValue} /\ ReviewShown /\ bridge \in Sessions
      /\ review.cmd \in Commands /\ review.cmd.rev \in Nat
  BY <1>1 DEF ExportInv, ExportTypeOK, ReviewRecords, Commands
<1>3. PICK a \in Approvals \cup {NoValue} : review' = [review EXCEPT !.approval = a]
  <2>1. \/ review' = [review EXCEPT !.approval = [rev |-> review.cmd.rev, id |-> approvals + 1, live |-> TRUE]]
        \/ review' = [review EXCEPT !.approval = NoValue]
    BY DEF ConfirmReview
  <2>2. [rev |-> review.cmd.rev, id |-> approvals + 1, live |-> TRUE] \in Approvals
    BY <1>2, PrivacyAssumption DEF Approvals
  <2> QED  BY <2>1, <2>2
<1>4. review' \in ReviewRecords /\ review'.cmd = review.cmd /\ review'.previewed = review.previewed
  BY <1>2, <1>3 DEF ReviewRecords
<1>5. approvals' \in 0..MaxApprovals
  BY <1>2, PrivacyAssumption DEF ConfirmReview
<1>6. bridge' \in Sessions /\ bridge'.preview = NoValue
  <2>1. approvals + 1 \in Nat  BY <1>2, PrivacyAssumption
  <2>2. PICK b \in Nat \cup {NoValue} : bridge' = [bridge EXCEPT !.approval = b, !.preview = NoValue]
    BY <2>1 DEF ConfirmReview, Forget
  <2> QED  BY <1>2, <2>2, SessionFields
<1>7. ReviewShown'
  BY <1>1, <1>2, <1>4 DEF ReviewShown
<1> QED  BY <1>1, <1>2, <1>4, <1>5, <1>6, <1>7, ReviewStep

-----------------------------------------------------------------------------
LEMMA PrepareKeeps ==
  ASSUME ExportInv, Prepare
  PROVE  ExportInv'
<1>1. /\ Resting /\ UNCHANGED <<service, maps, exported, world, sending, sent, seen>>
      /\ bridge.approval # NoValue /\ review.cmd # NoValue /\ prepared < MaxPreviews
  BY DEF Prepare
<1>2. /\ review.cmd \in Commands /\ bridge \in Sessions /\ bridge.approval \in Nat
      /\ prepared \in 0..MaxPreviews /\ sending \in Transfers /\ sending.at = "idle"
      /\ sent \in Seq(Bundles) /\ PreviewFresh
  BY <1>1 DEF ExportInv, ExportTypeOK, ReviewRecords, Sessions, Resting
<1>3. MaxPreviews \in Nat /\ prepared \in Nat  BY <1>2, PrivacyAssumption
<1>4. CASE bridge' = [bridge EXCEPT !.preview = NoValue] /\ UNCHANGED prepared
  <2>1. bridge' \in Sessions /\ bridge'.preview = NoValue
    BY <1>2, <1>4, SessionFields
  <2>2. PreviewFresh'
    BY <1>1, <1>2, <1>4, <2>1 DEF PreviewFresh
  <2>3. ReviewShown' /\ UNCHANGED <<review, revision, approvals>>
    BY <1>1 DEF ExportInv, ReviewShown, service
  <2> QED
    BY <1>1, <1>2, <1>4, <2>1, <2>3, ReviewStep DEF ExportInv, ExportTypeOK
<1>5. CASE /\ prepared' = prepared + 1
           /\ bridge' = [bridge EXCEPT !.preview = Build(review.cmd, bridge.approval, prepared + 1)]
  <2>1. PICK n \in Nat : n = prepared + 1
    BY <1>3
  <2>2. ManifestOf(review.cmd, n) \in Manifests
    BY <1>2, <2>1 DEF ManifestOf, Manifests, Redacted, Commands, Selections
  <2>3. PICK b : b = Build(review.cmd, bridge.approval, n)
    OBVIOUS
  <2>4. b \in Previews /\ b.id = n /\ b.attempted = FALSE
    BY <1>2, <2>1, <2>2, <2>3 DEF Build, Previews
  <2>5. bridge' = [bridge EXCEPT !.preview = b]
    BY <1>5, <2>1, <2>3
  <2>6. bridge' \in Sessions /\ bridge'.preview = b
    BY <1>2, <2>4, <2>5, SessionFields
  <2>7. PreviewFresh'
    <3>1. \A i \in DOMAIN sent : sent[i].preview \in Nat /\ sent[i].preview <= prepared
      <4>1. \A i \in DOMAIN sent : sent[i] \in Bundles
        BY <1>2
      <4> QED  BY <1>2, <4>1 DEF PreviewFresh, Bundles
    <3>2. \A i \in DOMAIN sent : sent[i].preview < n /\ sent[i].preview # n
      BY <3>1, <2>1, <1>3
    <3>3. prepared' = n /\ n <= n  BY <1>5, <2>1
    <3> QED
      BY <1>1, <2>4, <2>6, <3>1, <3>2, <3>3 DEF PreviewFresh
  <2>8. prepared' \in 0..MaxPreviews
    BY <1>1, <1>3, <1>5
  <2>9. ExportTypeOK' /\ ReviewShown' /\ SentIsKnown'
    BY <1>1, <2>6, <2>8
       DEF ExportInv, ExportTypeOK, ReviewShown, world, service, SentIsKnown, SentOnce,
           SentCanBeRestored, ExportedIsExact
  <2>10. TransferSound'
    BY <1>1, <1>2 DEF ExportInv, TransferSound, Stored, world
  <2> QED  BY <2>7, <2>9, <2>10 DEF ExportInv
<1> QED  BY <1>4, <1>5 DEF Prepare

\* A preview is looked at, confirmed, attempted or outlived: which it is stays.
LEMMA PreviewMarked ==
  ASSUME ExportInv, bridge.preview # NoValue, NEW p \in Previews,
         p.id = bridge.preview.id, p.cmd = bridge.preview.cmd, p.man = bridge.preview.man,
         bridge.preview.attempted => p.attempted, bridge.preview.viewed => p.viewed,
         bridge' = [bridge EXCEPT !.preview = p],
         UNCHANGED <<service, maps, exported, world, sent, seen, prepared>>,
         \/ UNCHANGED sending
         \/ sending' = [NoTransfer EXCEPT !.at = "seal"] /\ p.attempted /\ ~bridge.preview.attempted
  PROVE  ExportInv'
<1>1. bridge \in Sessions /\ sending \in Transfers /\ TransferSound /\ PreviewFresh
  BY DEF ExportInv, ExportTypeOK
<1>2. bridge' \in Sessions /\ bridge'.preview = p
  BY <1>1, SessionFields
<1>3. p # NoValue
  BY PrivacyAssumption
<1>4. sending' \in Transfers /\ (sending' # sending => sending'.at = "seal" /\ sending'.map = 0)
  BY <1>1 DEF Transfers, NoTransfer
<1>5. ExportTypeOK' /\ ReviewShown' /\ SentIsKnown'
  BY <1>2, <1>4
     DEF ExportInv, ExportTypeOK, ReviewShown, world, service, SentIsKnown, SentOnce,
         SentCanBeRestored, ExportedIsExact
<1>6. PreviewFresh'
  BY <1>1, <1>2, <1>3, <1>4 DEF PreviewFresh, UnderWay
<1>7. TransferSound'
  <2>1. CASE UNCHANGED sending
    BY <1>1, <1>2, <1>3, <2>1 DEF TransferSound, Stored, world, service
  <2>2. CASE sending' # sending
    BY <1>1, <1>2, <1>3, <1>4, <2>2 DEF TransferSound, Stored, world, service
  <2> QED  BY <2>1, <2>2
<1> QED  BY <1>5, <1>6, <1>7 DEF ExportInv

\* The fields of a preview with one of its marks changed.
LEMMA Marks ==
  ASSUME NEW p \in Previews
  PROVE  /\ [p EXCEPT !.viewed = TRUE] \in Previews /\ [p EXCEPT !.confirmed = TRUE] \in Previews
         /\ [p EXCEPT !.attempted = TRUE] \in Previews /\ [p EXCEPT !.live = FALSE] \in Previews
         /\ [p EXCEPT !.attempted = TRUE].attempted /\ [p EXCEPT !.viewed = TRUE].viewed
         /\ \A q \in {[p EXCEPT !.viewed = TRUE], [p EXCEPT !.confirmed = TRUE],
                      [p EXCEPT !.attempted = TRUE], [p EXCEPT !.live = FALSE]} :
              /\ q.id = p.id /\ q.cmd = p.cmd /\ q.man = p.man
              /\ p.attempted => q.attempted
              /\ p.viewed => q.viewed
BY DEF Previews

LEMMA PreviewActionsKeep ==
  ASSUME ExportInv, ViewPdf \/ ConfirmExport \/ BeginTransfer \/ PreviewLapses
  PROVE  ExportInv'
<1>1. /\ bridge.preview # NoValue
      /\ UNCHANGED <<service, maps, exported, world, sent, seen, prepared>>
  BY DEF ViewPdf, ConfirmExport, BeginTransfer, PreviewLapses, Presented
<1>2. bridge \in Sessions /\ bridge.preview \in Previews
  BY <1>1, SessionFields DEF ExportInv, ExportTypeOK
<1>3. PICK q \in {[bridge.preview EXCEPT !.viewed = TRUE], [bridge.preview EXCEPT !.confirmed = TRUE],
                 [bridge.preview EXCEPT !.attempted = TRUE], [bridge.preview EXCEPT !.live = FALSE]} :
        /\ bridge' = [bridge EXCEPT !.preview = q]
        /\ \/ UNCHANGED sending
           \/ /\ sending' = [NoTransfer EXCEPT !.at = "seal"] /\ ~bridge.preview.attempted
              /\ q = [bridge.preview EXCEPT !.attempted = TRUE]
  BY DEF ViewPdf, ConfirmExport, BeginTransfer, PreviewLapses
<1>4. /\ q \in Previews /\ q.id = bridge.preview.id /\ q.cmd = bridge.preview.cmd
      /\ q.man = bridge.preview.man /\ (bridge.preview.attempted => q.attempted)
      /\ (bridge.preview.viewed => q.viewed)
      /\ (sending' = sending \/ q.attempted)
  BY <1>2, <1>3, Marks
<1> QED  BY <1>1, <1>3, <1>4, PreviewMarked

-----------------------------------------------------------------------------
\* The finally clause keeps the handle the transfer has got.
LEMMA HandleKept ==
  ASSUME ExportInv, KeepHandle
  PROVE  /\ maps \subseteq maps' /\ maps' \subseteq DOMAIN store
         /\ sending.map # 0 => sending.map \in maps'
BY DEF ExportInv, ExportTypeOK, TransferSound, KeepHandle

\* A step of the transfer after which nothing is under way and nothing more was sent.
LEMMA TransferEnds ==
  ASSUME ExportInv, KeepHandle, sending' = NoTransfer, sending.at # "idle",
         UNCHANGED <<service, bridge, world, sent, seen, prepared>>,
         \/ UNCHANGED exported
         \/ /\ sending.at = "record"
            /\ exported' = [x \in DOMAIN exported \cup {bridge.preview.man} |->
                              IF x = bridge.preview.man THEN sending.map ELSE exported[x]]
  PROVE  ExportInv'
<1>1. maps \subseteq maps' /\ maps' \subseteq DOMAIN store /\ (sending.map # 0 => sending.map \in maps')
  BY HandleKept
<1>2. NoTransfer \in Transfers /\ NoTransfer.at = "idle" /\ NoTransfer.map = 0
  BY DEF NoTransfer, Transfers
<1>3. bridge.preview \in Previews /\ bridge.preview # NoValue /\ bridge.preview.attempted
      /\ bridge.preview.man \in Manifests
  <2>1. bridge.preview # NoValue /\ bridge.preview.attempted
    BY DEF ExportInv, TransferSound
  <2>2. bridge.preview \in Previews
    BY <2>1, SessionFields DEF ExportInv, ExportTypeOK
  <2> QED  BY <2>1, <2>2 DEF Previews
<1>4. ExportTypeOK'
  BY <1>1, <1>2, <1>3 DEF ExportInv, ExportTypeOK, world, service
<1>5. ReviewShown' /\ TransferSound'
  BY <1>2 DEF ExportInv, ReviewShown, TransferSound, service, Stored
<1>6. PreviewFresh'
  BY <1>2, <1>3 DEF ExportInv, PreviewFresh, UnderWay
<1>7. ExportedIsExact'
  <2>1. CASE UNCHANGED exported
    BY <1>1, <2>1 DEF ExportInv, SentIsKnown, ExportedIsExact
  <2>2. CASE /\ sending.at = "record"
             /\ exported' = [x \in DOMAIN exported \cup {bridge.preview.man} |->
                               IF x = bridge.preview.man THEN sending.map ELSE exported[x]]
    <3>1. PICK m : m = bridge.preview.man
      OBVIOUS
    <3>2. sending.map \in maps'
      <4>1. sending.map \in DOMAIN store
        BY <2>2 DEF ExportInv, TransferSound, Stored
      <4>2. DOMAIN store = 1..Len(store) /\ Len(store) \in Nat
        BY DEF ExportInv, ExportTypeOK
      <4>3. sending.map # 0
        BY <4>1, <4>2
      <4> QED  BY <1>1, <4>3
    <3>3. \E i \in DOMAIN sent : sent[i].man = m /\ sent[i].map = sending.map
      BY <2>2, <3>1 DEF ExportInv, TransferSound
    <3>4. /\ DOMAIN exported' = DOMAIN exported \cup {m} /\ exported'[m] = sending.map
          /\ \A x \in DOMAIN exported : x # m => exported'[x] = exported[x]
      BY <2>2, <3>1
    <3>5. \A x \in DOMAIN exported : exported[x] \in maps'
                /\ \E i \in DOMAIN sent : sent[i].man = x /\ sent[i].map = exported[x]
      BY <1>1 DEF ExportInv, SentIsKnown, ExportedIsExact
    <3> QED  BY <3>2, <3>3, <3>4, <3>5 DEF ExportedIsExact
  <2> QED  BY <2>1, <2>2
<1>8. SentIsKnown'
  BY <1>7 DEF ExportInv, SentIsKnown, SentOnce, SentCanBeRestored, world
<1> QED  BY <1>4, <1>5, <1>6, <1>8 DEF ExportInv

\* The transfer goes on, without a change of anything else.
LEMMA TransferGoesOn ==
  ASSUME ExportInv, NEW at \in {"readmit", "accept"}, sending' = [sending EXCEPT !.at = at],
         UNCHANGED <<service, session, world, sent, seen, prepared>>,
         sending.at \in {"confirm", "readmit"}, bridge.preview.viewed,
         at = "accept" => /\ review.cmd = bridge.preview.cmd /\ review.cmd.pages = SourcePages
                          /\ review.approval # NoValue /\ review.approval.rev = review.cmd.rev
  PROVE  ExportInv'
<1>1. sending \in Transfers  BY DEF ExportInv, ExportTypeOK
<1>2. sending' \in Transfers /\ sending'.at = at /\ sending'.map = sending.map
  BY <1>1 DEF Transfers
<1>3. ExportTypeOK' /\ ReviewShown' /\ SentIsKnown'
  BY <1>2 DEF ExportInv, ExportTypeOK, ReviewShown, world, service, session, SentIsKnown, SentOnce,
              SentCanBeRestored, ExportedIsExact
<1>4. PreviewFresh'
  BY <1>2 DEF ExportInv, PreviewFresh, UnderWay, session
<1>5. TransferSound'
  BY <1>2 DEF ExportInv, TransferSound, Stored, world, service, session
<1> QED  BY <1>3, <1>4, <1>5 DEF ExportInv

LEMMA ConfirmKeeps ==
  ASSUME ExportInv, Confirm
  PROVE  ExportInv'
<1>1. bridge.preview.viewed  BY DEF Confirm, ExactConfirmation
<1> QED  BY <1>1, TransferGoesOn DEF Confirm

LEMMA ReadmitKeeps ==
  ASSUME ExportInv, Readmit
  PROVE  ExportInv'
<1>1. bridge.preview.viewed  BY DEF ExportInv, TransferSound, Readmit
<1>2. /\ review.cmd = bridge.preview.cmd /\ review.cmd.pages = SourcePages
      /\ review.approval # NoValue /\ review.approval.rev = review.cmd.rev
  BY DEF Readmit, Admitted, Permits
<1> QED  BY <1>1, <1>2, TransferGoesOn DEF Readmit

LEMMA SealKeeps ==
  ASSUME ExportInv, Seal
  PROVE  ExportInv'
<1>1. /\ sending.at = "seal" /\ store' = Append(store, Envelope(bridge.preview))
      /\ sending' = [at |-> "confirm", map |-> Len(store) + 1]
      /\ UNCHANGED <<service, session, readable, unlocked, sent, seen, prepared>>
  BY DEF Seal
<1>2. /\ store \in Seq(Envelopes) /\ maps \subseteq DOMAIN store
      /\ bridge.preview # NoValue /\ bridge.preview \in Previews
  BY <1>1, SessionFields DEF ExportInv, ExportTypeOK, TransferSound
<1>3. PICK e : e = Envelope(bridge.preview)
  OBVIOUS
<1>4. e \in Envelopes /\ e.man = bridge.preview.man /\ e.cmd = bridge.preview.cmd
  BY <1>2, <1>3 DEF Envelope, Envelopes, Previews
<1>5. PICK n \in Nat : n = Len(store) + 1
  BY <1>2
<1>6. /\ store' \in Seq(Envelopes) /\ n \in DOMAIN store' /\ store'[n] = e
      /\ \A k \in DOMAIN store : k \in DOMAIN store' /\ store'[k] = store[k]
  BY <1>1, <1>2, <1>3, <1>4, <1>5
<1>7. sending' \in Transfers /\ sending'.at = "confirm" /\ sending'.map = n
  BY <1>1, <1>5 DEF Transfers
<1>8. ExportTypeOK'
  BY <1>1, <1>2, <1>6, <1>7 DEF ExportInv, ExportTypeOK, service, session
<1>9. ReviewShown' /\ PreviewFresh'
  BY <1>1, <1>7 DEF ExportInv, ReviewShown, PreviewFresh, service, session, UnderWay
<1>10. TransferSound'
  BY <1>1, <1>4, <1>6, <1>7 DEF ExportInv, TransferSound, Stored, session
<1>11. SentIsKnown'
  <2>1. SentCanBeRestored'
    BY <1>1, <1>6 DEF ExportInv, SentIsKnown, SentCanBeRestored
  <2> QED  BY <1>1, <2>1 DEF ExportInv, SentIsKnown, SentOnce, ExportedIsExact, session
<1> QED  BY <1>8, <1>9, <1>10, <1>11 DEF ExportInv

\* What the sink takes is the preview under way, for the first time.
LEMMA Sent ==
  ASSUME ExportInv, Sends, sending.at = "accept"
  PROVE  /\ sent' \in Seq(Bundles) /\ Len(sent') = Len(sent) + 1
         /\ DOMAIN sent' = DOMAIN sent \cup {Len(sent')} /\ Len(sent') \notin DOMAIN sent
         /\ \A i \in DOMAIN sent : sent'[i] = sent[i] /\ sent[i].preview # bridge.preview.id
         /\ sent'[Len(sent')] = [preview |-> bridge.preview.id, man |-> bridge.preview.man,
                                 cmd |-> bridge.preview.cmd, map |-> sending.map]
<1>1. /\ sent \in Seq(Bundles) /\ bridge.preview # NoValue /\ bridge.preview \in Previews
      /\ sending \in Transfers
  BY SessionFields DEF ExportInv, ExportTypeOK, TransferSound
<1>2. PICK b : b = [preview |-> bridge.preview.id, man |-> bridge.preview.man,
                    cmd |-> bridge.preview.cmd, map |-> sending.map]
  OBVIOUS
<1>3. b \in Bundles
  BY <1>1, <1>2 DEF Bundles, Previews, Transfers
<1>4. sent' = Append(sent, b)
  BY <1>2 DEF Sends
<1>5. \A i \in DOMAIN sent : sent[i].preview # bridge.preview.id
  BY <1>1 DEF ExportInv, PreviewFresh, UnderWay
<1> QED  BY <1>1, <1>2, <1>3, <1>4, <1>5

\* After that, what was sent is still known, whether the answer arrives or is lost.
LEMMA SendingKeeps ==
  ASSUME ExportInv, Sends, sending.at = "accept", UNCHANGED <<service, bridge, exported, world, seen, prepared>>,
         maps \subseteq maps', maps' \subseteq DOMAIN store,
         sending' = NoTransfer \/ sending' = [sending EXCEPT !.at = "record"]
  PROVE  ExportInv'
<1>1. /\ sent' \in Seq(Bundles) /\ DOMAIN sent' = DOMAIN sent \cup {Len(sent')}
      /\ Len(sent') \notin DOMAIN sent
      /\ \A i \in DOMAIN sent : sent'[i] = sent[i] /\ sent[i].preview # bridge.preview.id
  BY Sent
<1>2. PICK n : n = Len(sent')
  OBVIOUS
<1>3. /\ sent'[n].preview = bridge.preview.id /\ sent'[n].man = bridge.preview.man
      /\ sent'[n].cmd = bridge.preview.cmd /\ sent'[n].map = sending.map
  BY <1>2, Sent
<1>4. /\ sending \in Transfers /\ TransferSound /\ PreviewFresh /\ bridge.preview # NoValue
      /\ bridge.preview.attempted
  BY DEF ExportInv, ExportTypeOK, TransferSound
<1>5. /\ sending' \in Transfers /\ sending'.at \in {"idle", "record"}
      /\ sending'.at = "idle" => sending'.map = 0
      /\ sending'.at = "record" => sending'.map = sending.map
  BY <1>4 DEF Transfers, NoTransfer
<1>6. ExportTypeOK'
  BY <1>1, <1>5 DEF ExportInv, ExportTypeOK, service, world
<1>7. ReviewShown'
  BY DEF ExportInv, ReviewShown, service
<1>8. PreviewFresh'
  BY <1>1, <1>2, <1>3, <1>4, <1>5 DEF PreviewFresh, UnderWay
<1>9. TransferSound'
  BY <1>1, <1>2, <1>3, <1>4, <1>5 DEF TransferSound, Stored, world
<1>10. SentIsKnown'
  <2>1. SentOnce'
    BY <1>1, <1>2, <1>3 DEF ExportInv, SentIsKnown, SentOnce
  <2>2. SentCanBeRestored'
    <3>1. /\ sending.map \in DOMAIN store /\ store[sending.map].man = bridge.preview.man
          /\ store[sending.map].cmd = bridge.preview.cmd
      BY <1>4 DEF TransferSound, Stored
    <3> QED
      BY <1>1, <1>2, <1>3, <3>1 DEF ExportInv, SentIsKnown, SentCanBeRestored, world
  <2>3. ExportedIsExact'
    <3>1. exported' = exported
      OBVIOUS
    <3>2. ASSUME NEW m \in DOMAIN exported
          PROVE  exported[m] \in maps' /\ \E i \in DOMAIN sent' : sent'[i].man = m /\ sent'[i].map = exported[m]
      <4>1. exported[m] \in maps
        BY DEF ExportInv, SentIsKnown, ExportedIsExact
      <4>2. PICK i \in DOMAIN sent : sent[i].man = m /\ sent[i].map = exported[m]
        BY DEF ExportInv, SentIsKnown, ExportedIsExact
      <4> QED  BY <4>1, <4>2, <1>1
    <3> QED  BY <3>1, <3>2 DEF ExportedIsExact
  <2> QED  BY <2>1, <2>2, <2>3 DEF SentIsKnown
<1> QED  BY <1>6, <1>7, <1>8, <1>9, <1>10 DEF ExportInv

LEMMA TransferActionsKeep ==
  ASSUME ExportInv, Accept \/ AcceptUnknown \/ Record \/ TransferFails
  PROVE  ExportInv'
<1>1. CASE Accept
  BY <1>1, SendingKeeps DEF Accept, session, ExportInv, ExportTypeOK
<1>2. CASE AcceptUnknown
  BY <1>2, SendingKeeps, HandleKept DEF AcceptUnknown
<1>3. CASE Record
  BY <1>3, TransferEnds DEF Record
<1>4. CASE TransferFails
  BY <1>4, TransferEnds DEF TransferFails
<1> QED  BY <1>1, <1>2, <1>3, <1>4

-----------------------------------------------------------------------------
LEMMA ApprovalLapsesKeeps ==
  ASSUME ExportInv, ApprovalLapses
  PROVE  ExportInv'
<1>1. /\ review.approval # NoValue
      /\ UNCHANGED <<revision, approvals, session, world, sending, sent, seen, prepared>>
  BY DEF ApprovalLapses
<1>2. review \in ReviewRecords /\ review.approval \in Approvals
  BY <1>1 DEF ExportInv, ExportTypeOK, ReviewRecords
<1>3. PICK a : a = [review.approval EXCEPT !.live = FALSE]
  OBVIOUS
<1>4. a \in Approvals /\ a.rev = review.approval.rev /\ a # NoValue
  BY <1>2, <1>3, PrivacyAssumption DEF Approvals
<1>5. review' = [review EXCEPT !.approval = a]
  BY <1>3 DEF ApprovalLapses
<1>6. /\ review' \in ReviewRecords /\ review'.cmd = review.cmd /\ review'.approval = a
      /\ review'.previewed = review.previewed
  BY <1>2, <1>4, <1>5 DEF ReviewRecords
<1>7. ExportTypeOK'
  BY <1>1, <1>6 DEF ExportInv, ExportTypeOK, session, world
<1>8. ReviewShown' /\ PreviewFresh'
  BY <1>1, <1>6 DEF ExportInv, ReviewShown, PreviewFresh, session
<1>9. TransferSound'
  BY <1>1, <1>4, <1>6 DEF ExportInv, TransferSound, session, world
<1>10. SentIsKnown'
  BY <1>1 DEF ExportInv, SentIsKnown, SentOnce, SentCanBeRestored, ExportedIsExact, session, world
<1> QED  BY <1>7, <1>8, <1>9, <1>10 DEF ExportInv

LEMMA EnvelopeLapsesKeeps ==
  ASSUME ExportInv, EnvelopeLapses
  PROVE  ExportInv'
<1>1. PICK m \in DOMAIN store : store' = [store EXCEPT ![m].state = "gone"]
  BY DEF EnvelopeLapses
<1>2. UNCHANGED <<service, session, readable, unlocked, sending, sent, seen, prepared>>
  BY DEF EnvelopeLapses
<1>3. store \in Seq(Envelopes) /\ store[m] \in Envelopes
  BY DEF ExportInv, ExportTypeOK
<1>4. PICK e : e = [store[m] EXCEPT !.state = "gone"]
  OBVIOUS
<1>5. e \in Envelopes /\ e.man = store[m].man /\ e.cmd = store[m].cmd
  BY <1>3, <1>4 DEF Envelopes
<1>6. store' = [store EXCEPT ![m] = e]
  BY <1>1, <1>4
<1>7. /\ store' \in Seq(Envelopes) /\ DOMAIN store' = DOMAIN store
      /\ \A k \in DOMAIN store : store'[k].man = store[k].man /\ store'[k].cmd = store[k].cmd
  BY <1>3, <1>5, <1>6
<1>8. ExportTypeOK'
  BY <1>2, <1>7 DEF ExportInv, ExportTypeOK, session, service
<1>9. ReviewShown' /\ PreviewFresh'
  BY <1>2 DEF ExportInv, ReviewShown, PreviewFresh, session, service
<1>10. TransferSound'
  BY <1>2, <1>7 DEF ExportInv, TransferSound, Stored, session, service
<1>11. SentIsKnown'
  BY <1>2, <1>7 DEF ExportInv, SentIsKnown, SentOnce, SentCanBeRestored, ExportedIsExact, session
<1> QED  BY <1>8, <1>9, <1>10, <1>11 DEF ExportInv

\* Files and keys change only what a check will find.
LEMMA SurroundingsKeep ==
  ASSUME ExportInv, FileChanges \/ KeySession \/ UNCHANGED exportVars
  PROVE  ExportInv'
<1>1. UNCHANGED <<service, session, store, sending, sent, seen, prepared>>
  BY DEF FileChanges, KeySession, exportVars, world
<1>2. readable' \subseteq Sources /\ unlocked' \in BOOLEAN
  BY DEF FileChanges, KeySession, exportVars, world, ExportInv, ExportTypeOK
<1> QED
  BY <1>1, <1>2 DEF ExportInv, ExportTypeOK, ReviewShown, TransferSound, Stored, PreviewFresh, SentIsKnown,
     SentOnce, SentCanBeRestored, ExportedIsExact, session, service

LEMMA RestartKeeps ==
  ASSUME ExportInv, Restart
  PROVE  ExportInv'
<1>1. /\ review' = NoReview /\ UNCHANGED <<revision, approvals, world, sent, prepared>>
      /\ bridge' = NoSession /\ maps' = {} /\ exported' = <<>>
      /\ sending' = NoTransfer /\ seen' = NoValue
  BY DEF Restart
<1>2. NoReview \in ReviewRecords /\ NoReview.cmd = NoValue /\ NoSession \in Sessions
      /\ NoSession.preview = NoValue /\ NoTransfer \in Transfers /\ NoTransfer.at = "idle"
      /\ NoTransfer.map = 0 /\ DOMAIN <<>> = {}
  BY DEF NoReview, ReviewRecords, NoSession, Sessions, NoTransfer, Transfers
<1>3. ExportTypeOK'
  BY <1>1, <1>2 DEF ExportInv, ExportTypeOK, world
<1>4. ReviewShown' /\ TransferSound' /\ PreviewFresh'
  BY <1>1, <1>2 DEF ExportInv, ReviewShown, TransferSound, Stored, PreviewFresh
<1>5. SentIsKnown'
  BY <1>1, <1>2 DEF ExportInv, SentIsKnown, SentOnce, SentCanBeRestored, ExportedIsExact, world
<1> QED  BY <1>3, <1>4, <1>5 DEF ExportInv

\* Every step of the session, its thread and its surroundings keeps the invariant.
LEMMA ExportStepKeeps ==
  ASSUME ExportInv, [ExportNext]_exportVars
  PROVE  ExportInv'
<1>1. CASE OpenSource \/ PreviewPage \/ ReviewPage \/ EditSelection \/ RefusedCommand \/ ConfirmReview
  BY <1>1, OpenSourceKeeps, PreviewPageKeeps, ReviewPageKeeps, EditSelectionKeeps, RefusedCommandKeeps,
     ConfirmReviewKeeps
<1>2. CASE Prepare \/ ViewPdf \/ ConfirmExport \/ BeginTransfer \/ PreviewLapses
  BY <1>2, PrepareKeeps, PreviewActionsKeep
<1>3. CASE Seal \/ Confirm \/ Readmit \/ Accept \/ AcceptUnknown \/ Record \/ TransferFails
  BY <1>3, SealKeeps, ConfirmKeeps, ReadmitKeeps, TransferActionsKeep
<1>4. CASE ApprovalLapses \/ EnvelopeLapses \/ FileChanges \/ KeySession \/ Restart \/ UNCHANGED exportVars
  BY <1>4, ApprovalLapsesKeeps, EnvelopeLapsesKeeps, SurroundingsKeep, RestartKeeps
<1> QED  BY <1>1, <1>2, <1>3, <1>4 DEF ExportNext

LEMMA ExportInvHolds == ExportSpec => []ExportInv
<1>1. ExportInit => ExportInv
  <2> SUFFICES ASSUME ExportInit  PROVE ExportInv
    OBVIOUS
  <2>1. NoReview \in ReviewRecords /\ NoReview.cmd = NoValue /\ NoSession \in Sessions
        /\ NoSession.preview = NoValue /\ NoTransfer \in Transfers /\ NoTransfer.at = "idle"
        /\ NoTransfer.map = 0 /\ DOMAIN <<>> = {} /\ <<>> \in Seq(Bundles) /\ <<>> \in Seq(Envelopes)
    BY DEF NoReview, ReviewRecords, NoSession, Sessions, NoTransfer, Transfers
  <2>2. ExportTypeOK
    BY <2>1, PrivacyAssumption DEF ExportInit, ExportTypeOK
  <2> QED
    BY <2>1, <2>2 DEF ExportInit, ExportInv, ReviewShown, TransferSound, Stored, PreviewFresh, SentIsKnown,
       SentOnce, SentCanBeRestored, ExportedIsExact
<1> QED  BY <1>1, ExportStepKeeps, PTL DEF ExportSpec

\* SentIsKnown for any sources, pages and regions: whatever is lost, cancelled or retried, a
\* preview is sent once at most, its mapping was stored before for that very command, and
\* what the session remembers as exported was sent (the gate's preview.attempted and its
\* finally clause, the bridge's exported map).
THEOREM SentKnown == ExportSpec => []SentIsKnown
<1>1. ExportInv => SentIsKnown
  BY DEF ExportInv
<1> QED  BY <1>1, ExportInvHolds, PTL

\* What leaves the machine was reviewed: every page of its source was seen under exactly the
\* selections it was built from, the approval is of that revision, and the bundle itself was
\* looked at (_change clearing previews, the live checks of permits).
THEOREM Reviewed == ExportSpec => SentWasReviewed
<1>1. ASSUME ExportInv, [ExportNext]_exportVars
      PROVE  [ReviewedWhenSent]_exportVars
  <2> SUFFICES ASSUME sent' # sent  PROVE ReviewedWhenSent
    BY <1>1 DEF ReviewedWhenSent, exportVars
  <2>1. Accept \/ AcceptUnknown
    BY <1>1 DEF ExportNext, exportVars, OpenSource, PreviewPage, ReviewPage, EditSelection, RefusedCommand,
       ConfirmReview, Prepare, ViewPdf, ConfirmExport, BeginTransfer, Seal, Confirm, Readmit, Record,
       TransferFails, ApprovalLapses, PreviewLapses, EnvelopeLapses, FileChanges, KeySession, Restart
  <2>2. Sends /\ sending.at = "accept"
    BY <1>1, <2>1 DEF Accept, AcceptUnknown
  <2>3. /\ sent'[Len(sent')].cmd = bridge.preview.cmd /\ bridge.preview.viewed
        /\ review.cmd = bridge.preview.cmd /\ review.cmd.pages = SourcePages
        /\ review.approval # NoValue /\ review.approval.rev = review.cmd.rev
    BY <1>1, <2>2, Sent DEF ExportInv, TransferSound
  <2>4. review.cmd # NoValue /\ review.cmd \in Commands /\ review.previewed \subseteq SourcePages
        /\ seen \in Looks \cup {NoValue}
    <3>1. bridge.preview \in Previews
      BY <1>1, <2>2, SessionFields DEF ExportInv, ExportTypeOK, TransferSound
    <3>2. bridge.preview.cmd \in Commands
      BY <1>1, <3>1 DEF Previews
    <3> QED  BY <1>1, <2>3, <3>2, PrivacyAssumption DEF ExportInv, ExportTypeOK, ReviewRecords
  <2>5. review.previewed = SourcePages /\ review.previewed # {}
    BY <1>1, <2>3, <2>4, PrivacyAssumption DEF ExportInv, ReviewShown
  <2>6. seen # NoValue /\ seen.now = [src |-> review.cmd.src, sel |-> review.cmd.sel]
        /\ SourcePages \subseteq seen.pages
    BY <1>1, <2>4, <2>5 DEF ExportInv, ReviewShown
  <2>7. seen.pages \subseteq SourcePages
    BY <1>1, <2>4, <2>6 DEF Looks
  <2> QED  BY <1>1, <2>3, <2>6, <2>7 DEF ReviewedWhenSent
<1> QED  BY <1>1, ExportInvHolds, PTL DEF ExportSpec, SentWasReviewed

\* Until the session restarts, the handle of what was sent is kept (the gate's finally
\* clause), also when the answer is lost or the request was cancelled.
THEOREM HandlesKept == ExportSpec => HandlesAreKept
<1>1. ASSUME ExportInv, [ExportNext]_exportVars
      PROVE  \A i \in DOMAIN sent :
               (sent[i].map \in maps \/ sent[i].map = sending.map) =>
                 \/ sent[i].map \in maps' \/ sent[i].map = sending'.map
                 \/ seen' = NoValue
  <2>1. CASE Restart
    BY <1>1, <2>1 DEF Restart
  <2>2. CASE (maps \subseteq maps') /\ (sending.map # 0 => sending.map \in maps')
    <3>1. \A i \in DOMAIN sent : sent[i].map # 0
      <4>1. \A i \in DOMAIN sent : sent[i].map \in DOMAIN store
        BY <1>1 DEF ExportInv, SentIsKnown, SentCanBeRestored
      <4>2. DOMAIN store = 1..Len(store) /\ Len(store) \in Nat
        BY <1>1 DEF ExportInv, ExportTypeOK
      <4> QED  BY <1>1, <4>1, <4>2
    <3> QED  BY <1>1, <2>2, <3>1
  <2>3. CASE (maps \subseteq maps') /\ sending'.map = sending.map
    BY <1>1, <2>3
  <2>4. CASE AcceptUnknown \/ Record \/ TransferFails
    BY <1>1, <2>2, <2>4, HandleKept DEF AcceptUnknown, Record, TransferFails
  <2>5. CASE Seal \/ BeginTransfer
    <3>1. maps' = maps /\ sending.at \in {"idle", "seal"}
      BY <1>1, <2>5 DEF Seal, BeginTransfer, session, Resting
    <3>2. sending.map = 0
      BY <1>1, <3>1 DEF ExportInv, TransferSound
    <3> QED  BY <1>1, <2>2, <3>1, <3>2
  <2>6. CASE Confirm \/ Readmit \/ Accept
    <3>1. maps' = maps /\ sending \in Transfers
      BY <1>1, <2>6 DEF Confirm, Readmit, Accept, session, ExportInv, ExportTypeOK
    <3>2. sending'.map = sending.map
      BY <1>1, <2>6, <3>1 DEF Confirm, Readmit, Accept, Transfers
    <3> QED  BY <1>1, <2>3, <3>1, <3>2
  <2>7. CASE maps' = maps /\ sending' = sending
    BY <1>1, <2>3, <2>7
  <2> QED
    BY <1>1, <2>1, <2>4, <2>5, <2>6, <2>7 DEF ExportNext, exportVars, session, OpenSource, PreviewPage, ReviewPage,
       EditSelection, RefusedCommand, ConfirmReview, Prepare, ViewPdf, ConfirmExport, ApprovalLapses,
       PreviewLapses, EnvelopeLapses, FileChanges, KeySession
<1> QED  BY <1>1, ExportInvHolds, PTL DEF ExportSpec, HandlesAreKept

\* A manifest that was exported keeps the map it was first exported with, until a restart.
THEOREM ExportedStable == ExportSpec => ExportedIsStable
<1>1. ASSUME ExportInv, [ExportNext]_exportVars
      PROVE  \A m \in DOMAIN exported :
               \/ m \in DOMAIN exported' /\ exported'[m] = exported[m]
               \/ seen' = NoValue
  <2>1. CASE Restart
    BY <1>1, <2>1 DEF Restart
  <2>2. CASE Record
    <3>1. CASE exported' = exported
      BY <1>1, <3>1
    <3>2. CASE exported' # exported
      <4>1. PICK m : m = bridge.preview.man
        BY <1>1
      <4>2. /\ m \notin DOMAIN exported
            /\ exported' = [x \in DOMAIN exported \cup {m} |-> IF x = m THEN sending.map ELSE exported[x]]
        BY <1>1, <2>2, <3>2, <4>1 DEF Record, Binds
      <4> QED  BY <1>1, <4>2
    <3> QED  BY <1>1, <3>1, <3>2
  <2>3. CASE exported' = exported
    BY <1>1, <2>3
  <2> QED
    BY <1>1, <2>1, <2>2, <2>3 DEF ExportNext, exportVars, session, OpenSource, PreviewPage, ReviewPage,
       EditSelection, RefusedCommand, ConfirmReview, Prepare, ViewPdf, ConfirmExport, ApprovalLapses,
       PreviewLapses, EnvelopeLapses, FileChanges, KeySession, BeginTransfer, Seal, Confirm, Readmit, Accept,
       AcceptUnknown, TransferFails
<1> QED  BY <1>1, ExportInvHolds, PTL DEF ExportSpec, ExportedIsStable
=============================================================================
