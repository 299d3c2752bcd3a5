--------------------------- MODULE PrivacyExport ---------------------------
(***************************************************************************)
(* One local privacy session: the human review of a source's sensitive     *)
(* regions (LocalPrivacyReviewService), the preview, confirmation and      *)
(* transfer of the sanitized bundle (the bridge's handlers and             *)
(* LocalPrivacyExportGate), and the encrypted mapping that is stored       *)
(* before anything leaves the machine (LocalMappingService and its store). *)
(* The session's lock admits one request at a time, so requests are atomic *)
(* except the transfer, which runs in a worker thread while deadlines      *)
(* pass, files change and the key session is locked.                       *)
(***************************************************************************)
EXTENDS Naturals, Sequences

CONSTANTS
  Sources,       \* the configured source documents
  SourcePages,         \* the pages of each source
  Detected,      \* the candidates the scanner finds
  Manual,        \* the regions a human may add
  NoValue,       \* Python's None
  MaxEvents,     \* bound: revisions of the review (the code's is 1000 events per scan)
  MaxApprovals,  \* bound: confirmations of the review
  MaxPreviews    \* bound: prepared previews

VARIABLES
  review,     \* the review service: command, scan, previewed pages, approval
  revision,   \* its revision counter, never reused
  approvals,  \* how many approvals were given
  bridge,     \* the session: open source, held approval, prepared preview
  sending,       \* the transfer running in the worker thread
  store,      \* the encrypted envelopes, in order of creation
  maps,       \* the handles the session kept
  exported,   \* manifest -> the map of its successful transfer
  sent,       \* history: what the sink accepted, in order
  seen,       \* history: the pages shown since the shown selection last differed
  prepared,   \* how many previews were prepared
  readable,   \* the sources whose files still have their digest
  unlocked    \* whether the key session is open

service == <<review, revision, approvals>>
session == <<bridge, maps, exported>>
world == <<store, readable, unlocked>>
exportVars == <<service, session, world, sending, sent, seen, prepared>>

Cands == Detected \cup Manual
Selections == [Cands -> {"absent", "redact", "dismiss"}]
Commands == [src : Sources, rev : Nat, sel : Selections, pages : SUBSET SourcePages]
Approvals == [rev : Nat, id : Nat, live : BOOLEAN]
Manifests == [src : Sources, redacted : SUBSET Cands, build : Nat]
Previews == [id : Nat, cmd : Commands, approval : Nat, man : Manifests, live : BOOLEAN,
             viewed : BOOLEAN, confirmed : BOOLEAN, attempted : BOOLEAN]
Looks == [now : [src : Sources, sel : Selections], pages : SUBSET SourcePages]

ReviewRecords == [cmd : Commands \cup {NoValue}, scan : {"none", "blocked", "complete"},
                  previewed : SUBSET SourcePages, approval : Approvals \cup {NoValue}]
Sessions == [src : Sources \cup {NoValue}, approval : Nat \cup {NoValue},
             preview : Previews \cup {NoValue}]
Transfers == [at : {"idle", "seal", "confirm", "readmit", "accept", "record"}, map : Nat]
Envelopes == [man : Manifests, cmd : Commands, state : {"kept", "gone"}]
Bundles == [preview : Nat, man : Manifests, cmd : Commands, map : Nat]

\* A source has a page (PrivacyManifest.pages); NoValue is none of the values.
ASSUME PrivacyAssumption ==
  /\ Detected \cap Manual = {} /\ SourcePages # {}
  /\ {MaxEvents, MaxApprovals, MaxPreviews} \subseteq Nat
  /\ NoValue \notin Sources \cup Commands \cup Approvals \cup Previews \cup Looks \cup Nat

Redacted(sel) == {c \in Cands : sel[c] = "redact"}

\* Builds differ by the random occurrence ids of their placeholders; without a
\* redaction two builds of one source have the same manifest.
ManifestOf(cmd, n) ==
  [src |-> cmd.src, redacted |-> Redacted(cmd.sel),
   build |-> IF Redacted(cmd.sel) = {} THEN 0 ELSE n]

NoReview == [cmd |-> NoValue, scan |-> "none", previewed |-> {}, approval |-> NoValue]
NoSession == [src |-> NoValue, approval |-> NoValue, preview |-> NoValue]
NoTransfer == [at |-> "idle", map |-> 0]

ExportInit ==
  /\ review = NoReview /\ revision = 0 /\ approvals = 0
  /\ bridge = NoSession
  /\ sending = NoTransfer
  /\ store = <<>> /\ maps = {} /\ exported = <<>>
  /\ sent = <<>> /\ seen = NoValue
  /\ prepared = 0
  /\ readable = Sources /\ unlocked = TRUE

-----------------------------------------------------------------------------
(* What the checks of the code read. *)

Selected == bridge.src # NoValue /\ bridge.src \in readable

Ready == review.scan = "complete"

\* LocalPrivacyReviewService.permits
Permits(approval, cmd) ==
  /\ Ready
  /\ cmd.src \in readable
  /\ review.cmd = cmd
  /\ review.approval # NoValue
  /\ review.approval.id = approval
  /\ review.approval.rev = cmd.rev
  /\ review.approval.live

\* The verifier keeps one entry, the last bundle it rendered and read back.
VerifierHolds(preview) == preview.id = prepared

\* check_export_admission
Admitted(preview) ==
  /\ preview.cmd.pages = SourcePages
  /\ Permits(preview.approval, preview.cmd)
  /\ VerifierHolds(preview)

\* preview_for: the one prepared preview, still current
Presented ==
  /\ Selected
  /\ bridge.preview # NoValue
  /\ bridge.preview.live
  /\ Permits(bridge.preview.approval, bridge.preview.cmd)

\* LocalMappingService.read: the stored envelope, opened with the session's key
EnvelopeReadable(m) == store[m].state = "kept"

MappingReadable(m) == EnvelopeReadable(m) /\ unlocked

\* The bridge's exact confirmation of the payload that was looked at
ExactConfirmation(preview) == preview.confirmed /\ preview.viewed /\ preview.live

Resting == sending.at = "idle"

-----------------------------------------------------------------------------
(* The review. *)

\* A scan that fails or is cancelled leaves no report; a page that cannot be
\* read in time blocks it; every detected candidate starts as a redaction.
ScanOutcomes == {"none", "blocked", "complete"}

DetectedSelection(scan) ==
  [c \in Cands |-> IF scan # "none" /\ c \in Detected THEN "redact" ELSE "absent"]

\* LocalPrivacyReviewService.rescan, the scanner's answer included
Rescan(s) ==
  /\ revision < MaxEvents
  /\ revision' = revision + 1
  /\ \/ \E scan \in ScanOutcomes :
          review' = [cmd |-> [src |-> s, rev |-> revision + 1, pages |-> {},
                              sel |-> DetectedSelection(scan)],
                     scan |-> scan, previewed |-> {}, approval |-> NoValue]
     \/ review' = NoReview    \* the snapshot could no longer be read
  /\ UNCHANGED approvals

\* The source is remembered before its file is checked: a file that cannot be
\* read leaves the earlier source's review in place.
OpenSource ==
  /\ Resting
  /\ \E s \in Sources :
       /\ bridge' = [NoSession EXCEPT !.src = s]
       /\ IF s \in readable THEN Rescan(s) ELSE UNCHANGED service
  /\ UNCHANGED <<maps, exported, world, sending, sent, seen, prepared>>

PreviewPage ==
  /\ Resting /\ Selected
  /\ review.cmd # NoValue /\ review.cmd.src \in readable
  /\ \E p \in SourcePages :
       /\ review' = [review EXCEPT !.previewed = @ \cup {p}]
       /\ seen' = LET now == [src |-> review.cmd.src, sel |-> review.cmd.sel]
                  IN  [now |-> now,
                       pages |-> {p} \cup IF seen # NoValue /\ seen.now = now
                                          THEN seen.pages ELSE {}]
  /\ UNCHANGED <<revision, approvals, session, world, sending, sent, prepared>>

\* Previews survive a change of the selections.
ChangeKeepsPreviews(sel, pages, previewed) ==
  /\ revision < MaxEvents
  /\ revision' = revision + 1
  /\ review' = [review EXCEPT !.cmd = [@ EXCEPT !.rev = revision + 1, !.sel = sel, !.pages = pages],
                              !.approval = NoValue]
  /\ UNCHANGED approvals

\* _change: a new revision, no approval, and every page to be reviewed again
Change(sel, pages, previewed) ==
  /\ revision < MaxEvents
  /\ revision' = revision + 1
  /\ review' = [review EXCEPT !.cmd = [@ EXCEPT !.rev = revision + 1, !.sel = sel, !.pages = pages],
                              !.previewed = previewed, !.approval = NoValue]
  /\ UNCHANGED approvals

Forget == bridge' = [bridge EXCEPT !.approval = NoValue, !.preview = NoValue]

ReviewPage ==
  /\ Resting /\ Selected /\ review.cmd # NoValue
  /\ \E p \in review.previewed : Change(review.cmd.sel, review.cmd.pages \cup {p}, review.previewed)
  /\ Forget
  /\ UNCHANGED <<maps, exported, world, sending, sent, seen, prepared>>

\* add, edit (or revive), remove
EditSelection ==
  /\ Resting /\ Selected /\ review.cmd # NoValue
  /\ \E c \in Cands, d \in {"redact", "dismiss"} :
       /\ d = "dismiss" => review.cmd.sel[c] # "absent"
       /\ review.cmd.sel[c] = "absent" => c \in Manual
       /\ Change([review.cmd.sel EXCEPT ![c] = d], {}, {})
  /\ Forget
  /\ UNCHANGED <<maps, exported, world, sending, sent, seen, prepared>>

\* A command with a stale revision, a page that was not previewed or a full
\* event list is refused, but the bridge has already forgotten its approval.
RefusedCommand ==
  /\ Resting /\ Selected
  /\ Forget
  /\ UNCHANGED <<service, maps, exported, world, sending, sent, seen, prepared>>

ConfirmReview ==
  /\ Resting /\ Selected
  /\ review.cmd # NoValue
  /\ Ready
  /\ review.cmd.pages = SourcePages
  /\ \/ /\ review.cmd.src \in readable
        /\ approvals < MaxApprovals
        /\ approvals' = approvals + 1
        /\ review' = [review EXCEPT !.approval =
                        [rev |-> review.cmd.rev, id |-> approvals + 1, live |-> TRUE]]
        /\ bridge' = [bridge EXCEPT !.approval = approvals + 1, !.preview = NoValue]
     \/ /\ review.cmd.src \notin readable
        /\ review' = [review EXCEPT !.approval = NoValue]
        /\ Forget
        /\ UNCHANGED approvals
  /\ UNCHANGED <<revision, maps, exported, world, sending, sent, seen, prepared>>

-----------------------------------------------------------------------------
(* The preview of the export. *)

\* LocalSanitizedBundleBuilder.build: rendered, redacted, verified and admitted
Build(cmd, approval, n) ==
  [id |-> n, cmd |-> cmd, approval |-> approval, man |-> ManifestOf(cmd, n), live |-> TRUE,
   viewed |-> FALSE, confirmed |-> FALSE, attempted |-> FALSE]

\* The build may fail after the earlier preview was dropped.
Prepare ==
  /\ Resting /\ Selected
  /\ bridge.approval # NoValue /\ review.cmd # NoValue
  /\ prepared < MaxPreviews
  /\ \/ /\ Permits(bridge.approval, review.cmd)
        /\ prepared' = prepared + 1
        /\ bridge' = [bridge EXCEPT !.preview = Build(review.cmd, bridge.approval, prepared + 1)]
     \/ /\ bridge' = [bridge EXCEPT !.preview = NoValue]
        /\ UNCHANGED prepared
  /\ UNCHANGED <<service, maps, exported, world, sending, sent, seen>>

ViewPdf ==
  /\ Resting /\ Presented
  /\ bridge' = [bridge EXCEPT !.preview.viewed = TRUE]
  /\ UNCHANGED <<service, maps, exported, world, sending, sent, seen, prepared>>

ConfirmExport ==
  /\ Resting /\ Presented
  /\ bridge.preview.viewed
  /\ ~bridge.preview.attempted
  /\ bridge' = [bridge EXCEPT !.preview.confirmed = TRUE]
  /\ UNCHANGED <<service, maps, exported, world, sending, sent, seen, prepared>>

-----------------------------------------------------------------------------
(* The transfer: gate.export in the worker thread, the lock held. *)

\* The preview is not marked as attempted.
BeginAgain ==
  /\ Resting /\ Presented
  /\ bridge.preview.confirmed
  /\ sending' = [NoTransfer EXCEPT !.at = "seal"]
  /\ UNCHANGED <<service, session, world, sent, seen, prepared>>

BeginTransfer ==
  /\ Resting /\ Presented
  /\ bridge.preview.confirmed
  /\ ~bridge.preview.attempted
  /\ bridge' = [bridge EXCEPT !.preview.attempted = TRUE]
  /\ sending' = [NoTransfer EXCEPT !.at = "seal"]
  /\ UNCHANGED <<service, maps, exported, world, sent, seen, prepared>>

\* Any failure: the handle, once there is one, is kept for reconciliation.
KeepHandle == maps' = IF sending.map = 0 THEN maps ELSE maps \cup {sending.map}

TransferFails ==
  /\ sending.at \in {"seal", "confirm", "readmit", "accept"}
  /\ KeepHandle
  /\ sending' = NoTransfer
  /\ UNCHANGED <<service, bridge, exported, world, sent, seen, prepared>>

\* What the cipher seals: the exact command and manifest
Envelope(preview) == [man |-> preview.man, cmd |-> preview.cmd, state |-> "kept"]

\* LocalMappingService.create: admission, seal, admission again, create
Seal ==
  /\ sending.at = "seal"
  /\ Admitted(bridge.preview)
  /\ unlocked
  /\ store' = Append(store, Envelope(bridge.preview))
  /\ sending' = [at |-> "confirm", map |-> Len(store) + 1]
  /\ UNCHANGED <<service, session, readable, unlocked, sent, seen, prepared>>

\* read the mapping back, then the exact confirmation
Confirm ==
  /\ sending.at = "confirm"
  /\ MappingReadable(sending.map)
  /\ ExactConfirmation(bridge.preview)
  /\ sending' = [sending EXCEPT !.at = "readmit"]
  /\ UNCHANGED <<service, session, world, sent, seen, prepared>>

\* Confirmation can outlive the key session, retention or the local file.
Readmit ==
  /\ sending.at = "readmit"
  /\ MappingReadable(sending.map)
  /\ Admitted(bridge.preview)
  /\ sending' = [sending EXCEPT !.at = "accept"]
  /\ UNCHANGED <<service, session, world, sent, seen, prepared>>

Sends == sent' = Append(sent, [preview |-> bridge.preview.id, man |-> bridge.preview.man,
                               cmd |-> bridge.preview.cmd, map |-> sending.map])

Accept ==
  /\ sending.at = "accept"
  /\ Sends
  /\ sending' = [sending EXCEPT !.at = "record"]
  /\ UNCHANGED <<service, session, world, seen, prepared>>

\* The sink took the bytes and its answer was lost.
AcceptUnknown ==
  /\ sending.at = "accept"
  /\ Sends
  /\ KeepHandle
  /\ sending' = NoTransfer
  /\ UNCHANGED <<service, bridge, exported, world, seen, prepared>>

\* The request may have been cancelled meanwhile, and a manifest that was
\* already exported keeps its first map.
Binds(m) == m \notin DOMAIN exported

Record ==
  /\ sending.at = "record"
  /\ KeepHandle
  /\ LET m == bridge.preview.man IN
       \/ Binds(m) /\ exported' = [x \in DOMAIN exported \cup {m} |->
                                     IF x = m THEN sending.map ELSE exported[x]]
       \/ UNCHANGED exported
  /\ sending' = NoTransfer
  /\ UNCHANGED <<service, bridge, world, sent, seen, prepared>>

-----------------------------------------------------------------------------
(* What happens around the session. *)

ApprovalLapses ==
  /\ review.approval # NoValue /\ review.approval.live
  /\ review' = [review EXCEPT !.approval.live = FALSE]
  /\ UNCHANGED <<revision, approvals, session, world, sending, sent, seen, prepared>>

PreviewLapses ==
  /\ bridge.preview # NoValue /\ bridge.preview.live
  /\ bridge' = [bridge EXCEPT !.preview.live = FALSE]
  /\ UNCHANGED <<service, maps, exported, world, sending, sent, seen, prepared>>

\* An envelope reaches its retention, or is deleted by LocalMappingService.delete.
EnvelopeLapses ==
  /\ \E m \in DOMAIN store : store[m].state = "kept" /\ store' = [store EXCEPT ![m].state = "gone"]
  /\ UNCHANGED <<service, session, readable, unlocked, sending, sent, seen, prepared>>

FileChanges ==
  /\ \E s \in Sources : readable' = IF s \in readable THEN readable \ {s} ELSE readable \cup {s}
  /\ UNCHANGED <<service, session, store, unlocked, sending, sent, seen, prepared>>

KeySession ==
  /\ unlocked' = ~unlocked
  /\ UNCHANGED <<service, session, store, readable, sending, sent, seen, prepared>>

\* The process ends: everything but the envelopes is lost.
Restart ==
  /\ bridge.src # NoValue
  /\ review' = NoReview /\ UNCHANGED <<revision, approvals>>
  /\ bridge' = NoSession /\ maps' = {} /\ exported' = <<>>
  /\ sending' = NoTransfer /\ seen' = NoValue
  /\ UNCHANGED <<world, sent, prepared>>

ExportNext ==
  \/ OpenSource \/ PreviewPage \/ ReviewPage \/ EditSelection \/ RefusedCommand
  \/ ConfirmReview \/ Prepare \/ ViewPdf \/ ConfirmExport
  \/ BeginTransfer \/ Seal \/ Confirm \/ Readmit \/ Accept \/ AcceptUnknown
  \/ Record \/ TransferFails
  \/ ApprovalLapses \/ PreviewLapses \/ EnvelopeLapses \/ FileChanges \/ KeySession
  \/ Restart

ExportSpec == ExportInit /\ [][ExportNext]_exportVars

-----------------------------------------------------------------------------
\* Every variable has its type.
ExportTypeOK ==
  /\ review \in ReviewRecords /\ revision \in 0..MaxEvents /\ approvals \in 0..MaxApprovals
  /\ bridge \in Sessions /\ sending \in Transfers
  /\ store \in Seq(Envelopes) /\ maps \subseteq DOMAIN store
  /\ DOMAIN exported \subseteq Manifests
  /\ sent \in Seq(Bundles) /\ seen \in Looks \cup {NoValue}
  /\ prepared \in 0..MaxPreviews
  /\ readable \subseteq Sources /\ unlocked \in BOOLEAN

\* What leaves the machine was reviewed: at the moment the sink takes a bundle,
\* every page of its source has been shown under exactly the selections it was
\* built from, no command has changed them since, the approval is the one given
\* to that revision, and the very bundle was looked at (privacy_review's
\* _change clearing previews and pages, and the live checks of permits).
ReviewedWhenSent ==
  sent' # sent =>
       LET x == sent'[Len(sent')] IN
         /\ seen # NoValue
         /\ seen.now = [src |-> x.cmd.src, sel |-> x.cmd.sel]
         /\ seen.pages = SourcePages
         /\ review.cmd = x.cmd
         /\ review.approval # NoValue /\ review.approval.rev = x.cmd.rev
         /\ bridge.preview.viewed

\* A preview is transferred once at most: a lost answer, a second request or a
\* cancelled one never sends the same bundle again (preview.attempted).
SentOnce ==
  \A i, j \in DOMAIN sent : sent[i].preview = sent[j].preview => i = j

\* Whatever the sink may hold can be restored: its mapping was stored before it
\* was sent, for that very command and manifest, and until the process restarts
\* the session keeps the handle even when the answer was lost or the request
\* cancelled (the gate's finally clause).
SentCanBeRestored ==
  \A i \in DOMAIN sent :
    /\ sent[i].map \in DOMAIN store
    /\ store[sent[i].map].man = sent[i].man
    /\ store[sent[i].map].cmd = sent[i].cmd

\* As long as the process lives every sent bundle's handle is kept, whether the
\* sink answered, failed or its answer was lost (only a restart forgets it all).
HandlesAreKept ==
  [][\A i \in DOMAIN sent :
       (sent[i].map \in maps \/ sent[i].map = sending.map) =>
         \/ sent[i].map \in maps' \/ sent[i].map = sending'.map
         \/ seen' = NoValue]_exportVars

\* A manifest that restoration will trust stands for bytes the sink accepted
\* and for the mapping stored for them, and never changes its map.
ExportedIsExact ==
  /\ \A m \in DOMAIN exported :
       /\ exported[m] \in maps
       /\ \E i \in DOMAIN sent : sent[i].man = m /\ sent[i].map = exported[m]

\* An exported manifest keeps its map until the process restarts.
ExportedIsStable ==
  [][\A m \in DOMAIN exported :
       \/ m \in DOMAIN exported' /\ exported'[m] = exported[m]
       \/ seen' = NoValue]_exportVars

\* What the sink may hold was sent once, can be restored, and is what the
\* session remembers of it.
SentIsKnown == SentOnce /\ SentCanBeRestored /\ ExportedIsExact

\* What leaves was reviewed (ReviewedWhenSent), at every step.
SentWasReviewed == [][ReviewedWhenSent]_exportVars
=============================================================================
