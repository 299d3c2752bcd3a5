------------------------------ MODULE MCPrivacy ------------------------------
(***************************************************************************)
(* The local privacy session, out (PrivacyExport) and back (PrivacyRefill).*)
(* `part' says which instance a behaviour is about:                        *)
(*   refill   two results, one review slot and one archive directory       *)
(*   export   one source of two pages, two exports                         *)
(*   sources  two sources opened in turn and a region added by hand        *)
(***************************************************************************)
EXTENDS PrivacyRefill, PrivacyExport, TLC

VARIABLE part

TwoPages == {1, 2}
OnePage == {1}
OneSource == {"s1"}
TwoSources == {"s1", "s2"}
Found == {"c1"}
Added == {"c2"}
Symmetric == Permutations(Results)

SourcesInTurn == INSTANCE PrivacyExport WITH
    Sources <- TwoSources, SourcePages <- OnePage, Manual <- Added,
    MaxEvents <- 4, MaxApprovals <- 1, MaxPreviews <- 1
ASSUME SourcesInTurn!PrivacyAssumption

MCInit ==
    /\ part \in {"refill", "export", "sources"}
    /\ Init
    /\ IF part = "sources" THEN SourcesInTurn!ExportInit ELSE ExportInit
MCNext ==
    \/ part = "refill" /\ Next /\ UNCHANGED <<part, exportVars>>
    \/ part = "export" /\ ExportNext /\ UNCHANGED <<part, vars>>
    \/ part = "sources" /\ SourcesInTurn!ExportNext /\ UNCHANGED <<part, vars>>
MCSpec == MCInit /\ [][MCNext]_<<part, vars, exportVars>>

\* What leaves the machine was shown to a human under exactly the selections it was built
\* from, and no handle or exported map is lost before a restart; what is written back is of
\* the current, pinned publication and a review with both receipts, and no evidence is
\* dropped unarchived (PrivacyExport!ReviewedWhenSent, HandlesAreKept and
\* ExportedIsStable, PrivacyRefill!EvidenceIsArchived and
\* WrittenIsAuthorized).
NothingPassesUnreviewed ==
    /\ [][IF part = "sources" THEN SourcesInTurn!ReviewedWhenSent ELSE ReviewedWhenSent]_exportVars
    /\ HandlesAreKept /\ ExportedIsStable
    /\ EvidenceIsArchived /\ WrittenIsAuthorized
=============================================================================
