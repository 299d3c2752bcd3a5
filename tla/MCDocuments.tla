---------------------------- MODULE MCDocuments -----------------------------
(***************************************************************************)
(* Documents on their way in (DocumentTransfer) and the report on its way  *)
(* out (ArtifactPublication).  `part' says which instance a behaviour is   *)
(* about; the component it is not about rests.                             *)
(*                                                                         *)
(* In:  ingest     one export, signed twice, sent by two callers           *)
(*      snapshot   one run, its snapshot and its reads by two callers      *)
(*      versions   an export, its successor or another document, and a run *)
(*                 over two documents                                      *)
(* Out: fence      two workers of a job with two runs, SQLite              *)
(*      readers    one worker and a reader, SQLite                         *)
(*      cloud      one worker and a reader, DynamoDB                       *)
(*      cloudfence two workers, DynamoDB                                   *)
(*      nextrun    one worker and a reader, who asks for either of two     *)
(*      cloudnext  runs that have one attempt each; SQLite and DynamoDB    *)
(***************************************************************************)
EXTENDS ArtifactPublication, DocumentTransfer, TLC

CONSTANTS uploader,
          MaxClaims    \* bound: attempts of the job in part fence

VARIABLE part

First == [export |-> "e1", content |-> "pdf1", by |-> uploader, follows |-> NoValue]
Resigned == [First EXCEPT !.content = "pdf2"]
Successor == [export |-> "e2", content |-> "pdf2", by |-> uploader, follows |-> "e1"]
Another == [Successor EXCEPT !.follows = NoValue]
Signed == {First, Resigned, Successor, Another}
FirstRun == [id |-> "r1", docs |-> {"e1"}]
BothDocuments == [id |-> "r2", docs |-> {"e1", "e2"}]
TwoRuns == {FirstRun, BothDocuments}
Full == {<<uploader, "ingest">>, <<uploader, "snapshot">>, <<"worker", "snapshot">>, <<"worker", "read">>}
TwoPdfs == {"pdf1", "pdf2"}
OnePdf == {"pdf1"}
OneWorker == {"worker"}
OneReader == {"reader"}

\* One step of a transfer that is about these attestations (of which some may lapse), runs
\* and callers.
TransferStep(atts, lapsing, runs, callers, actors, most) ==
    /\ TransferNext
    /\ expired' \subseteq lapsing /\ faults' <= most
    /\ \A c \in Callers : call'[c] # Idle =>
          /\ c \in callers /\ call'[c].by \in actors
          /\ call'[c].att \in atts \cup {NoValue} /\ call'[c].run \in runs \cup {NoValue}
Ingest == TransferStep({First, Resigned}, {First, Resigned}, {}, Callers, {uploader}, 1)
Snapshot == TransferStep({First}, {First}, {FirstRun}, Callers, Actors, 0)
Versions == TransferStep({First, Successor, Another}, {}, {BothDocuments},
                         {CHOOSE c \in Callers : TRUE}, Actors, 0)

Local == INSTANCE ArtifactPublication WITH
    Workers <- OneWorker, Readers <- OneReader, MaxRun <- 1
Cloud == INSTANCE ArtifactPublication WITH
    Workers <- OneWorker, Readers <- OneReader, Contents <- OnePdf, Backend <- "dynamo", MaxRun <- 1
CloudFence == INSTANCE ArtifactPublication WITH
    Contents <- OnePdf, Backend <- "dynamo", MaxRun <- 1
NextRun == INSTANCE ArtifactPublication WITH
    Workers <- OneWorker, Readers <- OneReader, Contents <- OnePdf,
    MaxToken <- 1, MaxTime <- 1, MaxRevoke <- 0
CloudNext == INSTANCE ArtifactPublication WITH
    Workers <- OneWorker, Readers <- OneReader, Contents <- OnePdf, Backend <- "dynamo",
    MaxToken <- 1, MaxTime <- 1, MaxRevoke <- 0

Symmetric == Permutations(Workers) \cup Permutations(Contents)

In == {"ingest", "snapshot", "versions"}
Out == {"fence", "readers", "cloud", "cloudfence", "nextrun", "cloudnext"}
MCInit ==
    /\ part \in In \cup Out
    /\ CASE part = "readers" -> Local!Init
         [] part = "cloud" -> Cloud!Init
         [] part = "cloudfence" -> CloudFence!Init
         [] part = "nextrun" -> NextRun!Init
         [] part = "cloudnext" -> CloudNext!Init
         [] OTHER -> Init
    /\ TransferInit
MCNext ==
    \/ /\ \/ part = "fence" /\ Next /\ job'.run + job'.token <= MaxClaims + 1
          \/ part = "readers" /\ Local!Next
          \/ part = "cloud" /\ Cloud!Next
          \/ part = "cloudfence" /\ CloudFence!Next
          \/ part = "nextrun" /\ NextRun!Next
          \/ part = "cloudnext" /\ CloudNext!Next
       /\ UNCHANGED <<part, transferVars>>
    \/ /\ \/ part = "ingest" /\ Ingest
          \/ part = "snapshot" /\ Snapshot
          \/ part = "versions" /\ Versions
       /\ UNCHANGED <<part, vars>>
MCSpec == MCInit /\ [][MCNext]_<<part, vars, transferVars>>
=============================================================================
