-------------------------- MODULE DocumentTransfer --------------------------
(***************************************************************************)
(* Admission of sanitized documents and the snapshots a run reads.  The    *)
(* service makes one create-once object after another (allocation, content,*)
(* document record, snapshot); between any two of them the process may     *)
(* die, the storage may fail before or after it took effect, another call  *)
(* for the same export may run, and the attestation may expire.            *)
(*                                                                         *)
(* Objects are kept as their sequence of storage versions.  The service    *)
(* only ever creates; a second version appears when somebody with access   *)
(* to the bucket writes the key again, which the pinned reads must survive.*)
(* A digest is the value it is the digest of.                              *)
(***************************************************************************)
EXTENDS Naturals, Sequences, FiniteSets

CONSTANTS
    Callers,        \* threads of the gateway and of the workers
    Attestations,   \* signed exports: [export, content, by, follows]
    Pdfs,           \* sanitized PDFs
    SourceRuns,     \* runs: [id, docs], docs the exports of the run's revision
    DocumentGrants, \* pairs <<actor, operation>> of configured grants
    MaxFaults,      \* bound: storage and audit calls that fail
    MaxRewrites,    \* bound: objects written again by an outside party
    NoValue

Actors == {g[1] : g \in DocumentGrants}
Exports == {a.export : a \in Attestations}

ASSUME TransferAssumption ==
    /\ Attestations \subseteq [export : Exports, content : Pdfs, by : Actors, follows : Exports \cup {NoValue}]
    /\ IsFiniteSet(Exports)
    /\ MaxFaults \in Nat /\ MaxRewrites \in Nat
    /\ NoValue \notin Exports /\ NoValue \notin SourceRuns

VARIABLES
    files,      \* key -> its storage versions, oldest first
    call,       \* call[c]: the service call that caller c makes
    expired,    \* attestations outside their validity window
    audit,      \* the audit trail: who succeeded in what
    given,      \* history: what successful calls returned
    faults, rewrites

transferVars == <<files, call, expired, audit, given, faults, rewrites>>

\* Identities are numbered in the order of their allocation; one is to spare.
Ids == 1..(Cardinality(Exports) + 1)
References == [doc : Ids, ver : Ids, content : Pdfs]
StoredDocuments == [ref : References, att : Attestations, version : Nat]
Entries == [ref : References, stored : StoredDocuments]
Snapshots == [by : Actors, entries : SUBSET Entries]
Allocations == [doc : Ids, ver : Ids, att : Attestations]
FileKeys == ({"exports"} \X Exports) \cup ({"content", "documents"} \X Ids \X Ids)
                \cup ({"snapshots"} \X {r.id : r \in SourceRuns})

\* What is kept under a key.
Kept(key) ==
    CASE key[1] = "exports" -> Allocations
      [] key[1] = "content" -> Pdfs
      [] key[1] = "documents" -> StoredDocuments
      [] key[1] = "snapshots" -> Snapshots
Codes == {"ok", "unauthorized", "privacy", "conflict", "integrity", "not_found", "unavailable"}

\* A value returned by a call that ended well.
Gifts == [op : {"ingest"}, by : Actors, of : Attestations, value : References]
            \cup [op : {"snapshot"}, by : Actors, of : SourceRuns, value : SUBSET Entries]
            \cup [op : {"read", "read_snapshot"}, by : Actors, of : References, value : Pdfs]

\* A call: where it is, what it was asked and what it found so far.
Calls == [pc : {"idle", "verify", "allocate", "content", "document", "next", "pin", "lookup", "fetch",
                "publish", "audit"},
          op : {"ingest", "snapshot", "read", "read_snapshot", NoValue}, by : Actors \cup {NoValue},
          att : Attestations \cup {NoValue}, bytes : Pdfs \cup {NoValue}, run : SourceRuns \cup {NoValue},
          ref : References \cup {NoValue}, stored : StoredDocuments \cup {NoValue},
          entries : SUBSET Entries, code : Codes]

Idle == [pc |-> "idle", op |-> NoValue, by |-> NoValue, att |-> NoValue, bytes |-> NoValue, run |-> NoValue,
         ref |-> NoValue, stored |-> NoValue, entries |-> {}, code |-> "ok"]

Exists(key) == files[key] # << >>
Latest(key) == files[key][Len(files[key])]
ContentKey(ref) == <<"content", ref.doc, ref.ver>>
DocumentKey(ref) == <<"documents", ref.doc, ref.ver>>

\* The reference a client holds for an export, once an ingest of it has returned.
Known(e) == {g.value : g \in {x \in given : x.op = "ingest" /\ x.of.export = e}}
RefOf(e) == CHOOSE ref \in Known(e) : TRUE

Call(c, upd) == call' = [call EXCEPT ![c] = upd]
Fail(c, code) == Call(c, [call[c] EXCEPT !.pc = "audit", !.code = code])

(***************************************************************************)
(* Calls begin                                                             *)
(***************************************************************************)

\* ingest: the client holds the attestation and the predecessor's reference.
BeginIngest(c, by, a, bytes) ==
    /\ call[c] = Idle
    /\ a.follows # NoValue => Known(a.follows) # {}
    /\ Call(c, [Idle EXCEPT !.pc = "verify", !.op = "ingest", !.by = by, !.att = a, !.bytes = bytes])
    /\ UNCHANGED <<files, expired, audit, given, faults, rewrites>>

\* create_snapshot: the client holds the references of the run's revision, which are of
\* different documents (MaterialRevision.identities).
BeginSnapshot(c, by, r) ==
    /\ call[c] = Idle
    /\ \A e \in r.docs : Known(e) # {}
    /\ \A e, f \in r.docs : RefOf(e).doc = RefOf(f).doc => e = f
    /\ Call(c, [Idle EXCEPT !.pc = "next", !.op = "snapshot", !.by = by, !.run = r])
    /\ UNCHANGED <<files, expired, audit, given, faults, rewrites>>

\* read, and read_snapshot of a run: the reference is authorized first.
BeginRead(c, by, ref, r) ==
    /\ call[c] = Idle
    /\ LET op == IF r = NoValue THEN "read" ELSE "read_snapshot"
           start == [Idle EXCEPT !.op = op, !.by = by, !.ref = ref, !.run = r]
       IN  Call(c, IF <<by, "read">> \notin DocumentGrants
                   THEN [start EXCEPT !.pc = "audit", !.code = "unauthorized"]
                   ELSE [start EXCEPT !.pc = IF r = NoValue THEN "lookup" ELSE "pin"])
    /\ UNCHANGED <<files, expired, audit, given, faults, rewrites>>

(***************************************************************************)
(* ingest                                                                  *)
(***************************************************************************)

\* Ed25519ExportVerifier.verify.
AttestationHolds(c) == call[c].by = call[c].att.by /\ call[c].att \notin expired

Verify(c) ==
    /\ call[c].pc = "verify"
    /\ IF <<call[c].by, "ingest">> \notin DocumentGrants THEN Fail(c, "unauthorized")
       ELSE IF ~AttestationHolds(c) THEN Fail(c, "privacy")
       ELSE IF call[c].bytes # call[c].att.content THEN Fail(c, "integrity")
       ELSE Call(c, [call[c] EXCEPT !.pc = "allocate"])
    /\ UNCHANGED <<files, expired, audit, given, faults, rewrites>>

\* A fresh identity: a new version, of the predecessor's document if there is one.
Allocation(c) ==
    LET n == 1 + Cardinality({e \in Exports : Exists(<<"exports", e>>)})
        f == call[c].att.follows
    IN  [doc |-> IF f = NoValue THEN n ELSE RefOf(f).doc, ver |-> n, att |-> call[c].att]

\* The create that the call is about to make.
Creation(c) ==
    CASE call[c].pc = "allocate" -> [key |-> <<"exports", call[c].att.export>>, value |-> Allocation(c)]
      [] call[c].pc = "content"  -> [key |-> ContentKey(call[c].ref), value |-> call[c].bytes]
      [] call[c].pc = "document" -> [key |-> DocumentKey(call[c].ref), value |-> call[c].stored]
      [] call[c].pc = "publish"  -> [key |-> <<"snapshots", call[c].run.id>>,
                                     value |-> [by |-> call[c].by, entries |-> call[c].entries]]

Creating == {"allocate", "content", "document", "publish"}

\* What is under the key once create, or the read that follows a conflict, has answered.
Found(key, value) == IF Exists(key) THEN Latest(key) ELSE value

\* storage.create: only a free key is written.
Create(key, value) ==
    files' = IF Exists(key) THEN files ELSE [files EXCEPT ![key] = <<value>>]

\* The allocation is created, or one for this very attestation is found.
Allocate(c) ==
    /\ call[c].pc = "allocate"
    /\ LET k == Creation(c).key
           x == Found(k, Creation(c).value)
       IN  /\ Create(k, Creation(c).value)
           /\ IF x.att # call[c].att THEN Fail(c, "conflict")
              ELSE Call(c, [call[c] EXCEPT !.pc = "content",
                           !.ref = [doc |-> x.doc, ver |-> x.ver, content |-> call[c].bytes]])
    /\ UNCHANGED <<expired, audit, given, faults, rewrites>>

\* _create_once of the content; the record names the storage version it found.
PutContent(c) ==
    /\ call[c].pc = "content"
    /\ LET k == Creation(c).key
           v == IF Exists(k) THEN Len(files[k]) ELSE 1
       IN  /\ Create(k, call[c].bytes)
           /\ IF Found(k, call[c].bytes) # call[c].bytes THEN Fail(c, "conflict")
              ELSE Call(c, [call[c] EXCEPT !.pc = "document",
                           !.stored = [ref |-> call[c].ref, att |-> call[c].att, version |-> v]])
    /\ UNCHANGED <<expired, audit, given, faults, rewrites>>

\* _create_once of the record.
PutDocument(c) ==
    /\ call[c].pc = "document"
    /\ LET k == Creation(c).key
       IN  /\ Create(k, call[c].stored)
           /\ IF Found(k, call[c].stored) # call[c].stored THEN Fail(c, "conflict")
              ELSE Call(c, [call[c] EXCEPT !.pc = "audit"])
    /\ UNCHANGED <<expired, audit, given, faults, rewrites>>

(***************************************************************************)
(* create_snapshot, read and read_snapshot                                 *)
(***************************************************************************)

Missing(c) == {RefOf(e) : e \in call[c].run.docs} \ {x.ref : x \in call[c].entries}

\* The loop over the documents, in the order of their identifiers.
NextDocument(c) ==
    /\ call[c].pc = "next"
    /\ IF Missing(c) = {} THEN Call(c, [call[c] EXCEPT !.pc = "publish"])
       ELSE IF <<call[c].by, "snapshot">> \notin DocumentGrants THEN Fail(c, "unauthorized")
       ELSE \E x \in Missing(c) :
               /\ \A y \in Missing(c) : x.doc <= y.doc
               /\ Call(c, [call[c] EXCEPT !.pc = "lookup", !.ref = x])
    /\ UNCHANGED <<files, expired, audit, given, faults, rewrites>>

\* read_snapshot: the run's snapshot has exactly one entry for the reference.
Pin(c) ==
    /\ call[c].pc = "pin"
    /\ LET k == <<"snapshots", call[c].run.id>>
       IN  IF ~Exists(k) THEN Fail(c, "not_found")
           ELSE LET e == {x \in Latest(k).entries : x.ref = call[c].ref}
                IN  IF Cardinality(e) # 1 THEN Fail(c, "unauthorized")
                    ELSE Call(c, [call[c] EXCEPT !.pc = "lookup", !.entries = e])
    /\ UNCHANGED <<files, expired, audit, given, faults, rewrites>>

\* Mutant: the record a snapshot was made of is not compared with today's.
LookupToday(c) ==
    /\ call[c].pc = "lookup"
    /\ IF ~Exists(DocumentKey(call[c].ref)) THEN Fail(c, "not_found")
       ELSE Call(c, [call[c] EXCEPT !.pc = "fetch", !.stored = Latest(DocumentKey(call[c].ref))])
    /\ UNCHANGED <<files, expired, audit, given, faults, rewrites>>

\* _resolve, and the snapshot's digest of the record.
Lookup(c) ==
    /\ call[c].pc = "lookup"
    /\ LET k == DocumentKey(call[c].ref)
       IN  IF ~Exists(k) THEN Fail(c, "not_found")
           ELSE IF \/ Latest(k).ref # call[c].ref
                   \/ call[c].op = "read_snapshot" /\ \E e \in call[c].entries : e.stored # Latest(k)
                THEN Fail(c, "integrity")
           ELSE Call(c, [call[c] EXCEPT !.pc = "fetch", !.stored = Latest(k)])
    /\ UNCHANGED <<files, expired, audit, given, faults, rewrites>>

\* The caller goes on with bytes that passed the checks of _read.
Accept(c, bytes) ==
    Call(c, IF call[c].op = "snapshot"
            THEN [call[c] EXCEPT !.pc = "next", !.entries = @ \cup {[ref |-> call[c].ref, stored |-> call[c].stored]}]
            ELSE [call[c] EXCEPT !.pc = "audit", !.bytes = bytes])

\* Mutant: the newest version of the content is read and not compared with its digest.
FetchLatest(c) ==
    /\ call[c].pc = "fetch"
    /\ Accept(c, Latest(ContentKey(call[c].ref)))
    /\ UNCHANGED <<files, expired, audit, given, faults, rewrites>>

\* _read: the pinned storage version, whose digest must be the reference's.
Fetch(c) ==
    /\ call[c].pc = "fetch"
    /\ LET k == ContentKey(call[c].ref)
           v == call[c].stored.version
       IN  IF v \notin 1..Len(files[k]) THEN Fail(c, "not_found")
           ELSE IF files[k][v] # call[c].ref.content THEN Fail(c, "integrity")
           ELSE Accept(c, files[k][v])
    /\ UNCHANGED <<files, expired, audit, given, faults, rewrites>>

\* The snapshot is created, or is the one this call would have created.
PublishSnapshot(c) ==
    /\ call[c].pc = "publish"
    /\ LET k == Creation(c).key
           x == Creation(c).value
       IN  /\ Create(k, x)
           /\ IF Found(k, x) # x THEN Fail(c, "conflict") ELSE Call(c, [call[c] EXCEPT !.pc = "audit"])
    /\ UNCHANGED <<expired, audit, given, faults, rewrites>>

(***************************************************************************)
(* Answers and failures                                                    *)
(***************************************************************************)

Gift(c) ==
    [op |-> call[c].op, by |-> call[c].by,
     of |-> CASE call[c].op = "ingest" -> call[c].att
              [] call[c].op = "snapshot" -> call[c].run
              [] OTHER -> call[c].ref,
     value |-> CASE call[c].op = "ingest" -> call[c].ref
                 [] call[c].op = "snapshot" -> call[c].entries
                 [] OTHER -> call[c].bytes]

\* The trail with the event of the call; refusals, which no property reads, are left out.
Audited(c) == IF call[c].code = "ok" THEN audit \cup {[op |-> call[c].op, by |-> call[c].by]} ELSE audit

\* _operation: the event is appended, then the caller gets its answer.
Answer(c) ==
    /\ call[c].pc = "audit"
    /\ audit' = Audited(c)
    /\ given' = IF call[c].code = "ok" THEN given \cup {Gift(c)} ELSE given
    /\ Call(c, Idle)
    /\ UNCHANGED <<files, expired, faults, rewrites>>

\* The append fails, before or after it took effect: the caller gets nothing.
AuditFails(c) ==
    /\ call[c].pc = "audit"
    /\ faults < MaxFaults /\ faults' = faults + 1
    /\ audit' \in {audit, Audited(c)}
    /\ Call(c, Idle)
    /\ UNCHANGED <<files, expired, given, rewrites>>

\* A storage call raises.  A create may have taken effect; an object store may also
\* report a conflict with a write that is still under way and then find no object.
StorageFails(c) ==
    /\ call[c].pc \in Creating \cup {"pin", "lookup", "fetch"}
    /\ faults < MaxFaults /\ faults' = faults + 1
    /\ \/ Fail(c, "unavailable") /\ UNCHANGED files
       \/ call[c].pc \in Creating /\ Create(Creation(c).key, Creation(c).value) /\ Fail(c, "unavailable")
       \/ /\ call[c].pc \in Creating /\ ~Exists(Creation(c).key)
          /\ Fail(c, "not_found") /\ UNCHANGED files
    /\ UNCHANGED <<expired, audit, given, rewrites>>

\* The process dies; nothing is audited.
Crash(c) ==
    /\ call[c] # Idle
    /\ faults < MaxFaults /\ faults' = faults + 1
    /\ Call(c, Idle)
    /\ UNCHANGED <<files, expired, audit, given, rewrites>>

Expire(a) ==
    /\ a \notin expired
    /\ expired' = expired \cup {a}
    /\ UNCHANGED <<files, call, audit, given, faults, rewrites>>

\* External: a key that exists is written again, outside the service, with any bytes
\* or with a record that names another storage version.
Rewrite(key) ==
    /\ Exists(key) /\ rewrites < MaxRewrites
    /\ rewrites' = rewrites + 1
    /\ \/ key[1] = "content" /\ \E b \in Pdfs :
             files' = [files EXCEPT ![key] = Append(@, b)]
       \/ key[1] = "documents" /\ \E v \in 1..2 \ {Latest(key).version} :
             files' = [files EXCEPT ![key] = Append(@, [Latest(key) EXCEPT !.version = v])]
    /\ UNCHANGED <<call, expired, audit, given, faults>>

TransferInit ==
    /\ files = [k \in FileKeys |-> << >>]
    /\ call = [c \in Callers |-> Idle]
    /\ expired = {} /\ audit = {} /\ given = {}
    /\ faults = 0 /\ rewrites = 0

BeginCall(c) ==
    \E by \in Actors :
       \/ \E a \in Attestations, b \in Pdfs : BeginIngest(c, by, a, b)
       \/ \E r \in SourceRuns : BeginSnapshot(c, by, r)
       \/ \E e \in Exports, r \in SourceRuns \cup {NoValue} : \E ref \in Known(e) : BeginRead(c, by, ref, r)

Step(c) ==
    \/ Verify(c) \/ Allocate(c) \/ PutContent(c) \/ PutDocument(c)
    \/ NextDocument(c) \/ Pin(c) \/ Lookup(c) \/ Fetch(c) \/ PublishSnapshot(c) \/ Answer(c)

TransferNext ==
    \/ \E c \in Callers : BeginCall(c) \/ Step(c) \/ AuditFails(c) \/ StorageFails(c) \/ Crash(c)
    \/ \E a \in Attestations : Expire(a)
    \/ \E key \in FileKeys : Rewrite(key)

TransferSpec == TransferInit /\ [][TransferNext]_transferVars

(***************************************************************************)
(* Properties                                                              *)
(***************************************************************************)

\* Types of the objects, the calls and the histories.
TransferTypeOK ==
    /\ DOMAIN files = FileKeys /\ files = [k \in FileKeys |-> files[k]]
    /\ \A k \in FileKeys : files[k] \in Seq(Kept(k))
    /\ call \in [Callers -> Calls]
    /\ expired \subseteq Attestations
    /\ audit \subseteq [op : {"ingest", "snapshot", "read", "read_snapshot"}, by : Actors]
    /\ given \subseteq Gifts
    /\ faults \in Nat /\ rewrites \in Nat

\* An export has one identity: however often, by whomever and after whatever failure its
\* upload is repeated, every successful ingest returns the same reference, and no two
\* exports share a version.
OneIdentityPerExport ==
    \A g, h \in given : g.op = "ingest" /\ h.op = "ingest" =>
        (g.of.export = h.of.export <=> g.value.ver = h.value.ver)
        /\ (g.of.export = h.of.export => g = h)

\* A reference is only handed out once its content and its record can be read back.
ReturnedIsStored ==
    \A g \in given : g.op = "ingest" =>
        /\ Exists(DocumentKey(g.value)) /\ Exists(ContentKey(g.value))
        /\ files[DocumentKey(g.value)][1] = [ref |-> g.value, att |-> g.of, version |-> files[DocumentKey(g.value)][1].version]
        /\ files[ContentKey(g.value)][files[DocumentKey(g.value)][1].version] = g.of.content

\* Whatever is read is the exact content that was signed for the export, also when the
\* objects are written again behind the service's back.
ReadsAreAttested ==
    \A g \in given : g.op \in {"read", "read_snapshot"} =>
        /\ g.value = g.of.content
        /\ \E a \in Attestations : a.content = g.value
              /\ files[<<"exports", a.export>>] = <<[doc |-> g.of.doc, ver |-> g.of.ver, att |-> a]>>

\* All callers of create_snapshot for a run get the same entries, the ones that are stored
\* under the run, and read_snapshot returns only documents among them.
SnapshotsAgree ==
    \A r \in SourceRuns : \A g \in given : g.op = "snapshot" /\ g.of = r =>
        files[<<"snapshots", r.id>>] = <<[by |-> g.by, entries |-> g.value]>>

\* A running worker never gets to the content through a record other than the one its
\* snapshot was made of.
SnapshotReadsArePinned ==
    [][\A c \in DOMAIN call : call[c].pc = "lookup" /\ call[c].op = "read_snapshot" /\ call'[c].pc = "fetch"
          => \E e \in Latest(<<"snapshots", call[c].run.id>>).entries : e.stored = call'[c].stored]_transferVars

\* Every answer has its event in the audit trail: an append that fails withholds the answer.
AnswersAreAudited ==
    \A g \in given : [op |-> g.op, by |-> g.by] \in audit

\* An attestation outside its window admits nothing: only calls that were verified before
\* may still store objects.
ExpiredAdmitsNothing ==
    [][\A c \in DOMAIN call : call[c].pc = "verify" /\ call'[c].pc = "allocate" => call[c].att \notin expired]_transferVars

\* What the service hands out is what was admitted, once and for good: one identity per
\* export, one set of entries per run, and the signed content whenever it is read.
HandedOutIsAdmitted ==
    OneIdentityPerExport /\ ReturnedIsStored /\ ReadsAreAttested /\ SnapshotsAgree /\ AnswersAreAudited

\* No call goes past a check on something other than what it checked.
ChecksAreBinding == SnapshotReadsArePinned /\ ExpiredAdmitsNothing
=============================================================================
