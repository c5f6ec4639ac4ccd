--------------------------- MODULE EvidenceCapture ---------------------------
(***************************************************************************)
(* One provider message, its attachments and the files they point at:      *)
(* evidence_service.py, with the guards of the Evidence, Attachment and    *)
(* Attempt doctypes.                                                       *)
(*                                                                         *)
(* Every operation locks the message first and reads what it decides on    *)
(* under that lock, so each is one action, which stands for the committed  *)
(* transaction; one that rolls back is no step.  Three things take time: an *)
(* attempt recorded on its own connection while the lock is held (busy),   *)
(* which is an AttemptJournal here and AttemptLog in detail; a capture     *)
(* that took its snapshot before it got the lock (job); and the save of a  *)
(* File, whose hook looks at the attachments without a lock (editing).     *)
(* Roles, sizes a caller claims and ordinals are left out.                 *)
(***************************************************************************)
EXTENDS Integers, FiniteSets, Sequences

CONSTANTS
  Attempts,          \* attempts that must be recorded on their own
  Payloads,          \* payloads delivered under the identity of the message
  Keys,              \* logical attachments
  Files, Contents,   \* files, and what they may hold: records [len, sha]
  Gone,              \* what a file that is not there holds
  Declares,          \* what each payload and the manifest, by the name of its
                     \* provenance type, declare of an attachment by its key
                     \* and file: [len, sha], or None
  Provenances,       \* provenance types attachments are ingested with
  Expected,          \* expected attachment counts; -1: manifest UNKNOWN
  Requests,          \* captures that may be waiting at once
  MaxVersion,        \* bound on the versions of an attachment
  None

Manifest == "OFFLINE_IMPORT_MANIFEST"
Provider == "PROVIDER_PAYLOAD_DIGEST"
Header == "PROVIDER_HEADER_CONTENT_LENGTH"
Untrusted == "MISSING_PROVENANCE"

ASSUME EvidenceAssumption ==
  /\ Attempts \subseteq Nat \ {0} /\ IsFiniteSet(Attempts) /\ IsFiniteSet(Keys)
  /\ Gone \notin Contents /\ None \notin Payloads /\ None \notin Attempts
  /\ Provenances \subseteq {Manifest, Provider, Header, Untrusted}
  /\ Expected \subseteq Nat \cup {-1}
  /\ \A s \in Payloads \cup {Manifest}, k \in Keys, f \in Files :
       Declares[s][k][f] # None => Declares[s][k][f].len \in Int
  /\ MaxVersion \in Nat \ {0}

VARIABLES
  recorded,  \* attempts whose row is in the table
  answer,    \* what the caller of each attempt was told
  msg,       \* the Fresko Evidence row, payload None until it is delivered
  att,       \* the versions of each logical attachment
  file,      \* what each file holds
  editing,   \* files whose save has passed its hook
  job,       \* captures waiting for the lock
  use,       \* what each attempt reports
  busy,      \* the attempt whose caller holds the lock of the message, or None
  told       \* attempts reported to their callers as durably recorded

Journal == INSTANCE AttemptJournal
journal == <<recorded, answer>>

rows == <<msg, att, told>>
evidenceVars == <<msg, att, file, editing, job, use, busy, told>>
vars == <<journal, evidenceVars>>

Statuses == {"PENDING", "CAPTURED", "FAILED_RETRYABLE", "PARTIAL",
             "HASH_MISMATCH", "SUPERSEDED"}
Failing == {"PARTIAL", "HASH_MISMATCH"}

Version == [file: Files, prov: Provenances, status: Statuses,
            current: BOOLEAN, bytes: Contents \cup {Gone}]

\* kind: PAYLOAD, a redelivery with another payload; SENDER, one with other
\* provenance; REFUSED, an attachment in conflict, a denied access, an ordinal
\* not proved; WRITE, a capture that could not be saved.
Uses == [kind: {"NONE", "PAYLOAD", "SENDER", "REFUSED", "WRITE"},
         payload: Payloads \cup {None}, key: Keys \cup {None}]
NoUse == [kind |-> "NONE", payload |-> None, key |-> None]

Jobs == [key: Keys, version: 1..MaxVersion, payload: Payloads]

Init ==
  /\ Journal!Init
  /\ msg = [payload |-> None, expected |-> -1, status |-> "PENDING", count |-> 0]
  /\ att = [k \in Keys |-> <<>>]
  /\ file \in [Files -> Contents]
  /\ editing = {}
  /\ job = [r \in Requests |-> None]
  /\ use = [a \in Attempts |-> NoUse]
  /\ busy = None
  /\ told = {}

-----------------------------------------------------------------------------
(* The state of a message.                                                 *)

\* Current versions of the attachments A.
Current(A) ==
  {x \in Keys \X (1..MaxVersion) : x[2] \in DOMAIN A[x[1]] /\ A[x[1]][x[2]].current}
StatusOf(A, x) == A[x[1]][x[2]].status

\* Mutant: the status of superseded versions counts too.
CurrentOrNot(A) ==
  {x \in Keys \X (1..MaxVersion) : x[2] \in DOMAIN A[x[1]]}
AggregateAll(m, A) ==
  LET all == CurrentOrNot(A)
      captured == {x \in all : StatusOf(A, x) = "CAPTURED"}
  IN IF m.status = "CONFLICT" THEN m
     ELSE [m EXCEPT !.count = Cardinality(captured),
                    !.status = IF \E x \in all : StatusOf(A, x) \in Failing THEN "PARTIAL"
                               ELSE IF Cardinality(captured) = m.expected THEN "COMPLETE"
                               ELSE "PENDING"]

\* aggregate_parent_evidence_status of message m with attachments A.
Aggregate(m, A) ==
  LET now == Current(A)
      captured == Cardinality({x \in now : StatusOf(A, x) = "CAPTURED"})
      failing == \E x \in now : StatusOf(A, x) \in Failing
      final == m.expected >= 0
      status == CASE failing \/ (final /\ Cardinality(now) > m.expected) -> "PARTIAL"
                  [] final /\ ~failing /\ Cardinality(now) = m.expected
                           /\ captured = m.expected -> "COMPLETE"
                  [] OTHER -> "PENDING"
  IN IF m.status = "CONFLICT" THEN m
     ELSE [m EXCEPT !.count = captured, !.status = status]

\* Attempts on record that carry a source payload.
Carrying == {a \in Attempts : a \in recorded /\ use[a].payload # None}

\* _load_parent_payload: the newest payload recorded for the message, as a set.
Newest ==
  IF Carrying = {} THEN {msg.payload}
  ELSE {use[a].payload : a \in {b \in Carrying : \A c \in Carrying : c <= b}}

\* Mutant: bytes after the declared length are let through.
AcceptsPrefix(c, d) ==
  /\ d.len < 0 \/ c.len >= d.len
  /\ d.sha = None \/ c.len >= d.len

\* The bytes c are the ones d declares.
Accepts(c, d) ==
  /\ d.len < 0 \/ c.len = d.len
  /\ d.sha = None \/ c.sha = d.sha
  /\ c.len = 0 => d.len = 0

\* Steps 7 and 8 of verify_and_capture_attachment.
Verdict(c, d) ==
  IF c = Gone THEN "FAILED_RETRYABLE"
  ELSE IF Accepts(c, d) THEN "CAPTURED"
  ELSE IF c.len < d.len THEN "PARTIAL"
  ELSE IF (d.len >= 0 /\ c.len > d.len) \/ (d.sha # None /\ c.sha # d.sha)
  THEN "HASH_MISMATCH"
  ELSE "FAILED_RETRYABLE"

\* Files prevent_captured_file_deletion and prevent_captured_file_modification
\* protect.
Protected ==
  {f \in Files : \E k \in Keys : \E v \in DOMAIN att[k] :
     att[k][v].file = f /\ att[k][v].status \in {"CAPTURED", "SUPERSEDED"}}

\* No one holds the lock of the message.
Unlocked == busy = None /\ msg.payload # None

-----------------------------------------------------------------------------
(* Delivery.                                                               *)

\* ingest_message_evidence, first delivery.
IngestMessage(p, n) ==
  /\ msg.payload = None
  /\ msg' = [msg EXCEPT !.payload = p, !.expected = n]
  /\ UNCHANGED <<journal, att, file, editing, job, use, busy, told>>

\* Mutant: the version before is left in force.
AppendedOnly(k, v, x) == [att EXCEPT ![k] = Append(@, x)]

\* Attachments with x as version v + 1 of k: version v is superseded, and no other.
Appended(k, v, x) ==
  [att EXCEPT ![k] =
     Append([@ EXCEPT ![v].current = FALSE, ![v].status = "SUPERSEDED"], x)]

NewVersion(f, prov) ==
  [file |-> f, prov |-> prov, status |-> "PENDING", current |-> TRUE, bytes |-> Gone]

\* ingest_attachment of a key the message has no attachment for.
IngestAttachment(k, f, prov) ==
  /\ Unlocked /\ att[k] = <<>>
  /\ att' = [att EXCEPT ![k] = <<NewVersion(f, prov)>>]
  /\ msg' = Aggregate(msg, att')
  /\ UNCHANGED <<journal, file, editing, job, use, busy, told>>

\* supersede_attachment, of version v of k.
Supersede(k, v, f, prov) ==
  /\ Unlocked /\ v \in DOMAIN att[k] /\ att[k][v].current
  /\ v < MaxVersion
  /\ att' = Appended(k, v, NewVersion(f, prov))
  /\ msg' = Aggregate(msg, att')
  /\ UNCHANGED <<journal, file, editing, job, use, busy, told>>

-----------------------------------------------------------------------------
(* Attempts that must be durable.                                          *)

\* Attempts are begun in order, which is the order of their creation times.
Report(a, u) ==
  /\ Unlocked /\ \A b \in Attempts : b < a => answer[b] # "IDLE"
  /\ Journal!Ask(a)
  /\ use' = [use EXCEPT ![a] = u]
  /\ busy' = a

\* A redelivery with another payload; the status it sets is not committed yet.
RedeliverPayload(a, p) ==
  /\ p # msg.payload
  /\ Report(a, [kind |-> "PAYLOAD", payload |-> p, key |-> None])
  /\ UNCHANGED <<rows, file, editing, job>>

\* One that reports another sender or time: found before payloads are compared.
RedeliverSender(a, p) ==
  /\ Report(a, [kind |-> "SENDER", payload |-> p, key |-> None])
  /\ UNCHANGED <<rows, file, editing, job>>

Refuse(a) ==
  /\ Report(a, [kind |-> "REFUSED", payload |-> None, key |-> None])
  /\ UNCHANGED <<rows, file, editing, job>>

\* The caller is told of its conflict; its transaction commits or not.
Handled(a) ==
  /\ busy = a /\ answer[a] = "COMMITTED_INDEPENDENT" /\ use[a].kind = "PAYLOAD"
  /\ msg' \in {[msg EXCEPT !.status = "CONFLICT"], msg}
  /\ told' = told \cup {a}
  /\ busy' = None
  /\ UNCHANGED <<journal, att, file, editing, job, use>>

\* IntegrityConflictError, PermissionError or ValidationError, or the failure
\* status of a capture cannot be saved either: all is undone.
Thrown(a) ==
  /\ busy = a /\ answer[a] = "COMMITTED_INDEPENDENT"
  /\ use[a].kind \in {"SENDER", "REFUSED", "WRITE"}
  /\ told' = told \cup {a}
  /\ busy' = None
  /\ UNCHANGED <<journal, msg, att, file, editing, job, use>>

\* FAILED_DB_WRITE, shown on the attachment.
Unsaved(a) ==
  LET k == use[a].key IN
  /\ busy = a /\ answer[a] = "COMMITTED_INDEPENDENT" /\ use[a].kind = "WRITE"
  /\ att' = [att EXCEPT ![k][Len(att[k])].status = "FAILED_RETRYABLE"]
  /\ msg' = Aggregate(msg, att')
  /\ told' = told \cup {a}
  /\ busy' = None
  /\ UNCHANGED <<journal, file, editing, job, use>>

\* Mutant: an attempt bound to the caller's transaction is good enough.
HandledAnyway(a) ==
  /\ busy = a /\ answer[a] \in {"NOT_RECORDED", "DIED"}
  /\ busy' = None
  /\ msg' = [msg EXCEPT !.status = IF use[a].kind = "PAYLOAD" /\ answer[a] # "DIED"
                                   THEN "CONFLICT" ELSE @]
  /\ UNCHANGED <<journal, att, told, file, editing, job, use>>

\* The attempt could not be made durable and the request is undone, the row it
\* bound to its transaction too; or its process died.
Undone(a) ==
  /\ busy = a /\ answer[a] \in {"NOT_RECORDED", "DIED"}
  /\ busy' = None
  /\ UNCHANGED <<journal, rows, file, editing, job, use>>

Settle(a) == Handled(a) \/ Thrown(a) \/ Unsaved(a) \/ Undone(a)

-----------------------------------------------------------------------------
(* Capture.                                                                *)

\* The parent of the attachment is looked up, which fixes the snapshot the
\* attempts are read from later.
BeginCapture(r, k, v) ==
  /\ job[r] = None /\ msg.payload # None /\ v \in DOMAIN att[k]
  /\ \E p \in Newest : job' = [job EXCEPT ![r] = [key |-> k, version |-> v, payload |-> p]]
  /\ UNCHANGED <<journal, msg, att, file, editing, use, busy, told>>

\* validate_completeness_provenance.  The manifest is searched for the key or
\* the name of the file, a payload for the name of the file only (the row read
\* here has no provider id), unless it declares a single attachment.  A digest
\* is asked for by one type of provenance.
Declaration(j) ==
  LET x == att[j.key][j.version]
      d == Declares[j.payload][j.key][x.file]
  IN CASE x.prov = Manifest -> Declares[Manifest][j.key][x.file]
       [] x.prov = Header \/ (x.prov = Provider /\ d # None /\ d.sha # None) -> d
       [] OTHER -> None

\* Mutant: what is captured is verified again.
OpenAgain(j) ==
  /\ att[j.key][j.version].status # "SUPERSEDED" /\ Declaration(j) # None

\* Neither superseded nor captured, and declared by a trusted source.
Open(j) ==
  LET x == att[j.key][j.version] IN
  /\ x.current /\ x.status \notin {"SUPERSEDED", "CAPTURED"}
  /\ Declaration(j) # None

\* What verifying may end in: a file being edited may differ between two reads.
Ends(j) ==
  LET f == att[j.key][j.version].file
  IN {Verdict(file[f], Declaration(j))} \cup
       IF f \in editing THEN {"FAILED_RETRYABLE"} ELSE {}

\* Mutant: the hash and size that were read are not saved.
StatusOnly(x, s) == [x EXCEPT !.status = s]

\* Version x once verifying it has ended in status s.
Verified(x, s) ==
  [x EXCEPT !.status = s, !.bytes = IF s = "CAPTURED" THEN file[x.file] ELSE x.bytes]

Capture(r) ==
  LET j == job[r] IN
  /\ job[r] # None /\ Unlocked
  /\ job' = [job EXCEPT ![r] = None]
  /\ IF Open(j)
     THEN \E s \in Ends(j) :
            /\ att' = [att EXCEPT ![j.key][j.version] = Verified(@, s)]
            /\ msg' = Aggregate(msg, att')
     ELSE UNCHANGED <<msg, att>>
  /\ UNCHANGED <<journal, file, editing, use, busy, told>>

\* The capture cannot be saved: its savepoint is undone and an attempt begun.
CaptureFails(r, a) ==
  LET j == job[r] IN
  /\ job[r] # None
  /\ Open(j) /\ "CAPTURED" \in Ends(j)
  /\ job' = [job EXCEPT ![r] = None]
  /\ Report(a, [kind |-> "WRITE", payload |-> None, key |-> j.key])
  /\ UNCHANGED <<rows, file, editing>>

-----------------------------------------------------------------------------
(* Files.                                                                  *)

\* The hook of a save or deletion lets it pass; a new File passes unlooked at.
BeginEdit(f) ==
  /\ f \notin editing
  /\ f \notin Protected \/ file[f] = Gone
  /\ editing' = editing \cup {f}
  /\ UNCHANGED <<journal, rows, file, job, use, busy>>

FinishEdit(f, c) ==
  /\ f \in editing
  /\ file' = [file EXCEPT ![f] = c]
  /\ editing' = editing \ {f}
  /\ UNCHANGED <<journal, rows, job, use, busy>>

-----------------------------------------------------------------------------
Record(a) ==
  (Journal!Record(a) \/ Journal!Reply(a) \/ Journal!Die(a)) /\ UNCHANGED evidenceVars

Next ==
  \/ \E p \in Payloads, n \in Expected : IngestMessage(p, n)
  \/ \E k \in Keys, f \in Files, prov \in Provenances :
       \/ IngestAttachment(k, f, prov)
       \/ \E v \in 1..MaxVersion : Supersede(k, v, f, prov)
  \/ \E a \in Attempts :
       \/ \E p \in Payloads : RedeliverPayload(a, p) \/ RedeliverSender(a, p)
       \/ Refuse(a) \/ Settle(a) \/ Record(a)
       \/ \E r \in Requests : CaptureFails(r, a)
  \/ \E r \in Requests :
       Capture(r) \/ \E k \in Keys, v \in 1..MaxVersion : BeginCapture(r, k, v)
  \/ \E f \in Files : BeginEdit(f) \/ \E c \in Contents \cup {Gone} : FinishEdit(f, c)

Spec == Init /\ [][Next]_vars

-----------------------------------------------------------------------------
(* Properties.                                                             *)

\* Rows keep the shape of their doctypes; what is captured has bytes on record
\* and nothing is left VERIFYING.
TypeOK ==
  /\ recorded \subseteq Attempts /\ answer \in [Attempts -> Journal!Answers]
  /\ msg \in [payload: Payloads \cup {None}, expected: Expected \cup {-1},
              status: {"PENDING", "PARTIAL", "COMPLETE", "CONFLICT"}, count: Nat]
  /\ \A k \in Keys : att[k] \in Seq(Version) /\ Len(att[k]) <= MaxVersion
  /\ file \in [Files -> Contents \cup {Gone}]
  /\ editing \subseteq Files
  /\ job \in [Requests -> Jobs \cup {None}]
  /\ use \in [Attempts -> Uses]
  /\ busy \in Attempts \cup {None} /\ told \subseteq Attempts
  /\ \A k \in Keys : \A v \in DOMAIN att[k] :
       att[k][v].status = "CAPTURED" => att[k][v].bytes # Gone

\* A conflict that is reported as handled, or that shows on the message, is on
\* record for good, whatever became of the transaction that found it, its
\* connection or its process (ingest_message_evidence, _record_attempt).
ConflictOnRecord ==
  /\ \A a \in told : a \in recorded
  /\ msg.status = "CONFLICT" =>
       \E a \in Attempts : /\ a \in recorded /\ use[a].kind = "PAYLOAD"
                           /\ use[a].payload # msg.payload

\* The versions of an attachment form one line of corrections: all but the last
\* are superseded and the last is current (supersede_attachment).
VersionChain ==
  \A k \in Keys : \A v \in DOMAIN att[k] :
    /\ att[k][v].current <=> v = Len(att[k])
    /\ att[k][v].status = "SUPERSEDED" <=> v < Len(att[k])

\* The status a message shows is that of its current attachments: COMPLETE when
\* all that a final manifest expects, and no other, are captured, PARTIAL when
\* one is broken or too many, and its count is theirs; CONFLICT stays
\* (aggregate_parent_evidence_status and every operation that must call it).
StatusCurrent ==
  LET last == {att[k][Len(att[k])] : k \in {j \in Keys : att[j] # <<>>}}
      keys(S) == Cardinality({k \in Keys : att[k] # <<>> /\ att[k][Len(att[k])].status \in S})
  IN last # {} /\ msg.status # "CONFLICT" =>
       /\ msg.count = keys({"CAPTURED"})
       /\ msg.status = "COMPLETE" <=>
            keys(Statuses) = msg.expected /\ \A x \in last : x.status = "CAPTURED"
       /\ msg.status = "PARTIAL" <=>
            \/ \E x \in last : x.status \in Failing
            \/ msg.expected >= 0 /\ keys(Statuses) > msg.expected

\* What is captured as declared by a delivery is what some recorded delivery of
\* the message declared, and as declared by the manifest what that declares
\* (validate_completeness_provenance, verify_and_capture_attachment).
CapturedAsRecorded ==
  \A k \in Keys : \A v \in DOMAIN att[k] :
    LET x == att[k][v] IN
    x.bytes # Gone =>
      \E s \in IF x.prov = Manifest THEN {Manifest}
               ELSE {msg.payload} \cup {use[a].payload : a \in Carrying} :
        LET d == Declares[s][k][x.file] IN
        /\ d # None
        /\ d.len >= 0 => x.bytes.len = d.len
        /\ d.sha # None => x.bytes.sha = d.sha

\* What is captured stays captured, with its bytes, until it is superseded, a
\* superseded version stays as it was, and a conflict is not cleared, by
\* captures that waited while the message changed least of all.
KeepsCaptured ==
  [][/\ msg.status = "CONFLICT" => msg'.status = "CONFLICT"
     /\ \A k \in Keys : \A v \in DOMAIN att[k] :
          /\ att[k][v].status = "CAPTURED" =>
               /\ att'[k][v].status \in {"CAPTURED", "SUPERSEDED"}
               /\ att'[k][v].bytes = att[k][v].bytes
          /\ att[k][v].status = "SUPERSEDED" => att'[k][v] = att[k][v]]_vars

\* What evidence_service.py says of captures: expected size and hash are bound
\* to their immutable source, so that a COMPLETE message holds the bytes that
\* the payload it was accepted with declares.
CompleteAsDelivered ==
  msg.status = "COMPLETE" =>
    \A k \in Keys : \A v \in DOMAIN att[k] :
      LET x == att[k][v] IN
      x.current /\ x.prov \in {Provider, Header} => Accepts(x.bytes, Declares[msg.payload][k][x.file])

=============================================================================
