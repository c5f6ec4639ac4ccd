--------------------------- MODULE EvidenceProofs ---------------------------
(***************************************************************************)
(* What is proved of EvidenceCapture for any number of attempts, payloads, *)
(* attachments, files and requests: a conflict told is on record, versions *)
(* form one line, what is captured was declared by what is on record, and  *)
(* it stays captured; the status of the message is that of its current     *)
(* attachments.                                                            *)
(***************************************************************************)
EXTENDS EvidenceCapture, FiniteSetTheorems, TLAPS

\* The journal and what its attempts report: what was answered is on record,
\* and a conflicting payload is not that of the message.
Journaled ==
  /\ \A a \in Attempts : /\ answer[a] = "COMMITTED_INDEPENDENT" => a \in recorded
                         /\ a \in recorded => answer[a] # "IDLE"
                         /\ answer[a] = "IDLE" => use[a] = NoUse
                         /\ use[a].kind = "PAYLOAD" =>
                              use[a].payload # msg.payload /\ use[a].payload # None
                         /\ use[a].kind # "NONE" => msg.payload # None

\* An attachment whose capture could not be saved is not captured.
Unsettled ==
  busy # None /\ use[busy].kind = "WRITE" =>
    LET k == use[busy].key IN
    k \in Keys /\ att[k] # <<>> /\ att[k][Len(att[k])].status # "CAPTURED"

\* Attachments and captures are those of a message that was delivered.
Delivered ==
  /\ \A k \in Keys : att[k] # <<>> => msg.payload # None
  /\ \A r \in Requests : job[r] # None =>
       msg.payload # None /\ job[r].version \in DOMAIN att[job[r].key]

\* Payloads on record for the message.
Sources == {msg.payload} \cup {use[a].payload : a \in Carrying}

\* What a waiting capture compares with is on record.
JobsSourced == \A r \in Requests : job[r] # None => job[r].payload \in Sources

EInv ==
  /\ att \in [Keys -> Seq(Version)]
  /\ TypeOK /\ Journaled /\ Unsettled /\ Delivered /\ JobsSourced
  /\ ConflictOnRecord /\ VersionChain /\ CapturedAsRecorded

-----------------------------------------------------------------------------
(* Rows.                                                                   *)

Message == [payload: Payloads \cup {None}, expected: Expected \cup {-1},
            status: {"PENDING", "PARTIAL", "COMPLETE", "CONFLICT"}, count: Nat]

Superseded(x) == [x EXCEPT !.current = FALSE, !.status = "SUPERSEDED"]

\* The bytes of version x of k are declared by a payload of S or its manifest.
Backed(k, x, S) ==
  x.bytes # Gone =>
    \E s \in IF x.prov = Manifest THEN {Manifest} ELSE S :
      LET d == Declares[s][k][x.file] IN
      /\ d # None
      /\ d.len >= 0 => x.bytes.len = d.len
      /\ d.sha # None => x.bytes.sha = d.sha

LEMMA BackedSame ==
  ASSUME NEW k, NEW x, NEW y, NEW S, Backed(k, x, S),
         y.file = x.file, y.prov = x.prov, y.bytes = x.bytes
  PROVE  Backed(k, y, S)
BY DEF Backed

LEMMA BackedStill ==
  ASSUME NEW k, NEW x, NEW S, NEW T, S \subseteq T, Backed(k, x, S)
  PROVE  Backed(k, x, T)
BY DEF Backed

LEMMA RecordsBacked ==
  CapturedAsRecorded <=>
    \A k \in Keys : \A v \in DOMAIN att[k] : Backed(k, att[k][v], Sources)
BY DEF CapturedAsRecorded, Backed, Sources

LEMMA RecordsBackedNext ==
  CapturedAsRecorded' <=>
    \A k \in Keys : \A v \in DOMAIN att'[k] : Backed(k, att'[k][v], Sources')
BY DEF CapturedAsRecorded, Backed, Sources

\* What a step may do to the versions, and to the message.
RowsKept ==
  \A k \in Keys : \A v \in DOMAIN att[k] :
    /\ att[k][v].status = "CAPTURED" =>
         /\ att'[k][v].status \in {"CAPTURED", "SUPERSEDED"}
         /\ att'[k][v].bytes = att[k][v].bytes
    /\ att[k][v].status = "SUPERSEDED" => att'[k][v] = att[k][v]

Kept == RowsKept /\ (msg.status = "CONFLICT" => msg'.status = "CONFLICT")

\* The rows of a message are in order.
RowsOK ==
  /\ att \in [Keys -> Seq(Version)]
  /\ \A k \in Keys : /\ Len(att[k]) <= MaxVersion
                     /\ \A v \in DOMAIN att[k] :
                          att[k][v].status = "CAPTURED" => att[k][v].bytes # Gone
  /\ VersionChain
  /\ CapturedAsRecorded

LEMMA VersionFields ==
  ASSUME NEW x \in Version
  PROVE  /\ Superseded(x) \in Version /\ Superseded(x).status = "SUPERSEDED"
         /\ Superseded(x).current = FALSE /\ Superseded(x).file = x.file
         /\ Superseded(x).prov = x.prov /\ Superseded(x).bytes = x.bytes
         /\ x.current = FALSE /\ x.status = "SUPERSEDED" => Superseded(x) = x
BY DEF Version, Statuses, Failing, Superseded

\* A step that gives k version x: its first, or one that supersedes the current one.
Extends(k, x) ==
  \/ att[k] = <<>> /\ att' = [att EXCEPT ![k] = <<x>>]
  \/ \E v \in DOMAIN att[k] : att[k][v].current /\ att' = Appended(k, v, x)

\* Attachments with a new version: the line of versions before it is superseded.
LEMMA AppendedRows ==
  ASSUME NEW k \in Keys, NEW x \in Version, att \in [Keys -> Seq(Version)],
         VersionChain, Extends(k, x)
  PROVE  /\ att' \in [Keys -> Seq(Version)]
         /\ \A l \in Keys \ {k} : att'[l] = att[l]
         /\ Len(att[k]) \in Nat /\ DOMAIN att[k] = 1..Len(att[k])
         /\ Len(att'[k]) = Len(att[k]) + 1 /\ DOMAIN att'[k] = 1..(Len(att[k]) + 1)
         /\ att'[k][Len(att[k]) + 1] = x
         /\ \A v \in 1..Len(att[k]) : att'[k][v] = Superseded(att[k][v])
<1> DEFINE n == Len(att[k])
<1>1. att[k] \in Seq(Version) /\ n \in Nat /\ DOMAIN att[k] = 1..n
      /\ \A v \in 1..n : att[k][v] \in Version
  OBVIOUS
<1>2. CASE att[k] = <<>> /\ att' = [att EXCEPT ![k] = <<x>>]
  <2>1. /\ att' \in [Keys -> Seq(Version)] /\ att'[k] = <<x>>
        /\ \A l \in Keys \ {k} : att'[l] = att[l]
    BY <1>2
  <2>2. n = 0 /\ Len(att'[k]) = 1 /\ DOMAIN att'[k] = 1..1 /\ att'[k][1] = x
    BY <1>2, <2>1
  <2> QED BY <1>1, <2>1, <2>2
<1>3. ASSUME NEW v \in DOMAIN att[k], att[k][v].current, att' = Appended(k, v, x)
      PROVE  /\ att' \in [Keys -> Seq(Version)]
             /\ \A l \in Keys \ {k} : att'[l] = att[l]
             /\ Len(att'[k]) = n + 1 /\ DOMAIN att'[k] = 1..(n + 1)
             /\ att'[k][n + 1] = x
             /\ \A w \in 1..n : att'[k][w] = Superseded(att[k][w])
  <2> DEFINE old == [att[k] EXCEPT ![v].current = FALSE, ![v].status = "SUPERSEDED"]
  <2>1. v = n /\ v \in 1..n /\ att[k][v] \in Version BY <1>1, <1>3 DEF VersionChain
  <2>2. DOMAIN old = 1..n /\ old[v] = Superseded(att[k][v]) BY <1>1, <2>1 DEF Superseded
  <2>3. \A w \in 1..n : w # v => old[w] = att[k][w] BY <1>1
  <2> HIDE DEF old
  <2>4. ASSUME NEW w \in 1..n PROVE old[w] = Superseded(att[k][w]) /\ old[w] \in Version
    <3>1. CASE w = v BY <2>1, <2>2, <3>1, VersionFields
    <3>2. CASE w # v
      <4>1. w < n
        <5>1. w \in 1..n /\ n \in Nat /\ w # n BY <1>1, <2>1, <3>2
        <5> QED BY ONLY <5>1
      <4>2. att[k][w].current = FALSE /\ att[k][w].status = "SUPERSEDED"
        <5>1. att[k][w] \in Version /\ (att[k][w].current <=> w = n)
              /\ (att[k][w].status = "SUPERSEDED" <=> w < n)
          BY <1>1 DEF VersionChain
        <5>2. att[k][w].current \in BOOLEAN BY <5>1 DEF Version
        <5>3. ~(w = n) BY <3>2, <2>1
        <5>4. att[k][w].current = FALSE BY ONLY <5>1, <5>2, <5>3, Zenon
        <5>5. att[k][w].status = "SUPERSEDED" BY ONLY <5>1, <4>1
        <5> QED BY ONLY <5>4, <5>5
      <4>3. att[k][w] \in Version BY <1>1
      <4>4. Superseded(att[k][w]) = att[k][w] BY ONLY <4>2, <4>3, VersionFields
      <4> QED BY <2>3, <3>2, <4>3, <4>4
    <3> QED BY <3>1, <3>2
  <2>5. old \in Seq(Version) /\ Len(old) = n
    <3>1. old = [w \in 1..n |-> old[w]] BY <1>1 DEF old
    <3>2. old \in [1..n -> Version] BY <2>4, <3>1
    <3>3. old \in Seq(Version) BY <3>2, <1>1
    <3> QED BY <2>2, <3>3, <1>1
  <2>6. att' = [att EXCEPT ![k] = Append(old, x)] BY <1>3 DEF Appended, old
  <2>7. /\ Append(old, x) \in Seq(Version) /\ Len(Append(old, x)) = n + 1
        /\ Append(old, x)[n + 1] = x
        /\ \A w \in 1..n : Append(old, x)[w] = Superseded(att[k][w])
    <3>1. \A w \in 1..n : old[w] = Superseded(att[k][w]) BY <2>4
    <3>2. /\ Append(old, x) \in Seq(Version) /\ Len(Append(old, x)) = n + 1
          /\ Append(old, x)[n + 1] = x
          /\ \A w \in 1..n : Append(old, x)[w] = old[w]
      <4>1. x \in Version /\ n \in Nat BY <1>1
      <4> HIDE DEF n
      <4> QED BY ONLY <4>1, <2>5
    <3> QED BY ONLY <3>1, <3>2
  <2>8. DOMAIN Append(old, x) = 1..(n + 1) BY <1>1, <2>7
  <2>9. att'[k] = Append(old, x) /\ \A l \in Keys \ {k} : att'[l] = att[l] BY <2>6
  <2>10. att' \in [Keys -> Seq(Version)] BY <2>6, <2>7
  <2> QED BY <2>7, <2>8, <2>9, <2>10
<1>4. CASE \E v \in DOMAIN att[k] : att[k][v].current /\ att' = Appended(k, v, x)
  <2>1. PICK v \in DOMAIN att[k] : att[k][v].current /\ att' = Appended(k, v, x) BY <1>4
  <2> QED BY ONLY <1>1, <1>3, <2>1
<1> QED BY <1>1, <1>2, <1>4 DEF Extends

\* A new version supersedes the one before it and loses nothing.
LEMMA AppendKeeps ==
  ASSUME RowsOK, NEW k \in Keys, NEW x \in Version, Len(att[k]) < MaxVersion,
         x.current = TRUE, x.status = "PENDING", x.bytes = Gone,
         Extends(k, x), Sources' = Sources
  PROVE  /\ RowsOK' /\ RowsKept
         /\ \A l \in Keys : DOMAIN att[l] \subseteq DOMAIN att'[l]
<1> USE EvidenceAssumption
<1> DEFINE n == Len(att[k])
<1>0. att \in [Keys -> Seq(Version)] /\ MaxVersion \in Nat BY DEF RowsOK
<1>1. /\ att' \in [Keys -> Seq(Version)]
      /\ \A l \in Keys \ {k} : att'[l] = att[l]
      /\ n \in Nat /\ DOMAIN att[k] = 1..n
      /\ Len(att'[k]) = n + 1 /\ DOMAIN att'[k] = 1..(n + 1)
      /\ att'[k][n + 1] = x
      /\ \A v \in 1..n : att'[k][v] = Superseded(att[k][v])
  <2>1. VersionChain BY DEF RowsOK
  <2> QED BY <1>0, <2>1, AppendedRows
<1>2. ASSUME NEW v \in 1..n
      PROVE  /\ att'[k][v].status = "SUPERSEDED" /\ att'[k][v].current = FALSE
             /\ att'[k][v].file = att[k][v].file /\ att'[k][v].prov = att[k][v].prov
             /\ att'[k][v].bytes = att[k][v].bytes
             /\ att[k][v].current = FALSE /\ att[k][v].status = "SUPERSEDED" =>
                  att'[k][v] = att[k][v]
  <2>1. att[k] \in Seq(Version) BY <1>0
  <2>2. att[k][v] \in Version BY <2>1
  <2>3. att'[k][v] = Superseded(att[k][v]) BY <1>1
  <2> DEFINE x0 == att[k][v]
             y0 == Superseded(x0)
  <2>4. /\ y0.status = "SUPERSEDED" /\ y0.current = FALSE
        /\ y0.file = x0.file /\ y0.prov = x0.prov /\ y0.bytes = x0.bytes
        /\ x0.current = FALSE /\ x0.status = "SUPERSEDED" => y0 = x0
    BY ONLY <2>2, VersionFields
  <2> HIDE DEF y0
  <2>5. att'[k][v] = y0 BY ONLY <2>3 DEF y0
  <2> QED BY ONLY <2>4, <2>5
<1>3. \A v \in 1..(n + 1) : v \in 1..n \/ v = n + 1 BY <1>1
<1>4. ASSUME NEW l \in Keys
      PROVE  /\ Len(att'[l]) <= MaxVersion
             /\ \A v \in DOMAIN att'[l] :
                  att'[l][v].status = "CAPTURED" => att'[l][v].bytes # Gone
  <2>1. CASE l = k
    <3>1. n + 1 <= MaxVersion BY <1>0, <1>1
    <3>2. \A v \in DOMAIN att'[k] : att'[k][v].status # "CAPTURED" BY <1>1, <1>2, <1>3
    <3> QED BY <2>1, <3>1, <3>2, <1>1
  <2>2. CASE l # k BY <2>2, <1>1 DEF RowsOK
  <2> QED BY <2>1, <2>2
<1>5. ASSUME NEW l \in Keys, NEW v \in DOMAIN att'[l]
      PROVE  /\ att'[l][v].current <=> v = Len(att'[l])
             /\ att'[l][v].status = "SUPERSEDED" <=> v < Len(att'[l])
  <2>1. CASE l = k
    <3>1. CASE v \in 1..n
      <4>1. v # n + 1 /\ v < n + 1 BY <3>1, <1>1
      <4> QED BY <2>1, <3>1, <4>1, <1>1, <1>2
    <3>2. CASE v = n + 1
      <4>1. ~(v < n + 1) BY <3>2, <1>1
      <4> QED BY <2>1, <3>2, <4>1, <1>1
    <3> QED BY <2>1, <3>1, <3>2, <1>1, <1>3
  <2>2. CASE l # k BY <2>2, <1>1 DEF RowsOK, VersionChain
  <2> QED BY <2>1, <2>2
<1>6. ASSUME NEW l \in Keys, NEW v \in DOMAIN att'[l]
      PROVE  Backed(l, att'[l][v], Sources)
  <2>1. \A m \in Keys : \A w \in DOMAIN att[m] : Backed(m, att[m][w], Sources)
    BY RecordsBacked DEF RowsOK
  <2>2. CASE l = k
    <3>1. CASE v \in 1..n
      <4>1. Backed(k, att[k][v], Sources) BY <2>1, <3>1, <1>1
      <4>2. /\ att'[k][v].file = att[k][v].file /\ att'[k][v].prov = att[k][v].prov
            /\ att'[k][v].bytes = att[k][v].bytes
        BY <3>1, <1>2
      <4>3. Backed(k, att'[k][v], Sources) BY ONLY <4>1, <4>2, BackedSame
      <4> QED BY <2>2, <4>3
    <3>2. CASE v = n + 1 BY <2>2, <3>2, <1>1 DEF Backed
    <3> QED BY <2>2, <3>1, <3>2, <1>1, <1>3
  <2>3. CASE l # k BY <2>1, <2>3, <1>1
  <2> QED BY <2>2, <2>3
<1>7. CapturedAsRecorded'
  <2>1. Sources' = Sources OBVIOUS
  <2> QED BY ONLY <1>6, <2>1, RecordsBackedNext
<1>8. ASSUME NEW l \in Keys, NEW v \in DOMAIN att[l]
      PROVE  /\ att[l][v].status = "CAPTURED" =>
                  /\ att'[l][v].status \in {"CAPTURED", "SUPERSEDED"}
                  /\ att'[l][v].bytes = att[l][v].bytes
             /\ att[l][v].status = "SUPERSEDED" => att'[l][v] = att[l][v]
  <2>1. CASE l = k
    <3>1. v \in 1..n BY <2>1, <1>1
    <3>2. att[k][v].status = "SUPERSEDED" => att[k][v].current = FALSE
      <4>1. att[k][v] \in Version BY <3>1, <1>0, <1>1
      <4>2. att[k][v].current \in BOOLEAN BY <4>1 DEF Version
      <4>3. att[k][v].status = "SUPERSEDED" => v < n /\ ~(v = n)
        BY <2>1, <3>1, <1>1 DEF RowsOK, VersionChain
      <4>4. att[k][v].current <=> v = n BY <2>1 DEF RowsOK, VersionChain
      <4> QED BY <4>2, <4>3, <4>4
    <3> QED BY <2>1, <3>1, <3>2, <1>2
  <2>2. CASE l # k BY <2>2, <1>1
  <2> QED BY <2>1, <2>2
<1>9. \A l \in Keys : DOMAIN att[l] \subseteq DOMAIN att'[l]
  <2>1. 1..n \subseteq 1..(n + 1) BY <1>1
  <2> QED BY <2>1, <1>1
<1> QED BY <1>1, <1>4, <1>5, <1>7, <1>8, <1>9 DEF RowsOK, VersionChain, RowsKept

\* The last version is settled.
LEMMA SettleKeeps ==
  ASSUME RowsOK, NEW k \in Keys, NEW v \in DOMAIN att[k], NEW y \in Version,
         v = Len(att[k]), att[k][v].status \notin {"CAPTURED", "SUPERSEDED"},
         y.status # "SUPERSEDED", y.current = att[k][v].current,
         y.status = "CAPTURED" => y.bytes # Gone,
         Backed(k, y, Sources), Sources' = Sources,
         att' = [att EXCEPT ![k][v] = y]
  PROVE  /\ RowsOK' /\ RowsKept
         /\ \A l \in Keys : DOMAIN att'[l] = DOMAIN att[l]
<1>0. att \in [Keys -> Seq(Version)] BY DEF RowsOK
<1>1. att[k] \in Seq(Version) /\ Len(att[k]) \in Nat BY <1>0
<1>2. /\ att'[k] = [att[k] EXCEPT ![v] = y]
      /\ \A l \in Keys \ {k} : att'[l] = att[l]
  BY <1>0
<1>3. att'[k] \in Seq(Version) /\ Len(att'[k]) = Len(att[k]) BY <1>1, <1>2
<1>4. DOMAIN att'[k] = DOMAIN att[k] BY <1>2
<1>5. att'[k][v] = y /\ \A w \in DOMAIN att[k] \ {v} : att'[k][w] = att[k][w]
  BY <1>1, <1>2
<1>6. att' \in [Keys -> Seq(Version)]
  <2>1. DOMAIN att' = Keys BY <1>0
  <2>2. att' = [l \in Keys |-> att'[l]] BY <1>0
  <2>3. \A l \in Keys : att'[l] \in Seq(Version) BY <1>0, <1>2, <1>3
  <2> QED BY <2>2, <2>3
<1>7. \A l \in Keys : Len(att'[l]) = Len(att[l]) /\ DOMAIN att'[l] = DOMAIN att[l]
  BY <1>2, <1>3, <1>4
<1>8. \A l \in Keys : \A w \in DOMAIN att[l] :
        att'[l][w] = att[l][w] \/ (l = k /\ w = v /\ att'[l][w] = y)
  BY <1>2, <1>5
<1>9. ASSUME NEW l \in Keys
      PROVE  /\ Len(att'[l]) <= MaxVersion
             /\ \A w \in DOMAIN att'[l] :
                  att'[l][w].status = "CAPTURED" => att'[l][w].bytes # Gone
  BY <1>7, <1>8 DEF RowsOK
<1>10. VersionChain'
  <2>1. ASSUME NEW l \in Keys, NEW w \in DOMAIN att'[l]
        PROVE  /\ att'[l][w].current <=> w = Len(att'[l])
               /\ att'[l][w].status = "SUPERSEDED" <=> w < Len(att'[l])
    <3>1. w \in DOMAIN att[l] /\ Len(att'[l]) = Len(att[l]) BY <1>7
    <3>2. CASE att'[l][w] = att[l][w] BY <3>1, <3>2 DEF RowsOK, VersionChain
    <3>3. CASE l = k /\ w = v /\ att'[l][w] = y
      <4>1. ~(v < Len(att[k])) BY <1>1
      <4>2. att[k][v].current <=> v = Len(att[k]) BY DEF RowsOK, VersionChain
      <4> QED BY <3>1, <3>3, <4>1, <4>2
    <3> QED BY <3>1, <3>2, <3>3, <1>8
  <2> QED BY <2>1 DEF VersionChain
<1>11. CapturedAsRecorded'
  <2>1. \A m \in Keys : \A w \in DOMAIN att[m] : Backed(m, att[m][w], Sources)
    BY RecordsBacked DEF RowsOK
  <2>2. \A l \in Keys : \A w \in DOMAIN att'[l] : Backed(l, att'[l][w], Sources')
    BY <2>1, <1>7, <1>8
  <2> QED BY <2>2, RecordsBackedNext
<1>12. RowsKept BY <1>8 DEF RowsKept
<1> QED BY <1>6, <1>7, <1>9, <1>10, <1>11, <1>12 DEF RowsOK

\* Nothing happens to the versions, and no payload on record is lost.
LEMMA RowsStay ==
  ASSUME RowsOK, att' = att, Sources \subseteq Sources' \/ \A k \in Keys : att[k] = <<>>
  PROVE  RowsOK'
<1>1. VersionChain' BY DEF RowsOK, VersionChain
<1>2. \A k \in Keys : \A v \in DOMAIN att[k] : Backed(k, att[k][v], Sources)
  BY RecordsBacked DEF RowsOK
<1>3. \A k \in Keys : \A v \in DOMAIN att'[k] : Backed(k, att'[k][v], Sources')
  <2>1. CASE Sources \subseteq Sources' BY ONLY <2>1, <1>2, BackedStill, att' = att
  <2>2. CASE \A k \in Keys : att[k] = <<>> BY <2>2
  <2> QED BY <2>1, <2>2
<1>4. CapturedAsRecorded' BY <1>3, RecordsBackedNext
<1> QED BY <1>1, <1>4 DEF RowsOK

-----------------------------------------------------------------------------
(* Steps.                                                                  *)

LEMMA Parts ==
  EInv <=>
    /\ RowsOK /\ Journaled /\ Unsettled /\ Delivered /\ JobsSourced /\ ConflictOnRecord
    /\ recorded \subseteq Attempts /\ answer \in [Attempts -> Journal!Answers]
    /\ msg \in Message /\ file \in [Files -> Contents \cup {Gone}] /\ editing \subseteq Files
    /\ job \in [Requests -> Jobs \cup {None}] /\ use \in [Attempts -> Uses]
    /\ busy \in Attempts \cup {None} /\ told \subseteq Attempts
BY DEF EInv, TypeOK, RowsOK, Message

\* A step that adds nothing to the journal.
LEMMA StepKeeps ==
  ASSUME EInv, UNCHANGED <<recorded, answer, use>>, RowsOK', RowsKept,
         msg' \in Message, msg'.payload = msg.payload,
         msg.status = "CONFLICT" => msg'.status = "CONFLICT",
         msg'.status = "CONFLICT" => msg.status = "CONFLICT" \/
            \E a \in Attempts : a \in recorded /\ use[a].kind = "PAYLOAD",
         \A k \in Keys : /\ DOMAIN att[k] \subseteq DOMAIN att'[k]
                         /\ att'[k] # <<>> => msg.payload # None,
         file' \in [Files -> Contents \cup {Gone}], editing' \subseteq Files,
         told' \subseteq recorded,
         busy' = None \/ (busy' = busy /\ att' = att),
         job' \in [Requests -> Jobs \cup {None}],
         \A r \in Requests : job'[r] # None /\ job'[r] # job[r] =>
            /\ msg.payload # None /\ job'[r].version \in DOMAIN att[job'[r].key]
            /\ job'[r].payload \in Sources
  PROVE  EInv' /\ Kept
<1> USE Parts
<1>1. Journaled' BY DEF Journaled
<1>2. Unsettled' BY DEF Unsettled
<1>3. \A r \in Requests : job'[r] # None => job'[r].key \in Keys
  <2>1. \A r \in Requests : job'[r] # None => job'[r] \in Jobs OBVIOUS
  <2> QED BY <2>1 DEF Jobs
<1>4. Delivered'
  <2>1. ASSUME NEW r \in Requests, job'[r] # None
        PROVE  msg'.payload # None /\ job'[r].version \in DOMAIN att'[job'[r].key]
    BY <2>1, <1>3 DEF Delivered
  <2> QED BY <2>1 DEF Delivered
<1>5. Sources' = Sources BY DEF Sources, Carrying
<1>6. JobsSourced' BY <1>5 DEF JobsSourced
<1>7. ConflictOnRecord'
  <2>1. ASSUME msg'.status = "CONFLICT"
        PROVE  \E a \in Attempts : /\ a \in recorded' /\ use'[a].kind = "PAYLOAD"
                                   /\ use'[a].payload # msg'.payload
    BY <2>1 DEF ConflictOnRecord, Journaled
  <2> QED BY <2>1 DEF ConflictOnRecord
<1>8. Kept BY DEF Kept
<1>9. busy' \in Attempts \cup {None} /\ told' \subseteq Attempts OBVIOUS
<1>10. EInv'
  BY <1>1, <1>2, <1>4, <1>6, <1>7, <1>9 DEF EInv, TypeOK, RowsOK, Message
<1> QED BY <1>8, <1>10

LEMMA AggregateKeeps ==
  ASSUME NEW m \in Message, NEW A
  PROVE  /\ Aggregate(m, A) \in Message /\ Aggregate(m, A).payload = m.payload
         /\ Aggregate(m, A).status = "CONFLICT" <=> m.status = "CONFLICT"
<1> USE EvidenceAssumption
<1> DEFINE now == Current(A)
           some == {x \in now : StatusOf(A, x) = "CAPTURED"}
<1>1. IsFiniteSet(Keys \X (1..MaxVersion))
  <2>1. IsFiniteSet(1..MaxVersion) BY FS_Interval
  <2> QED BY <2>1, FS_Product
<1>2. IsFiniteSet(some) BY <1>1, FS_Subset DEF Current
<1>3. Cardinality(some) \in Nat BY <1>2, FS_CardinalityType
<1> HIDE DEF some
<1>4. CASE m.status = "CONFLICT" BY <1>4 DEF Aggregate
<1>5. CASE m.status # "CONFLICT"
  <2> DEFINE n == Cardinality(some)
             failing == \E x \in now : StatusOf(A, x) \in Failing
             final == m.expected >= 0
             s == CASE failing \/ (final /\ Cardinality(now) > m.expected) -> "PARTIAL"
                    [] final /\ ~failing /\ Cardinality(now) = m.expected
                             /\ n = m.expected -> "COMPLETE"
                    [] OTHER -> "PENDING"
  <2>1. Aggregate(m, A) = [m EXCEPT !.count = n, !.status = s]
    BY <1>5 DEF Aggregate, some
  <2>2. s \in {"PARTIAL", "COMPLETE", "PENDING"}
    <3> HIDE DEF failing, final, n
    <3> QED OBVIOUS
  <2> HIDE DEF s
  <2> QED BY <2>1, <2>2, <1>3, <1>5 DEF Message
<1> QED BY <1>4, <1>5

LEMMA AttachmentKeeps ==
  ASSUME EInv, NEW k \in Keys, NEW f \in Files, NEW prov \in Provenances,
         IngestAttachment(k, f, prov) \/ \E v \in 1..MaxVersion : Supersede(k, v, f, prov)
  PROVE  EInv' /\ Kept
<1> USE EvidenceAssumption
<1> DEFINE x == NewVersion(f, prov)
<1>1. x \in Version /\ x.current = TRUE /\ x.status = "PENDING" /\ x.bytes = Gone
  BY DEF NewVersion, Version, Statuses
<1> HIDE DEF x
<1>2. /\ busy = None /\ msg.payload # None
      /\ Extends(k, x) /\ msg' = Aggregate(msg, att')
      /\ UNCHANGED <<recorded, answer, file, editing, job, use, busy, told>>
  BY DEF IngestAttachment, Supersede, Unlocked, journal, Extends, x
<1>3. RowsOK /\ msg \in Message BY Parts
<1>4. Len(att[k]) < MaxVersion
  <2>1. CASE att[k] = <<>> BY <2>1
  <2>2. ASSUME NEW v \in 1..MaxVersion, Supersede(k, v, f, prov) PROVE Len(att[k]) < MaxVersion
    <3>1. v \in DOMAIN att[k] /\ att[k][v].current /\ v < MaxVersion BY <2>2 DEF Supersede
    <3>2. v = Len(att[k]) BY <3>1, <1>3 DEF RowsOK, VersionChain
    <3> QED BY <3>1, <3>2
  <2> QED BY <2>1, <2>2 DEF IngestAttachment
<1>5. msg' \in Message /\ msg'.payload = msg.payload
      /\ (msg'.status = "CONFLICT" <=> msg.status = "CONFLICT")
  BY <1>2, <1>3, AggregateKeeps
<1>6. Sources' = Sources BY <1>2, <1>5 DEF Sources, Carrying
<1>7. RowsOK' /\ RowsKept /\ \A l \in Keys : DOMAIN att[l] \subseteq DOMAIN att'[l]
  BY <1>1, <1>2, <1>3, <1>4, <1>6, AppendKeeps
<1>8. /\ file' \in [Files -> Contents \cup {Gone}] /\ editing' \subseteq Files
      /\ told' \subseteq recorded /\ job' \in [Requests -> Jobs \cup {None}]
  BY <1>2, Parts DEF ConflictOnRecord
<1> QED BY <1>2, <1>5, <1>7, <1>8, StepKeeps

\* A step that leaves the versions alone too.
LEMMA AsideKeeps ==
  ASSUME EInv, UNCHANGED <<recorded, answer, use, att>>,
         msg' \in Message, msg'.payload = msg.payload,
         msg.status = "CONFLICT" => msg'.status = "CONFLICT",
         msg'.status = "CONFLICT" => msg.status = "CONFLICT" \/
            \E a \in Attempts : a \in recorded /\ use[a].kind = "PAYLOAD",
         file' \in [Files -> Contents \cup {Gone}], editing' \subseteq Files,
         told' \subseteq recorded, busy' \in {busy, None},
         job' \in [Requests -> Jobs \cup {None}],
         \A r \in Requests : job'[r] # None /\ job'[r] # job[r] =>
            /\ msg.payload # None /\ job'[r].version \in DOMAIN att[job'[r].key]
            /\ job'[r].payload \in Sources
  PROVE  EInv' /\ Kept
<1>1. Sources' = Sources BY DEF Sources, Carrying
<1>2. RowsOK' BY <1>1, RowsStay, Parts
<1>3. RowsKept BY DEF RowsKept
<1>4. \A k \in Keys : /\ DOMAIN att[k] \subseteq DOMAIN att'[k]
                      /\ att'[k] # <<>> => msg.payload # None
  BY Parts DEF Delivered
<1> QED BY <1>2, <1>3, <1>4, StepKeeps

LEMMA AnswerKeeps ==
  ASSUME EInv, NEW a \in Attempts, Settle(a)
  PROVE  EInv' /\ Kept
<1> USE EvidenceAssumption
<1>0. /\ RowsOK /\ Journaled /\ Unsettled /\ Delivered /\ msg \in Message
      /\ file \in [Files -> Contents \cup {Gone}] /\ editing \subseteq Files
      /\ job \in [Requests -> Jobs \cup {None}] /\ told \subseteq recorded
  BY Parts DEF ConflictOnRecord
<1>1. CASE Handled(a)
  <2>1. /\ answer[a] = "COMMITTED_INDEPENDENT" /\ use[a].kind = "PAYLOAD"
        /\ msg' \in {[msg EXCEPT !.status = "CONFLICT"], msg}
        /\ told' = told \cup {a} /\ busy' = None
        /\ UNCHANGED <<recorded, answer, att, file, editing, job, use>>
    BY <1>1 DEF Handled, journal
  <2>2. a \in recorded BY <2>1, <1>0 DEF Journaled
  <2>3. /\ msg' \in Message /\ msg'.payload = msg.payload
        /\ msg.status = "CONFLICT" => msg'.status = "CONFLICT"
    BY <2>1, <1>0 DEF Message
  <2> QED BY <2>1, <2>2, <2>3, <1>0, AsideKeeps
<1>2. CASE Thrown(a)
  <2>1. /\ answer[a] = "COMMITTED_INDEPENDENT" /\ told' = told \cup {a} /\ busy' = None
        /\ UNCHANGED <<recorded, answer, msg, att, file, editing, job, use>>
    BY <1>2 DEF Thrown, journal
  <2>2. a \in recorded BY <2>1, <1>0 DEF Journaled
  <2> QED BY <2>1, <2>2, <1>0, AsideKeeps
<1>3. CASE Undone(a)
  <2>1. /\ busy' = None
        /\ UNCHANGED <<recorded, answer, msg, att, told, file, editing, job, use>>
    BY <1>3 DEF Undone, journal, rows
  <2> QED BY <2>1, <1>0, AsideKeeps
<1>4. CASE Unsaved(a)
  <2> DEFINE k == use[a].key
             v == Len(att[k])
             y == [att[k][v] EXCEPT !.status = "FAILED_RETRYABLE"]
  <2>1. /\ busy = a /\ answer[a] = "COMMITTED_INDEPENDENT" /\ use[a].kind = "WRITE"
        /\ att' = [att EXCEPT ![k][v].status = "FAILED_RETRYABLE"]
        /\ msg' = Aggregate(msg, att') /\ told' = told \cup {a} /\ busy' = None
        /\ UNCHANGED <<recorded, answer, file, editing, job, use>>
    BY <1>4 DEF Unsaved, journal
  <2>2. k \in Keys /\ att[k] # <<>> /\ att[k][v].status # "CAPTURED"
    BY <2>1, <1>0 DEF Unsettled
  <2>3. att[k] \in Seq(Version) BY <2>2, <1>0 DEF RowsOK
  <2>4. v \in DOMAIN att[k] /\ att[k][v] \in Version BY <2>2, <2>3
  <2>5. att[k][v].status # "SUPERSEDED"
    <3>1. att[k][v].status = "SUPERSEDED" <=> v < Len(att[k])
      BY <2>2, <2>4, <1>0 DEF RowsOK, VersionChain
    <3> QED BY <3>1, <2>3
  <2>6. /\ y \in Version /\ y.status = "FAILED_RETRYABLE" /\ y.current = att[k][v].current
        /\ y.bytes = att[k][v].bytes /\ y.prov = att[k][v].prov /\ y.file = att[k][v].file
    BY <2>4 DEF Version, Statuses, Failing
  <2>7. att' = [att EXCEPT ![k][v] = y] BY <2>1
  <2>8. msg' \in Message /\ msg'.payload = msg.payload
        /\ (msg'.status = "CONFLICT" <=> msg.status = "CONFLICT")
    BY <2>1, <1>0, AggregateKeeps
  <2>9. Sources' = Sources BY <2>1, <2>8 DEF Sources, Carrying
  <2>10. Backed(k, y, Sources)
    <3>1. Backed(k, att[k][v], Sources)
      BY <2>2, <2>4, <1>0, RecordsBacked DEF RowsOK
    <3> QED BY <3>1, <2>6 DEF Backed
  <2> HIDE DEF y
  <2>11. /\ RowsOK' /\ RowsKept /\ \A l \in Keys : DOMAIN att'[l] = DOMAIN att[l]
    BY <2>2, <2>4, <2>5, <2>6, <2>7, <2>9, <2>10, <1>0, SettleKeeps
  <2>12. \A l \in Keys : att'[l] # <<>> => msg.payload # None
    BY <2>1, <1>0 DEF Journaled
  <2>13. told' \subseteq recorded BY <2>1, <1>0 DEF Journaled
  <2> HIDE DEF k, v
  <2> QED BY <2>1, <2>8, <2>11, <2>12, <2>13, <1>0, StepKeeps
<1> QED BY <1>1, <1>2, <1>3, <1>4 DEF Settle

\* What a job may capture is the last version, neither captured nor superseded,
\* and what it declares is declared by what is on record.
LEMMA OpenRow ==
  ASSUME EInv, NEW r \in Requests, job[r] # None, Open(job[r])
  PROVE  LET j == job[r]
             x == att[j.key][j.version]
         IN /\ j.key \in Keys /\ j.version \in DOMAIN att[j.key] /\ x \in Version
            /\ j.version = Len(att[j.key]) /\ x.current
            /\ x.status \notin {"CAPTURED", "SUPERSEDED"}
            /\ Declaration(j) # None
            /\ \E s \in IF x.prov = Manifest THEN {Manifest} ELSE Sources :
                 Declaration(j) = Declares[s][j.key][x.file]
            /\ Declaration(j).len \in Int
<1> USE EvidenceAssumption
<1> DEFINE j == job[r]
           x == att[j.key][j.version]
<1>1. RowsOK /\ Delivered /\ JobsSourced /\ job \in [Requests -> Jobs \cup {None}] BY Parts
<1>2. j \in Jobs BY <1>1
<1>3. j.key \in Keys /\ j.payload \in Payloads BY <1>2 DEF Jobs
<1>4. j.version \in DOMAIN att[j.key] BY <1>1 DEF Delivered
<1>5. att[j.key] \in Seq(Version) BY <1>1, <1>3 DEF RowsOK
<1>6. x \in Version BY <1>4, <1>5
<1>7. x.current /\ x.status \notin {"CAPTURED", "SUPERSEDED"} /\ Declaration(j) # None
  BY DEF Open
<1>8. j.version = Len(att[j.key]) BY <1>1, <1>3, <1>4, <1>7 DEF RowsOK, VersionChain
<1>9. x.file \in Files BY <1>6 DEF Version
<1>10. j.payload \in Sources BY <1>1 DEF JobsSourced
<1>11. PICK s \in Payloads \cup {Manifest} :
         /\ s \in IF x.prov = Manifest THEN {Manifest} ELSE Sources
         /\ Declaration(j) = Declares[s][j.key][x.file]
  <2>1. CASE x.prov = Manifest
    <3>1. Declaration(j) = Declares[Manifest][j.key][x.file]
      BY <2>1 DEF Declaration, Manifest, Provider, Header
    <3> QED BY <2>1, <3>1
  <2>2. CASE x.prov # Manifest
    <3>1. Declaration(j) = Declares[j.payload][j.key][x.file]
      BY <2>2, <1>7 DEF Declaration
    <3> QED BY <3>1, <2>2, <1>3, <1>10
  <2> QED BY <2>1, <2>2
<1>12. Declaration(j).len \in Int BY <1>3, <1>7, <1>9, <1>11
<1> QED BY <1>3, <1>4, <1>6, <1>7, <1>8, <1>11, <1>12

LEMMA CaptureKeeps ==
  ASSUME EInv, NEW r \in Requests, Capture(r)
  PROVE  EInv' /\ Kept
<1> USE EvidenceAssumption
<1> DEFINE j == job[r]
<1>0. /\ RowsOK /\ msg \in Message /\ file \in [Files -> Contents \cup {Gone}]
      /\ editing \subseteq Files /\ job \in [Requests -> Jobs \cup {None}]
      /\ told \subseteq recorded
  BY Parts DEF ConflictOnRecord
<1>1. /\ job[r] # None /\ busy = None /\ msg.payload # None
      /\ job' = [job EXCEPT ![r] = None]
      /\ UNCHANGED <<recorded, answer, file, editing, use, busy, told>>
  BY DEF Capture, Unlocked, journal
<1>2. /\ job' \in [Requests -> Jobs \cup {None}]
      /\ \A q \in Requests : job'[q] # None => job'[q] = job[q]
  BY <1>0, <1>1
<1>3. CASE ~ Open(j)
  <2>1. UNCHANGED <<msg, att>> BY <1>3 DEF Capture
  <2> QED BY <2>1, <1>0, <1>1, <1>2, AsideKeeps
<1>4. CASE Open(j)
  <2> DEFINE k == j.key
             v == j.version
             x == att[k][v]
             c == file[x.file]
             d == Declaration(j)
  <2>1. /\ k \in Keys /\ v \in DOMAIN att[k] /\ x \in Version /\ v = Len(att[k])
        /\ x.status \notin {"CAPTURED", "SUPERSEDED"}
        /\ d # None /\ d.len \in Int
        /\ \E s \in IF x.prov = Manifest THEN {Manifest} ELSE Sources :
             d = Declares[s][k][x.file]
    BY <1>1, <1>4, OpenRow
  <2>2. PICK s \in Ends(j) :
          /\ att' = [att EXCEPT ![k][v] = Verified(@, s)]
          /\ msg' = Aggregate(msg, att')
    BY <1>4 DEF Capture
  <2>3. s \in {Verdict(c, d), "FAILED_RETRYABLE"} BY DEF Ends
  <2>4. s \in {"CAPTURED", "PARTIAL", "HASH_MISMATCH", "FAILED_RETRYABLE"}
    BY <2>3 DEF Verdict
  <2>5. s = "CAPTURED" => c # Gone /\ Accepts(c, d) BY <2>3 DEF Verdict
  <2>6. c \in Contents \cup {Gone} BY <2>1, <1>0 DEF Version
  <2> DEFINE y == Verified(x, s)
  <2>7. /\ y \in Version /\ y.status = s /\ y.current = x.current
        /\ y.file = x.file /\ y.prov = x.prov
        /\ y.bytes = IF s = "CAPTURED" THEN c ELSE x.bytes
    <3>1. s \in Statuses BY <2>4 DEF Statuses, Failing
    <3> HIDE DEF c
    <3>2. y = [x EXCEPT !.status = s, !.bytes = IF s = "CAPTURED" THEN c ELSE x.bytes]
      BY DEF Verified, c
    <3> HIDE DEF y, x
    <3> QED BY <3>1, <3>2, <2>1, <2>6 DEF Version
  <2>8. att' = [att EXCEPT ![k][v] = y] BY <2>2
  <2>9. msg' \in Message /\ msg'.payload = msg.payload
        /\ (msg'.status = "CONFLICT" <=> msg.status = "CONFLICT")
    BY <2>2, <1>0, AggregateKeeps
  <2>10. Sources' = Sources BY <1>1, <2>9 DEF Sources, Carrying
  <2>11. Backed(k, y, Sources)
    <3>1. CASE s = "CAPTURED"
      <4>1. PICK t \in IF x.prov = Manifest THEN {Manifest} ELSE Sources :
              d = Declares[t][k][x.file]
        BY <2>1
      <4>2. d.len >= 0 => c.len = d.len
        <5>1. d.len \in Int /\ Accepts(c, d) BY <3>1, <2>1, <2>5
        <5> HIDE DEF c, d
        <5> QED BY <5>1 DEF Accepts
      <4>3. d.sha # None => c.sha = d.sha BY <3>1, <2>5 DEF Accepts
      <4> HIDE DEF c, d, x, y, k
      <4> QED BY <4>1, <4>2, <4>3, <3>1, <2>1, <2>7 DEF Backed
    <3>2. CASE s # "CAPTURED"
      <4>1. Backed(k, x, Sources)
        BY <2>1, <1>0, RecordsBacked DEF RowsOK
      <4> HIDE DEF y
      <4> QED BY <4>1, <3>2, <2>7 DEF Backed
    <3> QED BY <3>1, <3>2
  <2>12. y.status # "SUPERSEDED" /\ (y.status = "CAPTURED" => y.bytes # Gone)
    BY <2>4, <2>5, <2>7
  <2> HIDE DEF y, d, c
  <2>13. /\ RowsOK' /\ RowsKept /\ \A l \in Keys : DOMAIN att'[l] = DOMAIN att[l]
    BY <2>1, <2>7, <2>8, <2>10, <2>11, <2>12, <1>0, SettleKeeps
  <2> HIDE DEF k, v
  <2> QED BY <2>9, <2>13, <1>0, <1>1, <1>2, StepKeeps
<1> QED BY <1>3, <1>4

LEMMA BeginCaptureKeeps ==
  ASSUME EInv, NEW r \in Requests, NEW k \in Keys, NEW v \in 1..MaxVersion,
         BeginCapture(r, k, v)
  PROVE  EInv' /\ Kept
<1> USE EvidenceAssumption
<1>0. /\ msg \in Message /\ file \in [Files -> Contents \cup {Gone}]
      /\ editing \subseteq Files /\ job \in [Requests -> Jobs \cup {None}]
      /\ told \subseteq recorded /\ use \in [Attempts -> Uses]
  BY Parts DEF ConflictOnRecord
<1>1. PICK p \in Newest :
        /\ msg.payload # None /\ v \in DOMAIN att[k]
        /\ job' = [job EXCEPT ![r] = [key |-> k, version |-> v, payload |-> p]]
        /\ UNCHANGED <<recorded, answer, msg, att, file, editing, use, busy, told>>
  BY DEF BeginCapture, journal
<1>2. p \in Sources BY DEF Newest, Sources
<1>3. p \in Payloads
  <2>1. msg.payload \in Payloads BY <1>0, <1>1 DEF Message
  <2>2. \A a \in Carrying : use[a].payload \in Payloads BY <1>0 DEF Carrying, Uses
  <2> QED BY <2>1, <2>2, <1>2 DEF Sources
<1> DEFINE j == [key |-> k, version |-> v, payload |-> p]
<1>4. j \in Jobs /\ j.key = k /\ j.version = v /\ j.payload = p BY <1>3 DEF Jobs
<1> HIDE DEF j
<1>5. job' = [job EXCEPT ![r] = j] BY <1>1 DEF j
<1>6. /\ job' \in [Requests -> Jobs \cup {None}]
      /\ \A q \in Requests : job'[q] # job[q] => q = r /\ job'[q] = j
  BY <1>0, <1>4, <1>5
<1> QED BY <1>0, <1>1, <1>2, <1>4, <1>6, AsideKeeps

LEMMA EditKeeps ==
  ASSUME EInv, NEW f \in Files,
         BeginEdit(f) \/ \E c \in Contents \cup {Gone} : FinishEdit(f, c)
  PROVE  EInv' /\ Kept
<1>0. /\ msg \in Message /\ file \in [Files -> Contents \cup {Gone}]
      /\ editing \subseteq Files /\ job \in [Requests -> Jobs \cup {None}]
      /\ told \subseteq recorded
  BY Parts DEF ConflictOnRecord
<1>1. /\ UNCHANGED <<recorded, answer, msg, att, told, job, use, busy>>
      /\ file' \in [Files -> Contents \cup {Gone}] /\ editing' \subseteq Files
  BY <1>0 DEF BeginEdit, FinishEdit, journal, rows
<1> QED BY <1>0, <1>1, AsideKeeps

\* An attempt is begun.
LEMMA ReportKeeps ==
  ASSUME EInv, NEW a \in Attempts, NEW u \in Uses, Report(a, u),
         u.kind = "PAYLOAD" => u.payload # msg.payload /\ u.payload # None,
         u.kind = "WRITE" =>
           u.key \in Keys /\ att[u.key] # <<>> /\ att[u.key][Len(att[u.key])].status # "CAPTURED",
         UNCHANGED <<msg, att, told, file, editing>>,
         job' \in [Requests -> Jobs \cup {None}],
         \A r \in Requests : job'[r] # None => job'[r] = job[r]
  PROVE  EInv' /\ Kept
<1> USE EvidenceAssumption
<1>0. /\ RowsOK /\ Journaled /\ Unsettled /\ Delivered /\ JobsSourced /\ ConflictOnRecord
      /\ recorded \subseteq Attempts /\ answer \in [Attempts -> Journal!Answers]
      /\ use \in [Attempts -> Uses]
  BY Parts
<1>1. /\ msg.payload # None /\ answer[a] = "IDLE"
      /\ answer' = [answer EXCEPT ![a] = "ASKED"] /\ recorded' = recorded
      /\ use' = [use EXCEPT ![a] = u] /\ busy' = a
  BY DEF Report, Unlocked, Journal!Ask
<1>2. a \notin recorded BY <1>0, <1>1 DEF Journaled
<1>3. \A b \in Attempts : b # a => use'[b] = use[b] /\ answer'[b] = answer[b]
  BY <1>0, <1>1
<1>4. use'[a] = u /\ answer'[a] = "ASKED" BY <1>0, <1>1
<1>5. answer' \in [Attempts -> Journal!Answers] BY <1>0, <1>1 DEF Journal!Answers
<1>6. use' \in [Attempts -> Uses] BY <1>0, <1>1
<1>7. Journaled'
  <2> SUFFICES ASSUME NEW b \in Attempts
               PROVE  /\ answer'[b] = "COMMITTED_INDEPENDENT" => b \in recorded'
                      /\ b \in recorded' => answer'[b] # "IDLE"
                      /\ answer'[b] = "IDLE" => use'[b] = NoUse
                      /\ use'[b].kind = "PAYLOAD" =>
                           use'[b].payload # msg'.payload /\ use'[b].payload # None
                      /\ use'[b].kind # "NONE" => msg'.payload # None
    BY DEF Journaled
  <2>1. CASE b = a BY <2>1, <1>1, <1>2, <1>4
  <2>2. CASE b # a BY <2>2, <1>0, <1>1, <1>3 DEF Journaled
  <2> QED BY <2>1, <2>2
<1>8. Unsettled' BY <1>1, <1>4 DEF Unsettled
<1>9. Delivered' BY <1>0 DEF Delivered
<1>10. Carrying' = Carrying BY <1>1, <1>2, <1>3 DEF Carrying
<1>11. Sources' = Sources BY <1>2, <1>3, <1>10 DEF Sources, Carrying
<1>12. JobsSourced' BY <1>0, <1>11 DEF JobsSourced
<1>13. ConflictOnRecord' BY <1>0, <1>1, <1>2, <1>3 DEF ConflictOnRecord
<1>14. RowsOK' BY <1>0, <1>11, RowsStay
<1>15. RowsKept /\ Kept BY DEF RowsKept, Kept
<1>16. /\ msg' \in Message /\ file' \in [Files -> Contents \cup {Gone}] /\ editing' \subseteq Files
       /\ recorded' \subseteq Attempts /\ busy' \in Attempts \cup {None} /\ told' \subseteq Attempts
  BY Parts, <1>1
<1> QED BY <1>5, <1>6, <1>7, <1>8, <1>9, <1>12, <1>13, <1>14, <1>15, <1>16
        DEF EInv, TypeOK, RowsOK, Message

LEMMA AskKeeps ==
  ASSUME EInv, NEW a \in Attempts,
         \/ \E p \in Payloads : RedeliverPayload(a, p) \/ RedeliverSender(a, p)
         \/ Refuse(a)
  PROVE  EInv' /\ Kept
<1> USE EvidenceAssumption
<1>0. job \in [Requests -> Jobs \cup {None}] BY Parts
<1>1. ASSUME NEW p \in Payloads, RedeliverPayload(a, p) PROVE EInv' /\ Kept
  <2> DEFINE u == [kind |-> "PAYLOAD", payload |-> p, key |-> None]
  <2>1. u \in Uses /\ u.kind = "PAYLOAD" /\ u.payload = p BY DEF Uses
  <2>2. /\ p # msg.payload /\ Report(a, u)
        /\ UNCHANGED <<msg, att, told, file, editing, job>>
    BY <1>1 DEF RedeliverPayload, rows
  <2> HIDE DEF u
  <2> QED BY <2>1, <2>2, <1>0, ReportKeeps
<1>2. ASSUME NEW p \in Payloads, RedeliverSender(a, p) PROVE EInv' /\ Kept
  <2> DEFINE u == [kind |-> "SENDER", payload |-> p, key |-> None]
  <2>1. u \in Uses /\ u.kind = "SENDER" BY DEF Uses
  <2>2. Report(a, u) /\ UNCHANGED <<msg, att, told, file, editing, job>>
    BY <1>2 DEF RedeliverSender, rows
  <2> HIDE DEF u
  <2> QED BY <2>1, <2>2, <1>0, ReportKeeps
<1>3. CASE Refuse(a)
  <2> DEFINE u == [kind |-> "REFUSED", payload |-> None, key |-> None]
  <2>1. u \in Uses /\ u.kind = "REFUSED" BY DEF Uses
  <2>2. Report(a, u) /\ UNCHANGED <<msg, att, told, file, editing, job>>
    BY <1>3 DEF Refuse, rows
  <2> HIDE DEF u
  <2> QED BY <2>1, <2>2, <1>0, ReportKeeps
<1> QED BY <1>1, <1>2, <1>3

LEMMA CaptureFailsKeeps ==
  ASSUME EInv, NEW r \in Requests, NEW a \in Attempts, CaptureFails(r, a)
  PROVE  EInv' /\ Kept
<1> USE EvidenceAssumption
<1> DEFINE j == job[r]
           u == [kind |-> "WRITE", payload |-> None, key |-> j.key]
<1>0. job \in [Requests -> Jobs \cup {None}] BY Parts
<1>1. /\ job[r] # None /\ Open(j) /\ job' = [job EXCEPT ![r] = None] /\ Report(a, u)
      /\ UNCHANGED <<msg, att, told, file, editing>>
  BY DEF CaptureFails, rows
<1>2. /\ j.key \in Keys /\ j.version \in DOMAIN att[j.key]
      /\ j.version = Len(att[j.key]) /\ att[j.key][j.version].status # "CAPTURED"
  BY <1>1, OpenRow
<1>3. att[j.key] # <<>> BY <1>2
<1>4. u \in Uses /\ u.kind = "WRITE" /\ u.key = j.key BY <1>2 DEF Uses
<1>5. /\ job' \in [Requests -> Jobs \cup {None}]
      /\ \A q \in Requests : job'[q] # None => job'[q] = job[q]
  BY <1>0, <1>1
<1> HIDE DEF u, j
<1> QED BY <1>1, <1>2, <1>3, <1>4, <1>5, ReportKeeps

LEMMA RecordKeeps ==
  ASSUME EInv, NEW a \in Attempts, Record(a)
  PROVE  EInv' /\ Kept
<1> USE EvidenceAssumption
<1>0. /\ RowsOK /\ Journaled /\ Unsettled /\ Delivered /\ JobsSourced /\ ConflictOnRecord
      /\ recorded \subseteq Attempts /\ answer \in [Attempts -> Journal!Answers]
  BY Parts
<1>1. UNCHANGED <<msg, att, file, editing, job, use, busy, told>>
  BY DEF Record, evidenceVars
<1>2. /\ recorded \subseteq recorded' /\ recorded' \subseteq Attempts
      /\ answer' \in [Attempts -> Journal!Answers]
      /\ \A b \in Attempts : /\ answer'[b] = "IDLE" <=> answer[b] = "IDLE"
                             /\ b \in recorded' => b \in recorded \/ answer[b] # "IDLE"
                             /\ answer'[b] = "COMMITTED_INDEPENDENT" =>
                                  answer[b] = "COMMITTED_INDEPENDENT" \/ b \in recorded
  <2>1. CASE Journal!Record(a) BY <2>1, <1>0 DEF Journal!Record
  <2>2. CASE Journal!Reply(a) BY <2>2, <1>0 DEF Journal!Reply, Journal!Answers
  <2>3. CASE Journal!Die(a) BY <2>3, <1>0 DEF Journal!Die, Journal!Answers
  <2> QED BY <2>1, <2>2, <2>3 DEF Record
<1>3. Journaled'
  <2> SUFFICES ASSUME NEW b \in Attempts
               PROVE  /\ answer'[b] = "COMMITTED_INDEPENDENT" => b \in recorded'
                      /\ b \in recorded' => answer'[b] # "IDLE"
                      /\ answer'[b] = "IDLE" => use'[b] = NoUse
                      /\ use'[b].kind = "PAYLOAD" =>
                           use'[b].payload # msg'.payload /\ use'[b].payload # None
                      /\ use'[b].kind # "NONE" => msg'.payload # None
    BY DEF Journaled
  <2> QED BY <1>0, <1>1, <1>2 DEF Journaled
<1>4. Unsettled' /\ Delivered' BY <1>0, <1>1 DEF Unsettled, Delivered
<1>5. Sources \subseteq Sources' BY <1>1, <1>2 DEF Sources, Carrying
<1>6. JobsSourced' BY <1>0, <1>1, <1>5 DEF JobsSourced
<1>7. ConflictOnRecord' BY <1>0, <1>1, <1>2 DEF ConflictOnRecord
<1>8. RowsOK' BY <1>0, <1>1, <1>5, RowsStay
<1>9. Kept BY <1>1 DEF RowsKept, Kept
<1>10. /\ msg' \in Message /\ file' \in [Files -> Contents \cup {Gone}] /\ editing' \subseteq Files
       /\ job' \in [Requests -> Jobs \cup {None}] /\ use' \in [Attempts -> Uses]
       /\ busy' \in Attempts \cup {None} /\ told' \subseteq Attempts
  BY Parts, <1>1
<1> QED BY <1>2, <1>3, <1>4, <1>6, <1>7, <1>8, <1>9, <1>10
        DEF EInv, TypeOK, RowsOK, Message

LEMMA IngestKeeps ==
  ASSUME EInv, NEW p \in Payloads, NEW n \in Expected, IngestMessage(p, n)
  PROVE  EInv' /\ Kept
<1> USE EvidenceAssumption
<1>0. /\ RowsOK /\ Journaled /\ Unsettled /\ Delivered /\ JobsSourced /\ ConflictOnRecord
      /\ recorded \subseteq Attempts /\ msg \in Message
  BY Parts
<1>1. /\ msg.payload = None /\ msg' = [msg EXCEPT !.payload = p, !.expected = n]
      /\ UNCHANGED <<recorded, answer, att, file, editing, job, use, busy, told>>
  BY DEF IngestMessage, journal
<1>2. msg' \in Message /\ msg'.payload = p /\ msg'.status = msg.status
  BY <1>0, <1>1 DEF Message
<1>3. \A k \in Keys : att[k] = <<>> BY <1>0, <1>1 DEF Delivered
<1>4. \A r \in Requests : job[r] = None BY <1>0, <1>1 DEF Delivered
<1>5. \A a \in Attempts : use[a].kind = "NONE" BY <1>0, <1>1 DEF Journaled
<1>6. Journaled' BY <1>0, <1>1, <1>5 DEF Journaled
<1>7. Unsettled' BY <1>0, <1>1 DEF Unsettled
<1>8. Delivered' /\ JobsSourced' BY <1>1, <1>3, <1>4 DEF Delivered, JobsSourced
<1>9. ConflictOnRecord' BY <1>0, <1>1, <1>2, <1>5 DEF ConflictOnRecord
<1>10. RowsOK' BY <1>0, <1>1, <1>3, RowsStay
<1>11. Kept BY <1>1, <1>2 DEF RowsKept, Kept
<1>12. /\ file' \in [Files -> Contents \cup {Gone}] /\ editing' \subseteq Files
       /\ job' \in [Requests -> Jobs \cup {None}] /\ use' \in [Attempts -> Uses]
       /\ busy' \in Attempts \cup {None} /\ told' \subseteq Attempts
       /\ recorded' \subseteq Attempts /\ answer' \in [Attempts -> Journal!Answers]
  BY Parts, <1>1
<1> QED BY <1>2, <1>6, <1>7, <1>8, <1>9, <1>10, <1>11, <1>12
        DEF EInv, TypeOK, RowsOK, Message

-----------------------------------------------------------------------------
(* The specification.                                                      *)

LEMMA EvidenceStart == Init => EInv
<1> SUFFICES ASSUME Init PROVE EInv
    OBVIOUS
<1> USE EvidenceAssumption
<1>1. /\ recorded = {} /\ answer = [a \in Attempts |-> "IDLE"]
      /\ msg = [payload |-> None, expected |-> -1, status |-> "PENDING", count |-> 0]
      /\ att = [k \in Keys |-> <<>>] /\ file \in [Files -> Contents] /\ editing = {}
      /\ job = [r \in Requests |-> None] /\ use = [a \in Attempts |-> NoUse]
      /\ busy = None /\ told = {}
  BY DEF Init, Journal!Init
<1>2. att \in [Keys -> Seq(Version)] /\ \A k \in Keys : att[k] = <<>> BY <1>1
<1>3. \A k \in Keys : Len(att[k]) = 0 /\ DOMAIN att[k] = {} BY <1>2
<1>4. VersionChain /\ CapturedAsRecorded
  BY <1>3 DEF VersionChain, CapturedAsRecorded
<1>5. ConflictOnRecord BY <1>1 DEF ConflictOnRecord
<1>6. NoUse \in Uses /\ NoUse.kind = "NONE" BY DEF NoUse, Uses
<1>7. Journaled
  <2> HIDE DEF NoUse
  <2> QED BY <1>1, <1>6 DEF Journaled
<1>8. Unsettled /\ Delivered /\ JobsSourced
  BY <1>1 DEF Unsettled, Delivered, JobsSourced
<1>9. /\ recorded \subseteq Attempts /\ answer \in [Attempts -> Journal!Answers]
      /\ file \in [Files -> Contents \cup {Gone}] /\ editing \subseteq Files
      /\ job \in [Requests -> Jobs \cup {None}] /\ use \in [Attempts -> Uses]
      /\ busy \in Attempts \cup {None} /\ told \subseteq Attempts
  BY <1>1, <1>6 DEF Journal!Answers
<1>10. msg \in Message BY <1>1 DEF Message
<1>11. RowsOK BY <1>2, <1>3, <1>4 DEF RowsOK
<1> QED BY <1>5, <1>7, <1>8, <1>9, <1>10, <1>11, Parts

LEMMA EvidenceStep == EInv /\ [Next]_vars => EInv' /\ Kept
<1> SUFFICES ASSUME EInv, [Next]_vars PROVE EInv' /\ Kept
    OBVIOUS
<1>1. ASSUME NEW p \in Payloads, NEW n \in Expected, IngestMessage(p, n)
      PROVE  EInv' /\ Kept
  BY <1>1, IngestKeeps
<1>2. ASSUME NEW k \in Keys, NEW f \in Files, NEW prov \in Provenances,
             IngestAttachment(k, f, prov) \/ \E v \in 1..MaxVersion : Supersede(k, v, f, prov)
      PROVE  EInv' /\ Kept
  BY <1>2, AttachmentKeeps
<1>3. ASSUME NEW a \in Attempts,
             \/ \E p \in Payloads : RedeliverPayload(a, p) \/ RedeliverSender(a, p)
             \/ Refuse(a)
      PROVE  EInv' /\ Kept
  BY <1>3, AskKeeps
<1>4. ASSUME NEW a \in Attempts, Settle(a) PROVE EInv' /\ Kept
  BY <1>4, AnswerKeeps
<1>5. ASSUME NEW a \in Attempts, Record(a) PROVE EInv' /\ Kept
  BY <1>5, RecordKeeps
<1>6. ASSUME NEW a \in Attempts, NEW r \in Requests, CaptureFails(r, a) PROVE EInv' /\ Kept
  BY <1>6, CaptureFailsKeeps
<1>7. ASSUME NEW r \in Requests, Capture(r) PROVE EInv' /\ Kept
  BY <1>7, CaptureKeeps
<1>8. ASSUME NEW r \in Requests, NEW k \in Keys, NEW v \in 1..MaxVersion, BeginCapture(r, k, v)
      PROVE  EInv' /\ Kept
  BY <1>8, BeginCaptureKeeps
<1>9. ASSUME NEW f \in Files,
             BeginEdit(f) \/ \E c \in Contents \cup {Gone} : FinishEdit(f, c)
      PROVE  EInv' /\ Kept
  BY <1>9, EditKeeps
<1>10. CASE UNCHANGED vars
  <2>1. UNCHANGED <<recorded, answer, msg, att, file, editing, job, use, busy, told>>
    BY <1>10 DEF vars, journal, evidenceVars
  <2>2. /\ msg \in Message /\ file \in [Files -> Contents \cup {Gone}]
        /\ editing \subseteq Files /\ job \in [Requests -> Jobs \cup {None}]
        /\ told \subseteq recorded
    BY Parts DEF ConflictOnRecord
  <2> QED BY <2>1, <2>2, AsideKeeps
<1> QED BY <1>1, <1>2, <1>3, <1>4, <1>5, <1>6, <1>7, <1>8, <1>9, <1>10 DEF Next

\* The inductive invariant of a message and its attachments.
THEOREM EvidenceInvariant == Spec => []EInv
<1>1. EInv /\ [Next]_vars => EInv' BY EvidenceStep
<1> QED BY <1>1, EvidenceStart, PTL DEF Spec

\* Rows keep the shape of their doctypes, and what is captured has bytes on record.
THEOREM EvidenceTypeCorrect == Spec => []TypeOK
<1>1. EInv => TypeOK BY DEF EInv
<1> QED BY <1>1, EvidenceInvariant, PTL

\* A conflict that was told, or that shows on the message, is on record for good.
THEOREM ConflictStaysOnRecord == Spec => []ConflictOnRecord
<1>1. EInv => ConflictOnRecord BY DEF EInv
<1> QED BY <1>1, EvidenceInvariant, PTL

\* The versions of an attachment form one line of corrections.
THEOREM OneLineOfVersions == Spec => []VersionChain
<1>1. EInv => VersionChain BY DEF EInv
<1> QED BY <1>1, EvidenceInvariant, PTL

\* The bytes of a captured attachment are declared by what is on record.
THEOREM CapturedAsDeclared == Spec => []CapturedAsRecorded
<1>1. EInv => CapturedAsRecorded BY DEF EInv
<1> QED BY <1>1, EvidenceInvariant, PTL

\* What is captured or superseded stays, and a conflict is not cleared.
THEOREM CapturedStays == Spec => KeepsCaptured
<1> DEFINE Stays ==
      /\ msg.status = "CONFLICT" => msg'.status = "CONFLICT"
      /\ \A k \in Keys : \A v \in DOMAIN att[k] :
           /\ att[k][v].status = "CAPTURED" =>
                /\ att'[k][v].status \in {"CAPTURED", "SUPERSEDED"}
                /\ att'[k][v].bytes = att[k][v].bytes
           /\ att[k][v].status = "SUPERSEDED" => att'[k][v] = att[k][v]
<1>1. EInv /\ [Next]_vars => [Stays]_vars
  <2>1. Kept => Stays BY DEF Kept, RowsKept
  <2> QED BY <2>1, EvidenceStep
<1> QED BY <1>1, EvidenceInvariant, PTL DEF Spec, KeepsCaptured

-----------------------------------------------------------------------------
(* The status a message shows.  The code counts current versions; the      *)
(* property speaks of attachments.  VersionChain makes the two the same.   *)

Last(A, k) == A[k][Len(A[k])]
Present(A) == {k \in Keys : A[k] # <<>>}
In(A, S) == {k \in Keys : A[k] # <<>> /\ Last(A, k).status \in S}

\* Message m shows the status of attachments A.
Shows(m, A) ==
  Present(A) # {} /\ m.status # "CONFLICT" =>
    /\ m.count = Cardinality(In(A, {"CAPTURED"}))
    /\ m.status = "COMPLETE" <=>
         /\ Cardinality(In(A, Statuses)) = m.expected
         /\ \A k \in Present(A) : Last(A, k).status = "CAPTURED"
    /\ m.status = "PARTIAL" <=>
         \/ \E k \in Present(A) : Last(A, k).status \in Failing
         \/ m.expected >= 0 /\ Cardinality(In(A, Statuses)) > m.expected

\* Attachments whose versions form one line.
Lined(A) ==
  /\ A \in [Keys -> Seq(Version)]
  /\ \A k \in Keys : Len(A[k]) <= MaxVersion
  /\ \A k \in Keys : \A v \in DOMAIN A[k] : A[k][v].current <=> v = Len(A[k])

LEMMA StatusShown ==
  ASSUME att \in [Keys -> Seq(Version)]
  PROVE  StatusCurrent <=> Shows(msg, att)
<1> DEFINE last == {att[k][Len(att[k])] : k \in {j \in Keys : att[j] # <<>>}}
<1>1. last # {} <=> Present(att) # {}
  BY DEF Present
<1>2. (\A x \in last : x.status = "CAPTURED")
        <=> (\A k \in Present(att) : Last(att, k).status = "CAPTURED")
  BY DEF Present, Last
<1>3. (\E x \in last : x.status \in Failing)
        <=> (\E k \in Present(att) : Last(att, k).status \in Failing)
  BY DEF Present, Last
<1> HIDE DEF last
<1>4. QED
  BY <1>1, <1>2, <1>3 DEF StatusCurrent, Shows, In, Last, last

LEMMA StatusShownNext ==
  ASSUME att' \in [Keys -> Seq(Version)]
  PROVE  StatusCurrent' <=> Shows(msg', att')
<1> DEFINE last == {att'[k][Len(att'[k])] : k \in {j \in Keys : att'[j] # <<>>}}
<1>1. last # {} <=> Present(att') # {}
  BY DEF Present
<1>2. (\A x \in last : x.status = "CAPTURED")
        <=> (\A k \in Present(att') : Last(att', k).status = "CAPTURED")
  BY DEF Present, Last
<1>3. (\E x \in last : x.status \in Failing)
        <=> (\E k \in Present(att') : Last(att', k).status \in Failing)
  BY DEF Present, Last
<1> HIDE DEF last
<1>4. QED
  BY <1>1, <1>2, <1>3 DEF StatusCurrent, Shows, In, Last, last

\* The current version of an attachment is its last.
LEMMA CurrentLast ==
  ASSUME NEW A, Lined(A), NEW k \in Keys, NEW v
  PROVE  /\ <<k, v>> \in Current(A) <=> k \in Present(A) /\ v = Len(A[k])
         /\ k \in Present(A) => StatusOf(A, <<k, Len(A[k])>>) = Last(A, k).status
         /\ k \in Present(A) => Last(A, k) \in Version
<1> USE EvidenceAssumption
<1>1. A[k] \in Seq(Version) /\ Len(A[k]) \in Nat /\ DOMAIN A[k] = 1..Len(A[k])
  BY DEF Lined
<1>2. A[k] # <<>> => Len(A[k]) \in DOMAIN A[k] /\ Len(A[k]) \in 1..MaxVersion
  BY <1>1 DEF Lined
<1>3. <<k, v>> \in Current(A) <=> v \in 1..MaxVersion /\ v \in DOMAIN A[k] /\ A[k][v].current
  BY DEF Current
<1>4. <<k, v>> \in Current(A) => v = Len(A[k]) /\ k \in Present(A)
  BY <1>1, <1>3 DEF Lined, Present
<1>5. k \in Present(A) => <<k, Len(A[k])>> \in Current(A)
  BY <1>2 DEF Lined, Present, Current
<1>6. k \in Present(A) => Last(A, k) \in Version
  BY <1>1, <1>2 DEF Present, Last
<1>7. QED
  BY <1>4, <1>5, <1>6 DEF StatusOf, Last

\* Counting current versions is counting attachments.
LEMMA CountsAgree ==
  ASSUME NEW A, Lined(A), NEW S
  PROVE  /\ IsFiniteSet(In(A, S)) /\ Cardinality(In(A, S)) \in Nat
         /\ Cardinality({x \in Current(A) : StatusOf(A, x) \in S}) = Cardinality(In(A, S))
<1> DEFINE T == {x \in Current(A) : StatusOf(A, x) \in S}
           f == [k \in In(A, S) |-> <<k, Len(A[k])>>]
<1>1. IsFiniteSet(In(A, S))
  BY EvidenceAssumption, FS_Subset DEF In
<1>2. \A k \in In(A, S) : k \in Keys /\ k \in Present(A) /\ Last(A, k).status \in S
  BY DEF In, Present
<1>3. \A k \in In(A, S) : <<k, Len(A[k])>> \in T
  BY <1>2, CurrentLast
<1>4. ASSUME NEW x \in T
      PROVE  \E k \in In(A, S) : f[k] = x
  <2>1. PICK k \in Keys, v \in 1..MaxVersion : x = <<k, v>>
    BY <1>4 DEF Current
  <2>2. k \in Present(A) /\ v = Len(A[k]) /\ StatusOf(A, x) = Last(A, k).status
    BY <1>4, <2>1, CurrentLast
  <2>3. k \in In(A, S)
    BY <1>4, <2>2 DEF In, Present
  <2>4. f[k] = x
    BY <2>1, <2>2, <2>3
  <2>5. QED
    BY <2>3, <2>4
<1>5. f \in [In(A, S) -> T]
  BY <1>3
<1>6. f \in Bijection(In(A, S), T)
  <2>1. f \in Injection(In(A, S), T)
    BY <1>5 DEF Injection, IsInjective
  <2>2. f \in Surjection(In(A, S), T)
    <3> HIDE DEF T, f
    <3>1. QED
      BY <1>4, <1>5 DEF Surjection
  <2>3. QED
    BY <2>1, <2>2 DEF Bijection
<1>7. Cardinality(T) = Cardinality(In(A, S))
  <2>1. ExistsBijection(In(A, S), T)
    BY <1>6 DEF ExistsBijection
  <2>2. QED
    BY ONLY <1>1, <2>1, FS_Bijection
<1>8. QED
  BY <1>1, <1>7, FS_CardinalityType

LEMMA AggregateShows ==
  ASSUME NEW A, Lined(A), NEW m \in Message
  PROVE  Shows(Aggregate(m, A), A)
<1> DEFINE now == Current(A)
           captured == Cardinality({x \in now : StatusOf(A, x) = "CAPTURED"})
           failing == \E x \in now : StatusOf(A, x) \in Failing
           all == In(A, Statuses)
           done == In(A, {"CAPTURED"})
<1>1. CASE m.status = "CONFLICT"
  BY <1>1 DEF Aggregate, Shows
<1>2. CASE m.status # "CONFLICT"
  <2>1. /\ IsFiniteSet(done) /\ Cardinality(done) \in Nat
        /\ captured = Cardinality(done)
    <3>1. {x \in now : StatusOf(A, x) = "CAPTURED"}
            = {x \in now : StatusOf(A, x) \in {"CAPTURED"}}
      OBVIOUS
    <3>2. QED
      BY <3>1, CountsAgree
  <2>2. /\ IsFiniteSet(all) /\ Cardinality(all) \in Nat
        /\ Cardinality(now) = Cardinality(all)
    <3>1. \A x \in now : StatusOf(A, x) \in Statuses
      <4>1. ASSUME NEW x \in now PROVE StatusOf(A, x) \in Statuses
        <5>1. PICK k \in Keys, v \in 1..MaxVersion : x = <<k, v>>
          BY <4>1 DEF Current
        <5>2. StatusOf(A, x) = Last(A, k).status /\ Last(A, k) \in Version
          BY <4>1, <5>1, CurrentLast
        <5>3. QED
          BY <5>2 DEF Version
      <4>2. QED
        BY <4>1
    <3>2. now = {x \in now : StatusOf(A, x) \in Statuses}
      BY <3>1
    <3>3. QED
      BY <3>2, CountsAgree
  <2>3. failing <=> \E k \in Present(A) : Last(A, k).status \in Failing
    <3>1. ASSUME NEW x \in now, StatusOf(A, x) \in Failing
          PROVE  \E k \in Present(A) : Last(A, k).status \in Failing
      <4>1. PICK k \in Keys, v \in 1..MaxVersion : x = <<k, v>>
        BY <3>1 DEF Current
      <4>2. QED
        BY <3>1, <4>1, CurrentLast
    <3>2. ASSUME NEW k \in Present(A), Last(A, k).status \in Failing
          PROVE  failing
      <4>1. k \in Keys
        BY DEF Present
      <4>2. <<k, Len(A[k])>> \in now /\ StatusOf(A, <<k, Len(A[k])>>) \in Failing
        BY <3>2, <4>1, CurrentLast
      <4>3. QED
        BY <4>2
    <3>3. QED
      BY <3>1, <3>2
  <2>4. done \subseteq all /\ (\A k \in Present(A) : k \in all)
    <3>1. \A k \in Present(A) : k \in Keys /\ Last(A, k).status \in Statuses
      <4>1. \A k \in Present(A) : k \in Keys
        BY DEF Present
      <4>2. \A k \in Present(A) : Last(A, k) \in Version
        BY <4>1, CurrentLast
      <4>3. QED
        BY <4>1, <4>2 DEF Version
    <3>2. QED
      BY <3>1 DEF In, Present, Statuses
  <2>5. (\A k \in Present(A) : Last(A, k).status = "CAPTURED")
          <=> Cardinality(done) = Cardinality(all)
    <3>1. Cardinality(done) = Cardinality(all) => done = all
      BY <2>2, <2>4, FS_Subset
    <3>2. done = all <=> \A k \in Present(A) : Last(A, k).status = "CAPTURED"
      BY <2>4 DEF In, Present
    <3>3. QED
      BY <3>1, <3>2
  <2>6. (\A k \in Present(A) : Last(A, k).status = "CAPTURED") => ~failing
    BY <2>3 DEF Failing
  <2> DEFINE final == m.expected >= 0
             s == CASE failing \/ (final /\ Cardinality(now) > m.expected) -> "PARTIAL"
                    [] final /\ ~failing /\ Cardinality(now) = m.expected
                             /\ captured = m.expected -> "COMPLETE"
                    [] OTHER -> "PENDING"
             n == Aggregate(m, A)
  <2>7. n = [m EXCEPT !.count = captured, !.status = s]
    BY <1>2 DEF Aggregate
  <2>8. m.expected \in Int
    <3>1. m.expected \in Expected \cup {-1}
      BY DEF Message
    <3>2. Expected \subseteq Nat \cup {-1}
      BY EvidenceAssumption
    <3>3. m.expected \in Nat \/ m.expected = -1
      BY ONLY <3>1, <3>2
    <3>4. -1 \in Int
      OBVIOUS
    <3>5. QED
      BY ONLY <3>3, <3>4
  <2> HIDE DEF now, captured, failing, all, done
  <2>9. /\ s = "PARTIAL" <=> failing \/ (final /\ Cardinality(all) > m.expected)
        /\ s = "COMPLETE" <=> /\ Cardinality(all) = m.expected
                              /\ Cardinality(done) = Cardinality(all)
                              /\ ~failing
    BY <2>1, <2>2, <2>8
  <2> HIDE DEF s, n
  <2>10. n.count = captured /\ n.status = s /\ n.expected = m.expected
    BY <2>7 DEF Message
  <2>11. QED
    BY <2>1, <2>3, <2>5, <2>6, <2>9, <2>10 DEF Shows, all, done, n
<1>3. QED
  BY <1>1, <1>2

SInv == EInv /\ StatusCurrent

LEMMA LinedRows ==
  ASSUME EInv PROVE Lined(att)
<1>1. RowsOK
  BY Parts
<1>2. QED
  BY <1>1 DEF RowsOK, VersionChain, Lined

LEMMA LinedRowsNext ==
  ASSUME EInv' PROVE Lined(att') /\ att' \in [Keys -> Seq(Version)]
BY DEF EInv, TypeOK, VersionChain, Lined

\* A step that takes the aggregate of the new versions, one that changes
\* neither, one that ends in conflict, and one before there is an attachment.
LEMMA StatusFollows ==
  ASSUME EInv, EInv', StatusCurrent,
         \/ msg' = Aggregate(msg, att')
         \/ UNCHANGED <<msg, att>>
         \/ msg'.status = "CONFLICT"
         \/ Present(att') = {}
  PROVE  StatusCurrent'
<1>1. Lined(att') /\ att' \in [Keys -> Seq(Version)]
  BY LinedRowsNext
<1>2. Shows(msg', att')
  <2>1. CASE msg' = Aggregate(msg, att')
    <3>1. PICK A, m : A = att' /\ m = msg
      OBVIOUS
    <3>2. Lined(A) /\ m \in Message
      BY <1>1, <3>1, Parts
    <3>3. Shows(Aggregate(m, A), A)
      BY <3>2, AggregateShows
    <3>4. Aggregate(m, A) = Aggregate(msg, att')
      BY <3>1
    <3>5. QED
      BY <2>1, <3>1, <3>3, <3>4
  <2>2. CASE UNCHANGED <<msg, att>>
    <3>1. att \in [Keys -> Seq(Version)]
      BY LinedRows DEF Lined
    <3>2. Shows(msg, att)
      BY <3>1, StatusShown
    <3>3. QED
      BY <2>2, <3>2
  <2>3. CASE msg'.status = "CONFLICT" \/ Present(att') = {}
    BY <2>3 DEF Shows
  <2>4. QED
    BY <2>1, <2>2, <2>3
<1>3. QED
  BY <1>1, <1>2, StatusShownNext

LEMMA StatusStep ==
  ASSUME SInv, [Next]_vars PROVE SInv'
<1>1. EInv /\ StatusCurrent /\ EInv'
  BY EvidenceStep DEF SInv
<1> SUFFICES \/ msg' = Aggregate(msg, att')
             \/ UNCHANGED <<msg, att>>
             \/ msg'.status = "CONFLICT"
             \/ Present(att') = {}
  BY <1>1, StatusFollows DEF SInv
<1>2. ASSUME NEW p, NEW n, IngestMessage(p, n)
      PROVE  Present(att') = {}
  <2>1. msg.payload = None /\ att' = att
    BY <1>2 DEF IngestMessage
  <2>2. \A k \in Keys : att[k] = <<>>
    BY <1>1, <2>1, Parts DEF Delivered
  <2>3. QED
    BY <2>1, <2>2 DEF Present
<1>3. ASSUME NEW k, NEW f, NEW prov,
             IngestAttachment(k, f, prov) \/ \E v : Supersede(k, v, f, prov)
      PROVE  msg' = Aggregate(msg, att')
  BY <1>3 DEF IngestAttachment, Supersede
<1>4. ASSUME NEW a, \E p : RedeliverPayload(a, p) \/ RedeliverSender(a, p)
      PROVE  UNCHANGED <<msg, att>>
  BY <1>4 DEF RedeliverPayload, RedeliverSender, rows
<1>5. ASSUME NEW a, Refuse(a) \/ \E r : CaptureFails(r, a)
      PROVE  UNCHANGED <<msg, att>>
  BY <1>5 DEF Refuse, CaptureFails, rows
<1>6. ASSUME NEW a, Settle(a)
      PROVE  \/ msg' = Aggregate(msg, att')
             \/ UNCHANGED <<msg, att>>
             \/ msg'.status = "CONFLICT"
  <2>1. CASE Handled(a)
    <3>1. msg \in Message
      BY <1>1, Parts
    <3>2. QED
      BY <2>1, <3>1 DEF Handled, Message
  <2>2. CASE Unsaved(a)
    BY <2>2 DEF Unsaved
  <2>3. CASE Thrown(a) \/ Undone(a)
    BY <2>3 DEF Thrown, Undone, rows
  <2>4. QED
    BY <1>6, <2>1, <2>2, <2>3 DEF Settle
<1>7. ASSUME NEW a, Record(a) PROVE UNCHANGED <<msg, att>>
  BY <1>7 DEF Record, evidenceVars
<1>8. ASSUME NEW r, Capture(r)
      PROVE  msg' = Aggregate(msg, att') \/ UNCHANGED <<msg, att>>
  BY <1>8 DEF Capture
<1>9. ASSUME NEW r, NEW k, NEW v, BeginCapture(r, k, v)
      PROVE  UNCHANGED <<msg, att>>
  BY <1>9 DEF BeginCapture
<1>10. ASSUME NEW f, BeginEdit(f) \/ \E c : FinishEdit(f, c)
       PROVE  UNCHANGED <<msg, att>>
  BY <1>10 DEF BeginEdit, FinishEdit, rows
<1>11. CASE UNCHANGED vars
  BY <1>11 DEF vars, evidenceVars
<1>12. QED
  BY <1>2, <1>3, <1>4, <1>5, <1>6, <1>7, <1>8, <1>9, <1>10, <1>11 DEF Next

LEMMA StatusStart == Init => SInv
<1> SUFFICES ASSUME Init PROVE SInv
  OBVIOUS
<1>1. EInv
  BY EvidenceStart
<1>2. Present(att) = {}
  BY DEF Init, Present
<1>3. att \in [Keys -> Seq(Version)]
  BY <1>1, LinedRows DEF Lined
<1>4. Shows(msg, att)
  BY <1>2 DEF Shows
<1>5. QED
  BY <1>1, <1>3, <1>4, StatusShown DEF SInv

\* The status and the count of a message are those of its current attachments,
\* whatever superseded, failed or was captured in between.
THEOREM StatusStaysCurrent == Spec => []StatusCurrent
<1>1. SInv /\ [Next]_vars => SInv' BY StatusStep
<1>2. SInv => StatusCurrent BY DEF SInv
<1> QED BY <1>1, <1>2, StatusStart, PTL DEF Spec

=============================================================================
