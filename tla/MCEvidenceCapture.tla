-------------------------- MODULE MCEvidenceCapture --------------------------
(* Instances of EvidenceCapture for TLC.                                   *)
EXTENDS EvidenceCapture, TLC

\* Two payloads declare a photo each, of whatever name; a file may also be cut short.
First == [len |-> 2, sha |-> "first"]
Second == [len |-> 2, sha |-> "second"]
Cut == [len |-> 1, sha |-> "cut"]

Bytes == {First, Second, Cut}

\* The second payload declares the second photo, and so does the manifest.
Photos ==
  [s \in {"p1", "p2", Manifest} |->
     [k \in Keys |-> [f \in Files |-> IF s = "p1" THEN First ELSE Second]]]

\* An open manifest, and a final one of one or two attachments.
Manifests == {-1, 1, 2}

\* At most one version is declared other than by a digest, and none where the
\* number of attachments is open or exceeded.
MostlyDelivered ==
  LET others == {x \in Keys \X (1..MaxVersion) :
                   x[2] \in DOMAIN att[x[1]] /\ att[x[1]][x[2]].prov # Provider}
  IN others = {} \/ (Cardinality(others) = 1 /\ msg.expected = Cardinality(Keys))

\* Files are edited while every attempt is still to come; from the first attempt
\* on they hold what the second payload declares.
Edited ==
  \/ \A a \in Attempts : answer[a] = "IDLE"
  \/ editing = {} /\ \A f \in Files : file[f] = Second

OneCase == MostlyDelivered /\ Edited

\* The only attempt is a redelivery refused for its sender, handled to the end.
RefusedForSender ==
  \A a \in Attempts :
    /\ use[a].kind \in {"NONE", "SENDER"}
    /\ answer[a] \in {"IDLE", "ASKED", "COMMITTED_INDEPENDENT"}

\* What is declared is the same for all attachments.
Symmetry == Permutations(Keys) \cup Permutations(Files)

=============================================================================
