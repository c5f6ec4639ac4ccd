---------------------------- MODULE MCAttemptLog ----------------------------
(* Instances of AttemptLog for TLC.                                        *)
EXTENDS AttemptLog, TLC

=============================================================================
