--------------------------- MODULE OutwardRegister ---------------------------
(***************************************************************************)
(* What the sales may rely on about physical outwards: an outward is       *)
(* posted once, and reversed at most once and only after it was posted;    *)
(* a reversal is for good.                                                 *)
(*                                                                         *)
(* CommercialSale takes its outwards from here; OutwardLedger, where the   *)
(* reversal of an outward is a document of its own, implements it.         *)
(***************************************************************************)
CONSTANT Outwards

VARIABLE outward   \* what _outward_active sees of each Fresko Outward

\* DRAFT: not created yet, Draft, Review Pending, or not an OUTWARD.
OutwardInit == outward = [o \in Outwards |-> "DRAFT"]

\* post_outward, of an OUTWARD.
Posts(o) ==
  /\ outward[o] = "DRAFT"
  /\ outward' = [outward EXCEPT ![o] = "POSTED"]

\* post_outward, of a REVERSAL of o.
Reverses(o) ==
  /\ outward[o] = "POSTED"
  /\ outward' = [outward EXCEPT ![o] = "REVERSED"]

OutwardNext == \E o \in Outwards : Posts(o) \/ Reverses(o)

OutwardSpec == OutwardInit /\ [][OutwardNext]_outward

=============================================================================
