---------------------------- MODULE SaleRegister ----------------------------
(***************************************************************************)
(* What the rest of the system may rely on about commercial sales: a sale  *)
(* is open, approved or closed for good, and an approved sale keeps its    *)
(* customer once it has one.                                               *)
(*                                                                         *)
(* MoneyLedger composes these moves with the money documents, one sale at  *)
(* a time; CommercialSale implements the register, several sales moving in *)
(* one transaction.                                                        *)
(***************************************************************************)
EXTENDS Naturals

CONSTANTS Sales, Customers, NoCustomer

ASSUME RegisterAssumption == NoCustomer \notin Customers

VARIABLE sale   \* status and customer of each Fresko Commercial Sale

\* OPEN: not created yet, DRAFT, REVIEW_PENDING or VERIFIED.
\* CLOSED: SUPERSEDED or REJECTED.
SaleRow == [status: {"OPEN", "APPROVED", "CLOSED"},
            customer: Customers \cup {NoCustomer}]

RegisterInit ==
  sale = [s \in Sales |-> [status |-> "OPEN", customer |-> NoCustomer]]

\* The moves a sale makes, from row r to row n.

\* The party alias is resolved; an approved sale only gains a customer.
Resolves(r, n) ==
  /\ r.status # "CLOSED"
  /\ r.status = "APPROVED" => r.customer = NoCustomer
  /\ n.status = r.status /\ n.customer \in Customers

\* approve_sale.
Approves(r, n) ==
  /\ r.status = "OPEN"
  /\ n = [r EXCEPT !.status = "APPROVED"]

\* An alias remap sends the sale back to review without its customer.
Reopens(r, n) ==
  /\ r.status # "CLOSED"
  /\ n = [status |-> "OPEN", customer |-> NoCustomer]

\* The sale is rejected or superseded.
Closes(r, n) ==
  /\ r.status # "CLOSED"
  /\ n = [r EXCEPT !.status = "CLOSED"]

RegisterNext ==
  /\ sale' \in [Sales -> SaleRow]
  /\ \A s \in Sales :
       \/ sale'[s] = sale[s]
       \/ Resolves(sale[s], sale'[s])
       \/ Approves(sale[s], sale'[s])
       \/ Reopens(sale[s], sale'[s])
       \/ Closes(sale[s], sale'[s])

RegisterSpec == RegisterInit /\ [][RegisterNext]_sale

=============================================================================
