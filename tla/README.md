# fresko_universe in TLA+

`fresko_universe` is a Frappe/ERPNext application for trading produce by the
container: deals are struck on the lots of a container, goods leave it as
outwards, commercial sales say who bought them, and a money ledger says who
paid. It replaces an ERP's silent arithmetic with documents that a maker
prepares, another user verifies and a third approves; what was approved is
never edited, only corrected or reversed.

This directory holds TLA+ models of that core, their TLC instances and TLAPS
proofs. `PROJECT.json` maps each definition to the source lines it stands for.

    tlc -workers 4 -config DealStock.cfg MCDealLedger.tla
    tlapm CommercialProofs.tla

Paths below are relative to `fresko_universe/fresko_universe/`; `services/`
is `fresko_core/services/`.

## 1. The system

| Part | Code | State | Operations |
| --- | --- | --- | --- |
| Deal book | `deals.py`, `approvals.py`, doctypes Deal, Revision, Approval | Fresko Deal (status, lot, qty, dispatched_qty, rates, customer), Fresko Revision, Fresko Approval | `create_deal`, `apply_rate_rules`, `decide`, `accept_counter`, `cancel_deal`, legacy dispatch, `request_revision`, `create_revision_approval`, `apply_revision` |
| Available to sell | `fresko_core/ats.py` | none: sums over the deals and lots | `available_to_sell`, `approved_sold`, physical dispatch ceiling |
| Container | doctype Container | lots with `inward_qty`, operational and money status | saves, the close gate in `validate` |
| Money ledger | `services/money_service.py` | Collection, Payment Allocation, Receivable Adjustment, Adjustment Application | create/propose, submit, verify, reject, approve, reverse, supersede each; `compensate_for_sale_change`, `refresh_money_reconciliation` |
| Commercial sales | `services/commercial_service.py` | Commercial Sale, Party Alias Mapping, Sale Outward Allocation | create, submit, verify, reject, approve, supersede a sale; propose, verify, reject, approve an alias mapping, remap; the same for allocations, and reversal; refresh |
| Outward ledger | `services/outward_service.py`, `fresko_core/physical.py` | Fresko Outward and its lines, Rate Assertions | create, submit, post, reverse; assert, verify, supersede a rate |
| Quantity assertions | `services/quantity_assertion_service.py` | Quantity Assertion per container, basis and unit; variance exceptions | create, submit, reject, activate with supersession, `_ensure_physical_variance`, resolve or waive a variance |
| Close gate | `services/close_gate_service.py`, `close_policy.py`, doctype Container | operational, money and reconciliation status of the container | saves that move the status, evaluated over exceptions and money |
| Evidence | `services/evidence_service.py`, doctypes Evidence, Attachment | the message, its Attachment versions, the File bytes, Attempt log | ingest and re-ingest, register and supersede attachments, capture bytes, aggregate, the hooks on File |
| Integrity checker | `services/integrity_service.py` | Integrity Seals | hash protected records, compare on the next run |
| Exceptions | doctype Exception | one row per kind and document | opened and closed by every part, closed by users on Desk |
| Permissions, install, fixtures, pages, Ask Fresko, scripts | `permissions.py`, `hooks.py`, `install.py`, pages | none of their own | |

How the parts meet:

* a deal takes stock: every decision that sells asks `ats.py`, under the row
  lock of the Container; the active OPERATING_INWARD assertion lowers what ATS
  may give; container saves compare `inward_qty` with `approved_sold`;
* a sale is approved, corrected or reopened by a remap in
  `commercial_service`, which calls `money_service.compensate_for_sale_change`
  in the same transaction; payments and discounts read the sale's customer and
  approved gross;
* an allocation joins a sale to an outward; the outward service knows nothing
  of it, so reversing an outward changes what allocations count without saving
  any sale;
* each part opens and closes its own exceptions, and the close gate counts
  them.

What makes it hard:

* **Concurrency.** Requests are database transactions under REPEATABLE READ.
  Most mutators first lock the Company, then the Container, then the documents
  they read. Some do not: `cancel_deal`, `apply_revision`,
  `create_revision_approval`, container saves, `propose_payment_allocation`
  read before they lock, and rely on Frappe's "modified since" check or on a
  check at approval.
* **Caps over several kinds of document**: stock is drawn by deals and
  dispatches, a debt by payments and discounts, an outward by several sales.
* **Corrections**: a document is replaced by a successor, a correction may
  rival another or be corrected itself, and what hangs on the old document
  must go with it.
* **Stored totals and flags** (allocated amounts, movement, exceptions) that
  each path must keep current.
* **Time**: a receipt becomes effective without any save.

What makes each part correct: nothing is sold or shipped beyond the stock but by
the ways section 5 names, and a dispatch is not undone (deals); money is spent once, a debt settled
once, and both where they are owed (money); goods are allocated once, one
correction stands, and money and goods do not stay with a sale that lost its
approval or customer (sales); one operating quantity per container
(assertions); no closed container with open work (gate); no lost attempt, no
aggregate over superseded attachments (evidence). The hazards, each at its
line, are in `PROJECT.json`.

## 2. The modules

    Totals ─────────┬── DealLedger ──── MCDealLedger ── Deal*.cfg
      └ TotalsProofs│      └── DealLedgerProofs
                    ├── MoneyLedger ─── MCMoneyLedger ── Money*.cfg
                    │      └── MoneyProofs
    SaleRegister ───┤
                    ├── CommercialSale ─ MCCommercialSale ── Commercial*.cfg
    OutwardRegister ┤      └── CommercialProofs
                    └── OutwardLedger ─ MCOutwardLedger ── Outward.cfg
                           └── OutwardProofs

    QuantityLedger ──── CloseGate ───── MCCloseGate ── Quantity*.cfg
                           └── QuantityProofs

    AttemptJournal ─┬── AttemptLog ──── MCAttemptLog ── Attempts.cfg
                    │      └── AttemptProofs
                    └── EvidenceCapture ─ MCEvidenceCapture ── Evidence*.cfg
                           └── EvidenceProofs

**Totals** defines the sum of small quantities over a finite set as the number
of unit pairs, so that sums have provable facts (TotalsProofs) without a
recursive definition.

**DealLedger** is the deal book of one container. Variables: `deal`, `inward`,
`operating` (the active assertion), `exc` (exceptions of each deal), `rev`,
`grant` (approvals bound to a revision), `txn` (what open requests have read),
`edit` (what an open container save has read). Operations that lock the
container before reading are one action. `cancel_deal`, `apply_revision` and
`create_revision_approval` are a Begin step that takes the snapshot and a
Commit step that writes; `Unmodified` is Frappe's modified check, which
`db.set_value(update_modified=False)` escapes. `Save` marks the other open
requests on the deal stale. Sales of a lot are `Sold`, the guard
`Available` is `available_to_sell`, `WithinPhysical` the dispatch ceiling. Part
dispatches, moves from lot to lot and container saves from a snapshot are always
allowed, as in the code. Because of them D10 and F-H1 do not hold as written
(`NoSilentOversell`, `PhysicalCeiling`, `InwardCoversSold`, section 5). What the
code keeps of them is said step by step: `SoldFromStock` looks at what the deals of
a lot have still to ship, which a part dispatch does not free, and `CeilingKept`
names the steps that may take a lot over its ceiling.

**SaleRegister** is the abstract specification of a sale as the rest of the
system sees it: OPEN, APPROVED or CLOSED, with a customer; it may resolve, be
approved, be reopened, be closed; an approved sale keeps its customer, closed
is for good, and any number of sales may move in one step.

**MoneyLedger** is the ledger of one company: `coll`, `alloc`, `adj`, `app`,
the exceptions `exc` of each receipt and, for the proposal that reads before it
locks, an old snapshot `view` of the sales. It composes with the sales by the
moves of SaleRegister: `ChangeSale` reopens or closes a sale and compensates in
the same step, `SettleSale` approves or resolves it. Stored totals, active
transaction keys and successors are state, not derived. A receipt may be entered
ahead of its effective time, which passes with nothing saving it (`BecomesDue`);
the history variable `lapsed` holds the receipts for which that happened since
their last save, the only ones that may lack MONEY_UNALLOCATED.

**CommercialSale** is the sales of one container with their alias, allocations,
exceptions and movement. `outward` is an instance of OutwardRegister, whose
moves are made by the outward service (`Post`, `ReverseOutward`), `paid` says
whose money is allocated to a sale (`Pay` is the approval of a payment or
discount in `money_service`). `KeepsRegister` states that the sales, seen
through the mapping `registered`, implement SaleRegister: this is what makes
MoneyLedger's use of it legitimate.

**OutwardRegister** is what `_outward_active` of the sales may rely on: an outward
is posted once, then reversed at most once, for good.

**OutwardLedger** is the physical movements of one container. Variables: `doc`
(outwards and reversals; a member of `Outwards` is a source event, so a replay
finds its document), `inward` of each lot, `claim` (rate assertions on a line or
on the whole outward), `flag` (exceptions of each outward), `pairs` (duplicate
gatepasses). Every mutator decides under the container lock on current reads and
is one action; `Supersedable` is the one check made on an older read, which
activation repeats. `FitsContainer` and `FitsLots` are the checks of
`physical.py`, `Covers` that of container saves. There a reversal is a document
of its own, drafted and posted like any other; `KeepsOutwards` states that what
the sales read off these documents (`shown`) implements OutwardRegister, which
makes CommercialSale's use of it legitimate.

**QuantityLedger** is the quantity assertions of one container. Variables:
`claim` (the assertions, each with the time `at` of its activation and, for the
properties, the assertions it `saw` in force), `clock`, `exc` (the variance
exception of each pair) and `job`, a request that waits for the container lock
with the view it took before it waited. An activation is two steps: `Take` takes
the snapshot, as `_locked` probes the row with a plain read first; `Activate` runs
under the lock, reads the rows it locks as they are and everything else from the
view. `Latest` is what `_latest` returns, `Compared` the pairs that
`_ensure_physical_variance` looks at and `Differ` its test; what a tie would
decide is left open, so these are sets.

**CloseGate** extends it by the status of the container (`phase`), its closing
status (`label`), the exceptions of other components (`issue`), their receipts
(`receipt`), and the container save that asks the gate. The gate reads the
variances of QuantityLedger directly: both move in one next-state relation.

**AttemptJournal** is what the capture of evidence is promised of the attempt
log: an attempt asked for may get on record, the caller is told so only if it
is, and what is on record stays. **AttemptLog** is `_record_attempt` and
`_persist_attempt_independently`: the second connection that may break at any
point, the three tries, a statement that runs late or never, an acknowledgement
that is lost, and the generated name that someone else holds. `KeepsJournal`
states that the log implements the journal, under the mapping of an attempt's
row and of its worker's step.

**EvidenceCapture** is one message, its attachments and their files. It
instantiates AttemptJournal for the attempts that must be durable. Variables:
the journal's `recorded` and `answer`; `msg` (payload, expected count, status,
captured count), `att` (the versions of each attachment), `file` (what each file
holds), `editing` (file saves that have passed their hook), `job` (captures that
took their snapshot and wait for the lock), `use` (what each attempt reports),
`busy` (the attempt whose caller holds the lock of the message) and `told`. Every
operation locks the message and is one action, but for the three that take
time: an attempt while the lock is held (`Report` ... `Settle`), a capture
(`BeginCapture`, `Capture`, `CaptureFails`) and the save of a file (`BeginEdit`,
`FinishEdit`). `Declaration` and `Verdict` are `validate_completeness_provenance` and
the comparison of bytes, `Aggregate` is `aggregate_parent_evidence_status`,
`Newest` is `_load_parent_payload`, `Protected` the hooks on File.

Operations whose guard or update a bug could plausibly get wrong have an
operator of their own (`WithinReceipt`, `Reserving`, `Replaced`, ...), preceded
by a variant named `Mutant:`. No action uses a variant; each property is known
to fail when one of them takes the place of the real operator.

### What the models leave out

* Who acts. Maker, verifier and approver must be different users; roles guard
  endpoints. Both only refuse steps, so the models allow more than the code.
* Idempotency keys (source event keys), evidence requirements other than those
  of revisions, currencies, formatting, as-of projections, permission hooks.
* DealLedger: the duplicate fingerprint of a deal, units of measure, lot rows
  with no name. The rate band is the set FairRates.
* MoneyLedger: amounts are small naturals. `Gross` of a sale is a constant: a
  sale's lines do not change once it is approved.
* CommercialSale: all sales carry one alias text; a sale and an outward have one
  line; lines with unknown quantity, unmapped lot or a price bucket take no
  allocation; rates of sale lines are left out.
* OutwardLedger: units of measure, the text and value of a rate (only whether
  one is given), the evidence log of a replay whose payload differs, and the
  sales side of a container save, which only refuses more saves.
* QuantityLedger: replays by source event key, evidence references and decimal
  texts; a quantity is a number or Unknown.
* CloseGate: the exceptions of the other components are opened and closed at
  any time, which allows more than those components do.
* EvidenceCapture: identity keys and ordinals (attachments are told apart by
  `Keys`), claimed sizes, access rules, the patches of rows of old versions, the
  provenance UNTRUSTED_CALLER, which declares no more than MISSING_PROVENANCE, and
  a declaration taken from the counts of an earlier ingest attempt
  (`evidence_service.py:849`), as no such attempt is given any.
* A failing request is rolled back (`Rollback`, or a guard that is false): in
  Frappe it is one database transaction. The attempt log is the exception, and
  is modelled as such.

### Not modelled

* **Integrity checker**: it hashes protected records into seals and compares
  them on the next run; it changes no record of the other parts. In the plan.
* **Permissions and roles** are static functions of users and roles;
  **install, fixtures, patches** run once per site; **Desk pages** and
  **Ask Fresko** keep no durable state; **scripts** are release, migration and
  browser harnesses around the application.

## 3. The runs

| Run | Instance | Shows |
| --- | --- | --- |
| DealStock | 2 deals of 1 to 3, lots of 3 and 2, a revision of quantity or lot, 1 open request, overrides, operating inward 1 / none / unresolved, inward edits to 1 or 3 | TypeOK, SoldFromStock, CeilingKept, DispatchedStands |
| DealRevisions | 1 deal, lots of 2 and 1, 2 revisions, 2 approvals, 2 open requests | GrantUsedOnce, AppliedAsApproved when deals move; RateAuthority, ExceptionsSettled |
| Money | 3 receipts of 4 kinds and one transaction, 3 allocations, 1 adjustment, 3 applications, 1 sale of 2, 2 customers | TypeOK, DrawnOnce, TotalsCurrent, EffectiveOnce, ExceptionsCurrent, SettledWhereOwed |
| Commercial | 3 sales, 2 mappings, 2 customers, 2 outwards, 2 allocations of 1 or 2 | TypeOK, AllocationCaps, AllocatedWhileSold, FlagsCurrent, PaidWhereOwed, AliasAgreed, SoleCorrection, KeepsRegister |
| Outward | 3 documents of two lines, one of lot A and one unresolved, 3 inward quantities, 3 assertions | TypeOK, WithinInward, ClaimChain, ExceptionsCurrent, KeepsOutwards |
| Quantity | 3 assertions of 3 bases and one unit, 2 quantities or unknown, 2 requests waiting at once, 1 issue of 3 kinds, 3 receipts | TypeOK, OneInForce, VarianceFlagged, ReconciledSettled |
| Attempts | 2 attempts, 3 tries each | KeepsJournal, AttemptsAnswered |
| Evidence | 1 attempt in all, 2 payloads, 2 attachments of up to 2 versions, 1 file of 3 contents or gone, 4 provenances, an open manifest or one of 1 or 2, 1 open request | TypeOK, ConflictOnRecord, VersionChain, StatusCurrent, CapturedAsRecorded, KeepsCaptured |
| MoneyDiscount, CommercialCorrection, QuantityVariance, EvidenceSender | the smallest instance that shows it | section 5 |

The passing runs have between a few hundred (Attempts) and some
hundred thousand distinct states. A state space is finite because documents are drawn from fixed
sets, every quantity is at most `MaxQty` or `MaxAmount`, and an attachment has
at most `MaxVersion` versions.

**Case constraints.** Where the full product of two independent questions is too
large, the run's constraint is a disjunction of cases, and every property is
checked in each. A case bounds what is combined, never the order of steps.

* `StockCase` of DealStock: two deals of one lot are decided, overridden and
  dispatched while the operating quantity moves (`OperatingMoves`); or dispatched
  and cancelled while the inward is edited (`InwardMoves`); or decided, dispatched
  and revised in quantity (`QuantityMoves`); or one moves from lot to lot while both
  are dispatched in parts (`LotMoves`).
* `OneCase` of DealRevisions: one revision of rate or customer with all
  decisions and rates; or two that move an automatically approved deal from lot
  to lot.
* `OneCase` of Money: three payments and discounts, in any mix and with rival
  corrections among them, draw on one receipt of 2, one adjustment of 1 and one sale
  of 2, so that each of the three caps alone stands between them and an overdraw
  (`ManyDraws`); two receipts of every kind correct each other and become due, with
  one allocation (`ManyReceipts`); three receipts of one transaction, so that one
  may correct another while a third, its duplicate, is approved (`RivalReceipts`);
  or a sale changes hands under one draw (`ManyBuyers`).
* `OneCase` of Commercial: remaps and rival corrections, four documents of sales
  and mappings while no outward is posted and three beside an outward with one
  allocation; or replaced and reversed allocations of two sales on two outwards.
* `FewRivals` of Outward: a third assertion is made only while there is one
  outward, as rivals for a scope need one outward and gatepasses no assertion.
* `Apart` of Quantity: assertions and variances against the gate, while the
  exceptions of other parts are at rest and the container moves only between
  requests; or those exceptions against the gate, with no assertion and two
  receipts at most in question: the gate asks of each kind on its own that
  nothing is open. An assertion of what customs was told stands beside one other
  at most: nothing compares it.
* `RefusedForSender` of EvidenceSender: the one attempt is a redelivery refused for
  its sender, recorded and answered to the end.
* `OneCase` of Evidence: all versions declared by the digest of the provider's
  payload, or one by its header, the manifest or nothing, where the manifest
  expects as many attachments as there are keys; and files are edited only before the first attempt that must be
  durable, and hold what the second payload declares from then on.

The cases limit the runs alone: but for liveness, every property of the passing
runs is also a theorem of section 4, which has none of these bounds.

Why the bounds are enough to be interesting: two deals and a lot of three are
what it takes for one to ship in part and the other to take what that frees, two
lots for a deal to carry its dispatches along; two revisions, two approvals and two requests for an approval to be replayed or
crossed; two receipts for one to correct the other and three for a duplicate
beside them; an amount of two for a cap to be reached in two halves and three
draws for it to be passed; three allocations or applications for a row, its
replacement and a rival one; three sales for rival corrections or a correction
of a correction; two mappings for a remap and two customers for it to matter;
two allocations on two outwards for replacement, overdraw and the pair key;
three physical documents for an outward with two rival reversals, or for one
reversed, one posted in its place and a third of the same gatepass; three
assertions for two successors of one predecessor, or for a pair with one of them
replaced; two reviews for one to wait while the other commits; inward quantities
that leave room in the container but not in the lot, the reverse, and in both;
two payloads for a conflict; two keys for an aggregate that is partial; two
versions for one to be superseded while it is captured; three contents for a
file that is as declared, cut short, or another; three tries for one to be lost, one to
collide with the first that arrived late, and one to succeed.
Symmetry is over documents and names that Init, Next and the properties treat
alike; `Lots` are excepted, as one of them is named, and a run with liveness uses
none.

Deadlock is checked in every run but Attempts, where the log stops when every
attempt has been answered. It shows little elsewhere: users can always ask for a
refresh or assert the operating fact again.

**Liveness** is claimed of the attempt log alone. `LogSpec` assumes weak fairness
of the steps of the worker (`Work`): its connection has timeouts for connecting,
reading and writing and it makes at most three tries in a loop, so each step is
taken or breaks off without anybody's help. `AttemptsAnswered` says that every
caller is then told something, whatever the database does; nothing is assumed
of the database, whose late statement may never run. Every other step of
this system is a user's request; nothing is scheduled, retried or woken, so no
fairness is justified, and "is eventually approved" is not a property of this
code. What the specifications say instead is that nothing goes out of date: flags
and totals are current after each step, and where a refresh is needed the
property says so (`FlagsCurrent`, `ExceptionsCurrent`, `StatusCurrent`).

## 4. The proofs

All theorems hold for every value of the constants that satisfies the module's
named assumption: `DealAssumption`, `MoneyAssumption` with `RegisterAssumption`,
`CommercialAssumption`, `OutwardAssumption`, `QuantityAssumption` and
`CloseAssumption`, `AttemptAssumption`, `EvidenceAssumption`. They say which sets
are finite, which bounds are naturals, and that a marker such as `None` is no
document; TLC evaluates each of them in the runs of its module.

**DealLedgerProofs.** `DealInvariant` proves an inductive invariant: rows are
typed; an open request that is not stale holds the very row that is in the
table (`Unmodified` means something only because of this); what it read of its
revision still holds; approvals are consumed by the revision they are bound to.
`GrantUsedOnce` is not inductive alone: that two requests holding two approvals
of one revision cannot both commit follows because the first commit saves the
deal and makes the other stale. From the invariant: `TypeCorrect`,
`GrantsUsedOnce`, `DispatchNeverUndone`, `AppliedFromApprovedValue`.

*Stock.* `StockSoldOnce` and `CeilingStands` are action properties and follow from
`IInv` and its preservation, with nothing assumed about dispatches, moves or saves.
A deal changes by one row at a time; `StockStep` says what such a step may do to
what the row owes (`RowOwed`) and has shipped (`RowShips`), and one lemma per kind of
operation shows that it does no more. What the row contributes is one term of a
sum over the deals (`OwedIn`, `ShippedIn`; `SumsReplaced` from TotalsProofs), and what
`available_to_sell` compares is never less than what is owed; that is where the
guard of the code meets the property. `IInv` is needed for the steps that read
before they lock: a commit writes back the row it read, which is the row in the
table. What they waive is what the code does not ensure: an override on record, an
edit from a snapshot, and, for the ceiling, an inward edit or a deal moving in with
its dispatches while another deal of the lot is partly dispatched. What
these lead to is in section 5.

*Rates and exceptions.* `RInv` adds `RatesFollow`: a deal nobody has decided owes a
rate to an applied revision alone (`Rated`), one that is countered has a decision
to be accepted, and one still Proposed has no open exception that a sale would
have to settle (`Followed`). Without the first, the decision that is taken next
would replace the one the present rate rests on. The commit of an `apply_revision`
that read the deal earlier is covered by the first invariant, which says what it
still holds. From it: `RatesAuthorised`, `ExceptionsFollow`.

**TotalsProofs.** A sum over a finite set is a natural number, is monotone,
splits into one member and the rest or into two disjoint sets, is the same over
sets that a bijection of equal terms joins, and depends on its terms alone.
Proved from the definition with the cardinality theorems of the library.

**CommercialProofs.** The inductive invariant `IInv` is TypeOK with: a mapping
that exists names a customer, an allocation a sale and an outward; a sale has a
customer only through a mapping, and a mapping only once one is in force
(`Attached`); at most one mapping is in force; no sale corrects itself; the
predecessor of an approved correction is SUPERSEDED and names it as successor
(`Chained`); and the properties AliasAgreed, AllocatedWhileSold and
PaidWhereOwed themselves. `Attached` is what makes the first approval of an
alias safe: no sale can hold an older mapping. `Chained` gives SoleCorrection.
The proof sorts the actions into kinds (one open sale saved, a mapping short of
approval, movements only, and the three approvals that touch several tables)
and treats each kind once. `ImplementsRegister` is the refinement: every row
makes a move of SaleRegister in every step.

`FlagsInv` is a second invariant over it, for what is summed: an allocation that
exists is of an outward that was posted once (`PostedFirst`), a replacement of
the sale and outward of the row it replaces (`Kin`), the caps hold, and the stored
movement and exceptions follow the allocations on the side of the sales
(`SalesFollow`) and of the outwards (`OutwardsFollow`). `Kin` is what makes a
replacement neutral for every sum but that of its own pair, and `PostedFirst` what
lets an outward be posted without looking at allocations. What a step does to one
sale (`FlagStep`), one outward (`UnsoldStep`) and the rows of allocations
(`RowsMove`) is stated once, and each action is shown to do no more. From it:
`CapsHold`, `FlagsHold`; `TypeCorrect` follows from `IInv`.

**OutwardProofs.** The inductive invariant `OInv`: an outward has one reversal at
most, in any status (`SoleReversal`); a document has lines (`Laden`); what left
less what came back is, over any set of places, what the outwards that still
stand took (`NetStanding`); an assertion that took effect superseded the one it
names (`Heired`); pairs are of outwards that left (`PairsLeft`); and the
properties WithinInward, ClaimChain and both parts of ExceptionsCurrent.
WithinInward is not inductive alone: that a reversal never gives back more than
left needs `NetStanding`, which needs that nothing is reversed twice and that a
reversal carries the lines of its outward. `Heired` is the other half of
ClaimChain: whoever names an assertion that is still in force has not taken
effect, so that the one activated is its only heir. From it: `OutwardTypeCorrect`,
`NeverPastInward`, `ClaimsInLine`, `ExceptionsOnRecord`. `ImplementsOutwards` is the
refinement: the posting of an outward is the register's `Posts`, as a reversal names
what has left; that of a reversal is `Reverses`, as nothing reversed its outward
before; every other step is a stutter.

**MoneyProofs.** The inductive invariant `MInv` is TypeOK with: a document that
exists names the receipt or adjustment it draws on and the one who owes, and a
correction draws on the same one as the row it corrects (`Formed`); a row that
took effect is the successor its predecessor names (`Linked`); an approved
receipt holds its transaction identity, alone (`Identified`); and DrawnOnce,
TotalsCurrent, ExceptionsCurrent and SettledWhereOwed themselves. `Formed` is
what makes it enough to sum one receipt again when a correction replaces a row.
Every step does one of two things to a table of rows: some stop being approved
(`Shrunk`), or one becomes approved in the place of another (`Grown`). `Shrinks`
and `Grows` say what that does to any sum over approved rows; with them
`ShrinkStep` covers every reversal and compensation at once, and only the two
approvals are left, where the caps of the code meet the sums. Every save of a
receipt derives its exceptions again and takes it out of `lapsed`; time passing
only adds to `lapsed`. From it:
`MoneyTyped`, `MoneyDrawnOnce`, `MoneySettledWhereOwed`, `MoneyTotalsCurrent`,
`MoneyExceptionsCurrent` and `MoneyEffectiveOnce`.

**QuantityProofs.** The inductive invariant `QInv` is typing with: what took
effect did so at a time of its own, not later than the clock (`Timed`); an
assertion supersedes one of its basis and unit that took effect (`Sourced`); one
of a scope is in force, and what was superseded has one heir and, in force, a
later one (`Chained`); what a waiting request saw in force took effect, one of a
scope, and the exceptions it saw exist (`Viewed`); an exception is of two
quantities that took effect and differ (`Raised`); and VarianceFlagged.
The predicates take the table as a parameter, so that they speak of the rows
before and after a step alike. `Timed` is what makes the assertion just activated
the latest of its basis; `Chained` what makes one that a stale view still holds
harmless: its later heir is in force. `CInv` adds the types of CloseGate. From
it: `SoleInForce`, `VarianceNeverMissed`, `CloseTypeCorrect` and
`OnlyReconciledWhenSettled`. `VarianceNeverMissed` says exactly what the code
ensures: a difference in force has its exception if either of the two was
activated by a request that saw the other. The finding QuantityVariance is the
case it excludes.

**AttemptProofs.** `LogInvariant`: an attempt whose INSERT was acknowledged, or
whose caller was told COMMITTED_INDEPENDENT, has its own row; nothing is sent or
inserted for one that was not begun (`Backed`); the number of a try is one the
log allows (`Counted`). `ImplementsJournal` is the refinement: the INSERT that
takes effect is the journal's record step, whenever it arrives, the answer is
its answer step, and every other step of the log is a stutter.

**EvidenceProofs.** The inductive invariant `EInv`: what the journal answered is
on record and a conflicting payload is not that of the message (`Journaled`); an
attachment whose capture could not be saved is not captured (`Unsettled`);
attachments and captures belong to a message that was delivered (`Delivered`);
what a waiting capture compares with is on record (`JobsSourced`); and
ConflictOnRecord, VersionChain and CapturedAsRecorded themselves. From it:
`ConflictStaysOnRecord`, `OneLineOfVersions`, `CapturedAsDeclared`, `CapturedStays`
(an action property) and `EvidenceTypeCorrect`.

`SInv` adds StatusCurrent. `Aggregate` counts the current versions, the property
counts attachments; `CountsAgree` shows with the bijection between the two that
the counts are equal, and `AggregateShows` that what it writes is what the property
asks. What is left is that every operation that changes a current version, or the
number expected, ends in `Aggregate`, and that a conflict stays (`StatusFollows`).
From it: `StatusStaysCurrent`.

Every invariant, action property and refinement that a passing run checks is
proved. Only model-checked is AttemptsAnswered: it is liveness under fairness,
which the prover does not cover.

## 5. Where the code departs from what the repository says

Four have a run whose counterexample shows it.

* **MoneyDiscount**: `approve_adjustment` records the successor only of a
  predecessor that is still APPROVED (`money_service.py:1201`). A REVERSED
  adjustment is corrected twice, and the discount discharged twice.
* **CommercialCorrection**: `supersede_sale` does not look at the status of the
  sale it corrects (`commercial_service.py:488`). Correcting a correction that
  is pending leaves the original sale approved beside the second correction.
* **EvidenceSender**: a redelivery is compared with the sender on record before
  the payloads are compared (`evidence_service.py:1187`). Refused for its sender,
  it leaves its payload on record without a conflict (`RedeliverSender`, then
  `Thrown`), and
  `_load_parent_payload` (430) takes that newest payload for what the message
  declares: the message becomes COMPLETE with bytes only the refused delivery
  names.
* **QuantityVariance**: `_latest` is a plain read of the snapshot that `_locked`
  took before it waited (`quantity_assertion_service.py:97`, `:194`). Of two
  reviews that wait at once, neither sees the other; quantities that differ are
  in force with no exception.

Three are stated in DealLedger beside the properties and have no run of their own:
added to `DealStock.cfg`, each is violated at once.

* **NoSilentOversell** (an invariant): a Partially Dispatched deal reserves only
  what is left to dispatch, while the lot's inward still counts what left
  (`ats.py:210`), so another deal is approved on the part that was shipped; the rest
  of the first is then dispatched with no look at what is sold (`deals.py:336`), and
  4 are sold of a lot of 3 with no OVERSELL_OVERRIDE. DECISIONS.md:77 (D10): "must
  never allow physical dispatch beyond stock or silent negative stock." With the
  constraint `OperatingMoves` this is the trace; without it, the container save
  below comes first.
* **PhysicalCeiling** (an invariant): a `lot_no` revision asks whether the whole deal
  is for sale in the new lot, where a part dispatch no longer counts, and never
  looks at what was shipped (`deals.py:510`). A deal that has shipped takes its
  dispatches along: 4 have left a lot of 3, which the same sentence of D10 forbids.
  With the constraint `LotMoves` and no `InwardQuantities` this is the trace;
  without them, an inward lowered below what part dispatches left the lot
  (`fresko_container.py:145`), as the part that left no longer counts as sold.
* **InwardCoversSold** (an action property): `approved_sold` is a plain read of the
  transaction's snapshot (`ats.py:220`). A container save that began before a sale
  committed lowers the inward below it, against F-H1 (`fresko_container.py:146`).

`SoldFromStock` and `CeilingKept` say what the code keeps all the same, in DealStock
and as theorems, and name the steps they waive.

Observed while modelling, in the models and stated nowhere else:

* `apply_revision` does not look at the status of the deal (`deals.py:453`): a
  countered or cancelled deal can be given a rate.
* `create_revision_approval` may write `approval_reference` on a revision that
  was applied meanwhile with another approval (`approvals.py:227`).
* A revision may clear the customer; no BUYER_UNRESOLVED is opened then
  (`deals.py:519`).
* A revision of `container_lot` consumes its approval and changes nothing:
  `validate` derives the field from `lot_no` again (`fresko_deal.py:91`).
* A remap moves a DRAFT sale to REVIEW_PENDING, past the submission that only
  its maker may make (`commercial_service.py:610`).
* An approved correction that a remap reopened can never be approved again: its
  predecessor already names it as successor (`commercial_service.py:454`).
* A receipt that becomes effective with no save lacks MONEY_UNALLOCATED until it
  is next saved or refreshed, and the close gate reads that exception.
* A known rate can be superseded by an assertion of an unknown rate; the outward
  is unpriced again and OUTWARD_UNPRICED stays resolved, as
  `_resolve_unpriced_when_complete` only closes (`outward_service.py:888`).
  ExceptionsCurrent states exactly what a resolved flag still means.
* A rate on the whole outward and rates on its lines may be in force together,
  and a reversed outward still takes assertions.
* With assertions of several units, a pair in which the declared assertion is not
  the latest is never compared (`quantity_assertion_service.py:187`);
  VarianceFlagged speaks of the pairs that are.
* The hooks on File read the attachments without a lock
  (`evidence_service.py:2044`), so a file may change just after its bytes were
  captured, against "Captured original bytes are immutable." (2110).

Noticed in the code, outside the models:

* The query of a capture (`evidence_service.py:1496`) does not select
  `identity_type`, `provider_attachment_id` and `attachment_ordinal`, so matching
  by provider id or ordinal never applies there.
* `expected_attachment_count` is not among the fields whose direct change is
  refused (`fresko_evidence.py:78`).
* A read repeated after a unique violation is a plain read of the old snapshot
  and may miss the row it looks for (`_ensure_physical_variance`, 258; seals).
* A closing container save locks its own row before the Company, the other way
  round than the documented order: a deadlock the database resolves by refusing
  one of the two.
* Exceptions of deals and outwards may be deleted on Desk (`on_trash` protects
  those of money, sales and quantities); the gate sees that like a resolution.

## 6. Plan

Done: Totals, DealLedger, MoneyLedger over SaleRegister, CommercialSale with its
refinement, OutwardLedger, QuantityLedger and CloseGate, AttemptLog as an
implementation of AttemptJournal, EvidenceCapture; the proofs of all of them.

Left, most important first:

1. **IntegrityCheck**: seals of protected records across runs and corrections.
2. An abstract specification of the stock of a lot, with the exceptions that
   `SoldFromStock` and `CeilingKept` make, that DealLedger implements.

No refinement is missing between QuantityLedger and DealLedger: the deal book lets
the active operating quantity become anything at any time.
