SPECIFICATION Spec
CONSTANTS
  Deals = {d1}
  Lots = {l1, l2}
  Revisions = {r1, r2}
  Grants = {g1, g2}
  Workers = {w1, w2}
  Rates = {fair, low}
  FairRates = {fair}
  Customers = {c1}
  MaxQty = 2
  Quantities = {2}
  FirstInward <- OneUnitMore
  OperatingFacts = {NoFact}
  RevisedFields = {"approved_rate", "customer", "lot_no"}
  Decisions = {"APPROVE", "OVERSELL_OVERRIDE", "COUNTER", "REJECT"}
  InwardQuantities = {}
  DeskResolves = {"RATE_FLOOR_BREACH"}
  l1 = l1
  None = None
  NoRate = NoRate
  NoCustomer = NoCustomer
  NoFact = NoFact
  Unresolved = Unresolved
CONSTRAINT OneCase
SYMMETRY Symmetry
INVARIANTS GrantUsedOnce RateAuthority ExceptionsSettled
PROPERTIES AppliedAsApproved
