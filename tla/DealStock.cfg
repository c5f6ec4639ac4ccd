SPECIFICATION Spec
CONSTANTS
  Deals = {d1, d2}
  Lots = {l1, l2}
  Revisions = {r1}
  Grants = {g1}
  Workers = {w1}
  Rates = {fair}
  FairRates = {fair}
  Customers = {}
  MaxQty = 3
  Quantities = {1, 2, 3}
  FirstInward <- ThreeAndTwo
  OperatingFacts = {1, NoFact, Unresolved}
  RevisedFields = {"qty", "lot_no"}
  Decisions = {"APPROVE", "OVERSELL_OVERRIDE"}
  InwardQuantities = {1, 3}
  DeskResolves = {}
  l1 = l1
  None = None
  NoRate = NoRate
  NoCustomer = NoCustomer
  NoFact = NoFact
  Unresolved = Unresolved
CONSTRAINT StockCase
SYMMETRY Symmetry
INVARIANTS TypeOK
PROPERTIES SoldFromStock CeilingKept DispatchedStands
