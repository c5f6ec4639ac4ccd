SPECIFICATION Spec
CONSTANTS
  Collections = {}
  Allocations = {}
  Adjustments = {j1, j2, j3}
  Applications = {}
  Sales = {}
  Customers = {k1}
  Identities = {t1}
  Receipts = {"CASH"}
  MaxAmount = 2
  Amounts = {2}
  Concessions = {2}
  Draws = {2}
  Gross <- TwoEach
  SnapshotReads = FALSE
  NoCustomer = NoCustomer
  None = None
SYMMETRY Symmetry
INVARIANTS SoleAdjustmentSuccessor
