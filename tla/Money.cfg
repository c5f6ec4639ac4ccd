SPECIFICATION Spec
CONSTANTS
  Collections = {r1, r2, r3}
  Allocations = {x1, x2, x3}
  Adjustments = {j1}
  Applications = {1, 2, 3}
  Sales = {s1}
  Customers = {k1, k2}
  Identities = {t1}
  Receipts = {"CASH", "PENDING", "UNKNOWN_AMOUNT", "UNKNOWN_DIRECTION"}
  MaxAmount = 2
  Amounts = {2}
  Concessions = {1}
  Draws = {1}
  Gross <- TwoEach
  SnapshotReads = TRUE
  NoCustomer = NoCustomer
  None = None
CONSTRAINT OneCase
SYMMETRY Symmetry
INVARIANTS TypeOK DrawnOnce TotalsCurrent EffectiveOnce ExceptionsCurrent SettledWhereOwed
