SPECIFICATION Spec
CONSTANTS
  Sales = {s1, s2, s3}
  Mappings = {m1, m2}
  Links = {x1, x2}
  Outwards = {o1, o2}
  Customers = {k1, k2}
  MaxQty = 2
  SaleQty <- TwoSold
  OutwardQty <- TwoLoaded
  Quantities = {1, 2}
  NoCustomer = NoCustomer
  None = None
CONSTRAINT OneCase
SYMMETRY Symmetry
INVARIANTS TypeOK AllocationCaps AllocatedWhileSold FlagsCurrent PaidWhereOwed AliasAgreed SoleCorrection
PROPERTIES KeepsRegister
