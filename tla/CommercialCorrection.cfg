SPECIFICATION Spec
CONSTANTS
  Sales = {s1, s2, s3}
  Mappings = {}
  Links = {}
  Outwards = {}
  Customers = {k1}
  MaxQty = 2
  SaleQty <- TwoSold
  OutwardQty <- TwoLoaded
  Quantities = {}
  NoCustomer = NoCustomer
  None = None
SYMMETRY Symmetry
INVARIANTS OneSaleStands
