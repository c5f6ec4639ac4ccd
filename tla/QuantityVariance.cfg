SPECIFICATION Spec
CONSTANTS
  Assertions = {a1, a2}
  Units = {"kg"}
  Quantities = {1, 2}
  Jobs = {r1, r2}
  Unknown = Unknown
  Issues = {}
  Kinds <- Concerns
  Receipts = {}
  None = None
SYMMETRY Symmetry
INVARIANT VarianceAlwaysFlagged
