SPECIFICATION Spec
CONSTANTS
  Assertions = {a1, a2, a3}
  Units = {"kg"}
  Quantities = {1, 2}
  Jobs = {r1, r2}
  Unknown = Unknown
  Issues = {i1}
  Kinds <- Concerns
  Receipts <- Received
  None = None
CONSTRAINT Apart
SYMMETRY Symmetry
INVARIANTS TypeOK OneInForce VarianceFlagged
PROPERTIES ReconciledSettled
