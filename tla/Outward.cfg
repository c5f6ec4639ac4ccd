SPECIFICATION Spec
CONSTANTS
  A = A
  B = B
  l1 = l1
  l2 = l2
  Outwards = {o1, o2, o3}
  Claims = {a1, a2, a3}
  Lots = {A, B}
  Unmapped = Unmapped
  Lines = {l1, l2}
  Header = Header
  Cargoes <- Crates
  Gatepasses = {g1}
  Inwards <- Arrivals
  Deals = {FALSE}
  Rates = {TRUE, FALSE}
  MaxQty = 3
  SnapshotReads = TRUE
  None = None
CONSTRAINT FewRivals
SYMMETRY Symmetry
INVARIANTS TypeOK WithinInward ClaimChain ExceptionsCurrent
PROPERTIES KeepsOutwards
