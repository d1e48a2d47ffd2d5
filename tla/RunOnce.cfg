CONSTANTS
  p1 = p1
  p2 = p2
  p3 = p3
  base = base
  rcverr = rcverr
  Processes = {p1, p2, p3}
  Outputs = {base, rcverr}
  OutputOf <- MCOutputOf
SPECIFICATION Spec
INVARIANTS
  TypeOK
  OutputWhole
  SuccessInstalled
  NoLitter
PROPERTIES
  OutputAdvances
  DeclinedOnlyByLiving
