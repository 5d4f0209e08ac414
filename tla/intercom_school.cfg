CONSTANTS
  c1 = c1
  p = p
  Clients = {c1}
  Proxy = p
  MaxUses = 4
SPECIFICATION Spec
INVARIANT
  AsksSchools
