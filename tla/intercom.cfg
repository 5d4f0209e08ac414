CONSTANTS
  c1 = c1
  c2 = c2
  p = p
  Clients = {c1, c2}
  Proxy = p
  MaxUses = 3
SPECIFICATION Spec
SYMMETRY Symmetry
INVARIANTS
  TypeOK
  TreeIsOfRequest
  FirstCallHasVideo
  DialogKnowsItsCall
