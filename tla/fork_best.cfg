SPECIFICATION Spec
CONSTANTS
  t1 = t1
  t2 = t2
  t3 = t3
  t4 = t4
  home = home
  mobile = mobile
  office = office
  Targets <- MCTargets
  Contacts <- MCContacts
  ContactOf <- MCContactOf
  Codes = {200, 503}
INVARIANTS
  AlwaysAResponse
CHECK_DEADLOCK FALSE
