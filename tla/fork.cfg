SPECIFICATION FairSpec
CONSTANTS
  t1 = t1
  t2 = t2
  t3 = t3
  t4 = t4
  home = home
  mobile = mobile
  office = office
  Targets <- MCTargets
  Contacts <- MCContacts
  ContactOf <- MCContactOf
  Codes = {180, 200, 302, 407, 408, 412, 503, 603}
INVARIANTS
  TypeOK
  OneVerdict
  SomeoneWillAnswer
  NoActiveRemoved
  ForkOnce
  BestIsBest
  EmptyOnlyUncompared
PROPERTIES
  IsForkedRequest
  Answered
CHECK_DEADLOCK FALSE
