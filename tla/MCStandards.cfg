SPECIFICATION Spec
CONSTANTS
  Ids = {s1, s2}
  Keys = {a, copy}
  Copies <- CopiesOne
  Texts = {words}
  Facts = {secrets}
  MaxRows = 4
  MaxCalls = 6
  Seeded <- LibraryOne
  Workers = {admin, peer}
  JobsOf <- JobsLibrary
  Keep = Keep
  None = None
  s1 = s1
  s2 = s2
  a = a
  copy = copy
  words = words
  secrets = secrets
  admin = admin
  peer = peer
INVARIANTS TypeOK RulesPresent SourceExists
PROPERTIES FrozenTogether OverridesKept
CHECK_DEADLOCK FALSE
