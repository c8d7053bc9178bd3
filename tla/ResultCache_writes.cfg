SPECIFICATION Spec
CONSTANTS
  p1 = p1
  p2 = p2
  user = user
  list = list
  other = other
  u1 = u1
  u2 = u2
  TypeUser = TypeUser
  NoEntry = NoEntry
  NoKey = NoKey
  Never = Never
  Procs = {p1, p2}
  Keys = {list, other}
  Objs = {u1, u2}
  CoarseTags = {TypeUser}
  Reads <- ListReads
  Keyed <- ListKeyed
  Static <- ListStatic
  Passthrough = {other}
  MaxAge = 1
  Swr = 1
  AutoInvalidate = TRUE
  StoreFaults = TRUE
  Rounding = {0}
  Requests <- PlainRequests
  MaxVersion = 1
  MaxTime = 0
SYMMETRY Symmetric
INVARIANTS
  PurgedUnlessOvertaken
  AckedWritesVisible
PROPERTIES
  ContractKept
