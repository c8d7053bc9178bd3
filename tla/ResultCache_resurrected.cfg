SPECIFICATION Spec
CONSTANTS
  p1 = p1
  p2 = p2
  user = user
  list = list
  other = other
  u1 = u1
  u2 = u2
  TypeUser = TypeUser
  NoEntry = NoEntry
  NoKey = NoKey
  Never = Never
  Procs = {p1, p2}
  Keys = {user}
  Objs = {u1}
  CoarseTags = {TypeUser}
  Reads <- UserReads
  Keyed <- UserKeyed
  Static <- UserStatic
  Passthrough = {}
  MaxAge = 1
  Swr = 1
  AutoInvalidate = TRUE
  StoreFaults = FALSE
  Rounding = {0}
  Requests <- PlainRequests
  MaxVersion = 1
  MaxTime = 3
SYMMETRY Symmetric
PROPERTIES
  PurgedStaysPurged
