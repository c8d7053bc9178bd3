SPECIFICATION Spec
CONSTANTS
  p1 = p1
  p2 = p2
  users = users
  books = books
  before = before
  after = after
  User = User
  Book = Book
  id = id
  name = name
  byLang = byLang
  bySession = bySession
  byTenant = byTenant
  Lang = Lang
  Session = Session
  Tenant = Tenant
  A = A
  r1 = r1
  r2 = r2
  r3 = r3
  Missing = Missing
  AllTypes = AllTypes
  NoPlan = NoPlan
  NoKey = NoKey
  Procs = {p1, p2}
  Queries = {books}
  Configs = {before, after}
  Headers = {Lang, Tenant}
  Cookies = {Session}
  Values <- MCValues
  FieldTypes <- MCFieldTypes
  Rules <- MCRules
  Varies <- MCVaries
  StoreFaults = TRUE
SYMMETRY Symmetric
INVARIANTS
  TypeOK
  PlanFollowsRules
  NoUnknownVary
  VariesSeparate
