SPECIFICATION FairSpec
CONSTANTS
  i1 = i1
  s1 = s1
  s2 = s2
  bad = bad
  NoSchema = NoSchema
  NoQuery = NoQuery
  Instances = {i1}
  Schemas = {s1, s2, bad}
  Broken = {bad}
  Interval = TRUE
  Crashes = TRUE
  StoreFaults = TRUE
  MaxChanges = 4
INVARIANTS
  TypeOK
  OnlyValidServed
  OldResultsTracked
PROPERTIES
  FollowsUpstream
