SPECIFICATION Spec
CONSTANTS
  i1 = i1
  s1 = s1
  s2 = s2
  bad = bad
  NoSchema = NoSchema
  NoQuery = NoQuery
  Instances = {i1}
  Schemas = {s1, s2}
  Broken = {}
  Interval = TRUE
  Crashes = TRUE
  StoreFaults = FALSE
  MaxChanges = 2
INVARIANTS
  OldResultsPurged
