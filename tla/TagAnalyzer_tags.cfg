SPECIFICATION Spec
CONSTANTS
  Added <- MCAdded
  Nullable <- MCNullable
  Numeric <- MCNumeric
  Union <- MCUnion
  Docs <- MCDocs
  Operation <- MCOperation
  Fields <- MCFields
  Answers <- MCAnswers
  TypeKeys <- MCTypeKeys
  RuleTypes <- MCRuleTypes
  EveryType = EveryType
  MaxStored = 2
INVARIANTS
  TypeOK
  PurgeMeetsResults
  PurgesOnlyShared
  FailsAtHoles
