SPECIFICATION FairSpec
CONSTANTS
  Null = Null
  Text = Text
  None = None
  Clients = {c1, c2}
  LastSchema = 2
  Settings <- MCSettings
  Operations <- MCOperations
  Chunks <- MCChunks
  AdminDocs <- MCAdminDocs
  MaxLost = 1
INVARIANTS
  TypeOK
  GaugeShowsWork
  SchemasAgree
  AdminTold
PROPERTIES
  ConnectionsEnd
