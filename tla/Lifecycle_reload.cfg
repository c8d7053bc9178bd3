SPECIFICATION FairSpec
CONSTANTS
  Lines <- MCLines
  Numeral <- MCNumeral
  Duration <- MCDuration
  Addresses <- MCAddresses
  Replaced <- MCReplaced
  Urls <- MCUrls
  Dsn <- MCDsn
  DefaultDsn <- MCDefaultDsn
  ProxyOptions <- MCProxyOptions
  Files <- MCFiles
  Content <- MCContent
  Configs <- MCConfigs
  Handlers = {h1, h2, h3}
  Stores = {s1, s2}
  NoFile = NoFile
  NoStore = NoStore
  h1 = h1
  h2 = h2
  h3 = h3
  s1 = s1
  s2 = s2
INVARIANTS
  TypeOK
  UsersCounted
  ServingIntact
  RunsAsWritten
PROPERTIES
  LoopsEnd
  LoadsEnd
