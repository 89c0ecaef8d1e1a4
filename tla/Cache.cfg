SPECIFICATION FairSpec
CONSTANTS
  Keys <- ProfileKeys
  Tags <- ProfileTags
  TagsOf <- ProfileTagsOf
  Writes <- ProfileWrites
  Changes <- ProfileChanges
  Invalidates <- ProfileInvalidates
  Requests = {r1, r2}
  NoEntry = NoEntry
  TTL = 2
  MaxWrites = 2
PROPERTIES
  StaleEntriesDie
  ImplementsRegister
