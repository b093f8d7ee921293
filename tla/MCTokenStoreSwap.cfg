SPECIFICATION FairSpec
CONSTANTS
  laptop = laptop
  phone = phone
  tablet = tablet
  MaxVersion = 4
  Tokens <- MCTokens
  Records <- MCRecords
  Malformed <- MCMalformed
  Edits = {"swap"}
  Debounce = 2
  LoadTime = 1
PROPERTIES
  ReplacementReachesStore
