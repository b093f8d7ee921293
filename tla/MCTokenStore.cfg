SPECIFICATION FairSpec
CONSTANTS
  laptop = laptop
  phone = phone
  tablet = tablet
  MaxVersion = 4
  Tokens <- MCTokens
  Records <- MCRecords
  Malformed <- MCMalformed
  Edits = {"rename", "rewrite", "swap"}
  Debounce = 2
  LoadTime = 1
INVARIANTS
  TypeOK
  StoreIsAVersion
PROPERTIES
  RevocationIsFinal
  HotReload
