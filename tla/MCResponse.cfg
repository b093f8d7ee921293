SPECIFICATION Spec
CONSTANTS
  NoSnapshot = NoSnapshot
  SecondsPerDay = 3
  Lower <- LowerCase
  Alphabet <- Contributors
  Words <- AllWords
  Spelling <- Spellings
  StartFiles <- AllFiles
  ReplyMaps <- AllReplies
  UserAgents <- AllAgents
  Country <- CountryOf
  CountryCodes <- Codes
  Continent <- ContinentOf
  Continents <- AllContinents
CHECK_DEADLOCK FALSE
INVARIANTS
  ReferencesResolve
  ProvidersAreThoseUsed
  RulesByPrecedence
  NamesAreUnique
  EveryProxySelectable
  EmptyOnlyByCascade
  LayoutIsCanonical
  BucketsAnnounced
  MeaningIsKept
  AcceptedConfigIsSound
PROPERTIES
  AllowanceLasts
  LaterRequestKeepsPin
  SplitIsProportional
