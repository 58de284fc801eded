\* Every component comes to an end: layouts that match nothing, bounded clocks and requests, one
\* witness per token.
SPECIFICATION MCSpec
CONSTANTS
  Tables <- MCTables
  SlotBytes = 4
  MaxBase = 2
  MaxVariables = 3
  Keys = {"k1", "k2"}
  Pinned = {"k2"}
  Calls = {c1, c2}
  JWKS_TTL = 2
  LATENCY = 1
  MaxClock = 4
  Addresses = {"lib", "vault", "old", "wallet"}
  Files <- MCFiles
  Extras <- MCExtras
  Genuine = {"lib", "vault", "wallet"}
  MaxRuns = 2
  Words = {"iat", "linked_accounts", "custom_metadata", "type", "twitter", "wallet", "username", "address", "name",
           "bob", "eve", "0xb0b", "1700000000", "9",
           "long name", "long address", "0xbad", "base58", "picture"}
  Claims <- MCClaims
  WitnessRequests <- MCRequests
  TYPES <- MCTypes
  LongWords = {"long name", "long address"}
  LargeTokens <- MCLargeTokens
  Prefixed = {"0xb0b", "0xbad"}
  EvmWallets = {"0xb0b"}
  Seconds = {"1700000000"}
  PLATFORM_KEYS <- MCPlatforms
  Texts = {"", "ann", "a-n"}
  HandleOf <- MCHandles
  MaxSearches = 4
  LookupPlatforms = {"x", "farcaster"}
  Inputs = {"", "ann", "a-n"}
  LookupHandle <- MCHandles
  MaxRequests = 5
  CHAIN = 56
  Platforms = {"x", "farcaster"}
  LinkPlatforms = {"x", "farcaster", "discord"}
  PageTexts = {"ann", "Ann", "x.com/ann", "a.b"}
  ParsedHandle <- MCParsedHandle
  LowerCase <- MCLowerCase
  IndexerAnswers <- MCAnswers
  DEMO_TOKENS <- MCDemo
  MaxItems = 2
  NoFactory = NoFactory
  NoP2ID = NoP2ID
  Everyone = Everyone
  ContactTexts = {"", "@ann", "ann", "a@b", "?"}
  ContactIn <- MCContacts
  MaxStalks = 3
SYMMETRY SymmetricCalls
INVARIANTS
  DoneMeansVerified
  WitnessFits
  ExplorerIsTrue
PROPERTIES
  BaseStateKept
  WithdrawnKeysExpire
CHECK_DEADLOCK FALSE
