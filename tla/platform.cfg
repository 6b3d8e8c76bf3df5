SPECIFICATION FairSpec
CONSTANTS
  r1 = r1
  r2 = r2
  r3 = r3
  light = light
  heavy = heavy
  cards = cards
  k1 = k1
  k2 = k2
  Stages = {"idempotency", "quotes", "entries", "forms"}
  Requests = {r1, r2, r3}
  MayFail = TRUE
  Slots = {k1, k2}
  MayAbort = TRUE
  Questions = {light, heavy, cards}
  KeyOf <- Keys
  Dropped = {"list"}
  Edits = 2
  EntryKeys = {"a", "b", "c"}
  Sizes = {1, 2}
  MaxSize = 2
  MemoryLimit = 3
  LifeOf <- OneForever
  Strategies = {"LRU", "LFU", "FIFO", "TTL"}
  MaxTouches = 3
  MaxTime = 2
  Currencies <- TwoCurrencies
  Inexact <- Drifting
  Countries <- SomeCountries
  SpecialPincodes = {}
  WordLength <- Words
  Labels <- SomeLabels
  DangerousDomains <- Listed
  VolumetricDivisor = 5000
  DefaultMarkup = 25
  Forms <- AllForms
INVARIANTS TypeOK EffectOnce CacheKeepsItsBooks  PricesAgree
PROPERTIES ReplayedWasGiven OutdatedGoes
CHECK_DEADLOCK FALSE
