SPECIFICATION MCSpec
VIEW MCView
CONSTANTS
  Implementations = {initial, next, foreign}
  Initial = initial
  Unbound = {foreign}
  Valid = {initial, next}
  DEFAULT_VERIFIER_DELAY = 2
  Vaults = {vault}
  None = None
  MaxTime = 6
  MaxPrepared = 2
  Policies = {p1, p2}
  KeyVerifiers = {v1, v2}
  SignerKeys = {k1}
  FirstPolicy = p1
  FirstVerifier = v1
  FirstKeys = {k1}
  POLICY_DELAY = 2
  VERIFIER_DELAY = 2
  SIGNER_KEY_DELAY = 1
  MaxNoticeTime = 4
  Slots = {s1, s2}
  Payments = {1, 2}
  Codes = {"a", "b", "foreign"}
  FirstCode = "a"
  Proper = {"a", "b"}
  Owners = {"w1", "w2"}
  MaxHeld = 3
  MaxIat = 1
  MaxDepth = 3
INVARIANTS
  BaseStaysRegistered
  DepositsBacked
  UpgradesAreWhole
PROPERTIES
  RegisteredAfterNotice
  ActivatesWhatWasChecked
  NoticeGiven
