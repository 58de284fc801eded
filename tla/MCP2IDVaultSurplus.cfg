\* Two verifiers that take turns as the default, and money sent without a deposit.
CONSTANTS
  NumVerifiers = 2
  MaxTime = 1
  f1 = f1
  Funders = {f1}
  eth = eth
  Tokens = {eth}
  NATIVE = eth
  c0 = c0
  Constraints = {c0}
  NoConstraint = c0
  Amounts = {1}
  Windows = {0}
  MinRefundWindow = 0
  MaxRefundWindow = 0
  UINT128_MAX = 1
  Quotes = {1}
  noAnswer = noAnswer
  NoAnswer = noAnswer
  MAX_FEE_BPS = 1
  BPS = 2
  MAX_SWEEP_PAGE = 1
  MaxDeposits = 0
  MaxBalance = 2
  MaxAccrued = 1
  w1 = w1
  w2 = w2
  Wallets = {w1, w2}
  none = none
  NoOwner = none
  k1 = k1
  VkHashes = {k1}
  k0 = k0
  NoVkHash = k0
  s1 = s1
  Signers = {s1}
  FUTURE_SLACK = 0
  EntryPoints = {"refreshProof", "refreshProofAndSweep"}
  a1 = a1
  Attesters = {a1}
  n1 = n1
  Nonces = {n1}
  Deadlines = {}
  MaxProofs = 2
  MaxApprovals = 0
  MaxEpoch = 0
  MaxRevision = 0
SPECIFICATION VaultSpec
SYMMETRY Symmetry
INVARIANT SurplusGoesToNewest
