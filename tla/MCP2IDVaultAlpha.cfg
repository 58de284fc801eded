\* Keys in and out of alpha between proofs and claims.
CONSTANTS
  NumVerifiers = 1
  MaxTime = 1
  f1 = f1
  Funders = {f1}
  eth = eth
  Tokens = {eth}
  NATIVE = eth
  c0 = c0
  c1 = c1
  Constraints = {c0, c1}
  NoConstraint = c0
  Amounts = {1}
  Windows = {0}
  MinRefundWindow = 0
  MaxRefundWindow = 0
  UINT128_MAX = 1
  Quotes = {}
  noAnswer = noAnswer
  NoAnswer = noAnswer
  MAX_FEE_BPS = 0
  BPS = 2
  MAX_SWEEP_PAGE = 1
  MaxDeposits = 1
  MaxBalance = 0
  MaxAccrued = 0
  w1 = w1
  w2 = w2
  Wallets = {w1, w2}
  none = none
  NoOwner = none
  k1 = k1
  VkHashes = {k1}
  k0 = k0
  NoVkHash = k0
  s1 = s1
  Signers = {s1}
  FUTURE_SLACK = 0
  EntryPoints = {"refreshProofAndSweep", "sweepBucket"}
  a1 = a1
  Attesters = {a1}
  n1 = n1
  Nonces = {n1}
  Deadlines = {1}
  MaxProofs = 2
  MaxApprovals = 1
  MaxEpoch = 2
  MaxRevision = 0
SPECIFICATION VaultSpec
SYMMETRY Symmetry
INVARIANTS AlphaOwnerIsAttested ApprovalsUsedOnceWhileValid
PROPERTY DepositsGoWhereTheyShould
