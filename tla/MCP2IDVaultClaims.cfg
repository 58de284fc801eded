\* One verifier: plain and constrained deposits, two wallets, revocation.
CONSTANTS
  NumVerifiers = 1
  MaxTime = 1
  f1 = f1
  Funders = {f1}
  eth = eth
  Tokens = {eth}
  NATIVE = eth
  c0 = c0
  c1 = c1
  Constraints = {c0, c1}
  NoConstraint = c0
  Amounts = {1}
  Windows = {0}
  MinRefundWindow = 0
  MaxRefundWindow = 0
  UINT128_MAX = 1
  Quotes = {}
  noAnswer = noAnswer
  NoAnswer = noAnswer
  MAX_FEE_BPS = 0
  BPS = 2
  MAX_SWEEP_PAGE = 1
  MaxDeposits = 2
  MaxBalance = 0
  MaxAccrued = 0
  w1 = w1
  w2 = w2
  Wallets = {w1, w2}
  none = none
  NoOwner = none
  k1 = k1
  VkHashes = {k1}
  k0 = k0
  NoVkHash = k0
  s1 = s1
  s2 = s2
  Signers = {s1, s2}
  FUTURE_SLACK = 0
  EntryPoints = {"refreshProof", "refreshProofAndSweep", "sweepBucket", "sweepBucketDeposits", "upgradeTo"}
  a1 = a1
  Attesters = {a1}
  n1 = n1
  Nonces = {n1}
  Deadlines = {}
  MaxProofs = 2
  MaxApprovals = 0
  MaxEpoch = 0
  MaxRevision = 1
SPECIFICATION VaultSpec
SYMMETRY Symmetry
PROPERTY DepositsGoWhereTheyShould
