\* Two verifiers that take turns as the default, whose signer keys come and go, while the
\* policy approves and drops them.
CONSTANTS
  NumVerifiers = 2
  MaxTime = 1
  w1 = w1
  w2 = w2
  Wallets = {w1, w2}
  none = none
  NoOwner = none
  k1 = k1
  VkHashes = {k1}
  k0 = k0
  NoVkHash = k0
  s1 = s1
  s2 = s2
  Signers = {s1, s2}
  FUTURE_SLACK = 1
  EntryPoints = {"refreshProof"}
  a1 = a1
  Attesters = {a1}
  n1 = n1
  Nonces = {n1}
  Deadlines = {}
  MaxProofs = 2
  MaxApprovals = 0
  MaxEpoch = 0
  MaxRevision = 1
SPECIFICATION OwnerSpec
SYMMETRY Symmetry
INVARIANTS OwnerIsFirstOfNewest PayableOwnerHasLiveSigner UntrackedGoesToNewest
PROPERTY FloorsOnlyRise
