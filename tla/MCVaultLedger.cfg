\* A bucket longer than a page, swept page by page while refunds consume records in it, with
\* fees, money sent without a deposit and constraints.
CONSTANTS
  NumVerifiers = 1
  MaxTime = 1
  f1 = f1
  Funders = {f1}
  eth = eth
  Tokens = {eth}
  NATIVE = eth
  none = none
  Constraints = {none, c1}
  c1 = c1
  NoConstraint = none
  Amounts = {150, 260}
  Windows = {0, 1}
  MinRefundWindow = 0
  MaxRefundWindow = 0
  UINT128_MAX = 200
  Quotes = {500}
  noanswer = noanswer
  NoAnswer = noanswer
  MAX_FEE_BPS = 100
  BPS = 10000
  MAX_SWEEP_PAGE = 2
  MaxDeposits = 3
  MaxBalance = 150
  MaxAccrued = 1
SPECIFICATION LedgerLiveSpec
INVARIANTS Solvent ConstraintUsedOnce RefundAlwaysOpen
PROPERTIES ImplementsEscrow EveryDepositSettles
