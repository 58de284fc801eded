----------------------------- MODULE CallStackProps -----------------------------
(***************************************************************************)
(* What calls back into a vault cannot break.                              *)
(***************************************************************************)
EXTENDS CallStack

\* Whoever calls back in the middle of a transfer, of a fee distribution or of an upgrade, the
\* tokens of the deposits that are still owed are there: at every moment, those of callbacks
\* included; and, once no call is open, those of the fees owed with them.
DepositsBacked ==
  /\ state.balance >= state.tracked
  /\ stack = <<>> => state.balance >= state.tracked + state.feesOwed

\* An upgrade happens whole or not at all.  When no upgrade is open and foreign code has not
\* written since the last one returned, the code in the slot is what that one installed and the
\* way is free for the next: whatever its hook did or reentered, whatever foreign code left behind
\* before it, and inside whichever calls it was started.  When it installed P2IDVault, its owner
\* is in the proxy's own record too, and the vault's floor is not below it.  Nothing of the sort
\* is promised of other code, which can write these records itself and answer for them.
UpgradesAreWhole ==
  (\A n \in 1..Len(stack) : stack[n].op # "upgrade") /\ ~ state.meddled =>
    /\ state.code = state.installed.code
    /\ ~ state.upgrading
    /\ state.installed.code \in Proper =>
         /\ state.lastUpgrade = state.installed.owner
         /\ state.owner.iat >= state.installed.owner.iat
         /\ state.owner.iat = state.installed.owner.iat => state.owner.wallet = state.installed.owner.wallet
===============================================================================
