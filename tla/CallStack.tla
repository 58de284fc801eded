------------------------------- MODULE CallStack -------------------------------
(***************************************************************************)
(* Calls back into a vault.  Its ledger calls tokens, native recipients    *)
(* and the policy in the middle of an operation (P2IDVault.sol), its proxy *)
(* calls the hook of code it has just installed (PviumP2IDVaultProxy.sol), *)
(* and any of them may call the vault or its proxy again before it returns. *)
(* Other modules take an operation as one step; here it is an entry, the   *)
(* call it makes, and a return or a revert.                                *)
(*                                                                         *)
(* Registered code that is not P2IDVault's keeps its ledger here, and may  *)
(* do to the rest of the vault's storage whatever it likes, wherever it    *)
(* runs.                                                                   *)
(*                                                                         *)
(* One vault, token and verifier.  A definition no other one uses, placed  *)
(* before one with the same parameters, is a mutant of it.                 *)
(***************************************************************************)
EXTENDS Naturals, Sequences, SequencesExt

CONSTANTS
  Slots,                  \* positions deposits take in the model
  Payments,               \* amounts sent
  Codes, FirstCode,       \* registered implementations, the installed one
  Proper,                 \* those that are P2IDVault
  Owners,
  MaxIat,                 \* issue times up to this one are not too far ahead
  MaxHeld, MaxDepth

ASSUME CallStackAssumption ==
  /\ Payments \subseteq Nat \ {0}
  /\ FirstCode \in Proper /\ Proper \subseteq Codes
  /\ Owners # {}
  /\ MaxHeld \in Nat /\ MaxIat \in Nat /\ MaxDepth \in Nat

VARIABLES
  state,        \* storage of the vault and its balance
  stack         \* calls that have not returned, the innermost last

callVars == <<state, stack>>

CallInit ==
  /\ state = [lock |-> 1, upgrading |-> FALSE,
              balance |-> 0, deposits |-> [s \in Slots |-> 0], tracked |-> 0, feesOwed |-> 0,
              code |-> FirstCode,
              owner |-> [wallet |-> CHOOSE w \in Owners : TRUE, iat |-> 0],
              lastUpgrade |-> [wallet |-> CHOOSE w \in Owners : TRUE, iat |-> 0],
              \* history: by the last upgrade that returned, and whether foreign code wrote since
              installed |-> [code |-> FirstCode, owner |-> [wallet |-> CHOOSE w \in Owners : TRUE, iat |-> 0]],
              meddled |-> FALSE]
  /\ stack = <<>>

Top == Last(stack)

\* Where somebody else's code runs: between calls, or in the callee of the innermost one.
Outside ==
  stack # <<>> /\ Top.op = "upgrade" => Top.code \notin Proper /\ ~ Top.acknowledged

\* A frame keeps the state that a revert goes back to.
Push(frame, next) ==
  /\ Outside /\ Len(stack) < MaxDepth
  /\ stack' = Append(stack, frame)
  /\ state' = next

Pop(next) == stack' = Front(stack) /\ state' = next

\* A call fails, by a check of its own or in what it calls: all it did is undone.  Its caller goes on.
Revert ==
  /\ stack # <<>>
  /\ Pop(Top.saved)

NoLock == state.lock \in {1, 2}
NotEntered == state.lock = 1

Untracked == IF state.balance > state.tracked + state.feesOwed
             THEN state.balance - state.tracked - state.feesOwed ELSE 0

-----------------------------------------------------------------------------
(* The ledger: each entry point takes the lock *)

\* _fund: the balance before, transferFrom, the balance after.
Fund(amount) ==
  /\ NotEntered
  /\ Push([op |-> "fund", amount |-> amount, before |-> state.balance, moved |-> FALSE, saved |-> state],
          [state EXCEPT !.lock = 2])

FundReturns(s) ==
  /\ stack # <<>> /\ Top.op = "fund" /\ Top.moved
  /\ state.balance > Top.before
  /\ state.deposits[s] = 0
  /\ Pop([state EXCEPT !.lock = 1,
                       !.deposits[s] = state.balance - Top.before,
                       !.tracked = @ + (state.balance - Top.before)])

\* refund, sweep and sweepUntracked consume first and transfer last.
Pay(net, next) ==
  /\ NotEntered
  /\ Push([op |-> "pay", amount |-> net, moved |-> FALSE, saved |-> state], [next EXCEPT !.lock = 2])

Refund(s) ==
  /\ state.deposits[s] # 0
  /\ Pay(state.deposits[s], [state EXCEPT !.deposits[s] = 0, !.tracked = @ - state.deposits[s]])

\* A page is one deposit; the sweep of the default verifier adds what is untracked.
Sweep(s, untracked, fee) ==
  /\ state.deposits[s] # 0 /\ fee < state.deposits[s]
  /\ Pay(state.deposits[s] + (IF untracked THEN Untracked ELSE 0) - fee,
         [state EXCEPT !.deposits[s] = 0, !.tracked = @ - state.deposits[s], !.feesOwed = @ + fee])

SweepUntracked(fee) ==
  /\ Untracked > fee
  /\ Pay(Untracked - fee, [state EXCEPT !.feesOwed = @ + fee])

PayReturns ==
  /\ stack # <<>> /\ Top.op = "pay" /\ Top.moved
  /\ Pop([state EXCEPT !.lock = 1])

\* The policy may pull up to what is owed; what it took is measured when it returns.
WithdrawFees ==
  /\ NotEntered /\ state.feesOwed # 0
  /\ Push([op |-> "fees", owed |-> state.feesOwed, before |-> state.balance, allowance |-> state.feesOwed,
         saved |-> state],
          [state EXCEPT !.lock = 2])

WithdrawReturns ==
  /\ stack # <<>> /\ Top.op = "fees"
  /\ LET amount == IF Top.before > state.balance THEN Top.before - state.balance ELSE 0
     IN  /\ amount <= Top.owed
         /\ Pop([state EXCEPT !.lock = 1, !.feesOwed = Top.owed - amount])

-----------------------------------------------------------------------------
(* What the callees do to the balance *)

TokenMoves ==
  /\ stack # <<>> /\ Top.op \in {"fund", "pay"} /\ ~ Top.moved
  /\ stack' = [stack EXCEPT ![Len(stack)].moved = TRUE]
  /\ \/ Top.op = "fund" /\ state' = [state EXCEPT !.balance = @ + Top.amount]
     \/ /\ Top.op = "pay" /\ state.balance >= Top.amount
        /\ state' = [state EXCEPT !.balance = @ - Top.amount]
  /\ state'.balance <= MaxHeld

PolicyPulls(amount) ==
  /\ stack # <<>> /\ Top.op = "fees" /\ amount <= Top.allowance /\ amount <= state.balance
  /\ stack' = [stack EXCEPT ![Len(stack)].allowance = @ - amount]
  /\ state' = [state EXCEPT !.balance = @ - amount]

DirectTransfer(amount) ==
  /\ Outside /\ state.balance + amount <= MaxHeld
  /\ state' = [state EXCEPT !.balance = @ + amount]
  /\ UNCHANGED stack

-----------------------------------------------------------------------------
(* The owner cache *)

\* A newer proof makes its wallet the owner; one as old as the cached one changes nothing.
RefreshProof(wallet, iat) ==
  /\ Outside /\ NotEntered /\ state.code \in Proper
  /\ iat > state.owner.iat
  /\ state' = [state EXCEPT !.owner = [wallet |-> wallet, iat |-> iat]]
  /\ UNCHANGED stack

-----------------------------------------------------------------------------
(* Code that is not P2IDVault's *)

\* A call of the vault runs what is in the slot, for as long as it lasts.
CallForeign ==
  /\ state.code \notin Proper
  /\ Push([op |-> "foreign", saved |-> state], state)

ForeignReturns ==
  /\ stack # <<>> /\ Top.op = "foreign"
  /\ Pop(state)

\* It runs in such a call and in the hook of the upgrade that installs it.
ForeignRuns ==
  /\ stack # <<>>
  /\ \/ Top.op = "foreign"
     \/ Top.op = "upgrade" /\ Top.code \notin Proper /\ ~ Top.acknowledged

\* It can write both slots of the proxy, the flag and the vault's records, in any order and
\* with calls in between, also values that no proof could have brought there.
Meddle ==
  /\ ForeignRuns
  /\ \/ \E i \in Codes : state' = [state EXCEPT !.meddled = TRUE, !.code = i]
     \/ \E b \in BOOLEAN : state' = [state EXCEPT !.meddled = TRUE, !.upgrading = b]
     \/ \E w \in Owners, iat \in 0..(MaxIat + 1) :
          \/ state' = [state EXCEPT !.meddled = TRUE, !.owner = [wallet |-> w, iat |-> iat]]
          \/ state' = [state EXCEPT !.meddled = TRUE, !.lastUpgrade = [wallet |-> w, iat |-> iat]]
  /\ UNCHANGED stack

-----------------------------------------------------------------------------
(* The proxy *)

\* Values too far ahead are ignored, as nobody could show a proof that matches them.  The
\* vault's floor is read through the current code, which says what it likes unless it is P2IDVault.
NotOlder(wallet, iat) ==
  /\ state.lastUpgrade.iat <= MaxIat =>
       \/ iat > state.lastUpgrade.iat
       \/ iat = state.lastUpgrade.iat /\ wallet = state.lastUpgrade.wallet
  /\ state.code \in Proper /\ state.owner.iat <= MaxIat => iat >= state.owner.iat

\* The identity of the caller and the registry are checked by then (OwnerCache, P2IDVault).
Upgrade(i, wallet, iat) ==
  /\ ~ state.upgrading
  /\ i # state.code
  /\ NotOlder(wallet, iat)
  /\ Push([op |-> "upgrade", code |-> i, wallet |-> wallet, iat |-> iat, acknowledged |-> FALSE,
           saved |-> state],
          [state EXCEPT !.upgrading = TRUE, !.code = i,
                        !.lastUpgrade = [wallet |-> wallet, iat |-> iat]])

Acknowledge == stack' = [stack EXCEPT ![Len(stack)].acknowledged = TRUE]

\* acceptOwnerProof of P2IDVault takes the lock too, and refuses another wallet of the same time.
Hook ==
  /\ stack # <<>> /\ Top.op = "upgrade" /\ Top.code \in Proper /\ ~ Top.acknowledged
  /\ NotEntered
  /\ \/ Top.iat > state.owner.iat
     \/ Top.iat = state.owner.iat /\ Top.wallet = state.owner.wallet
  /\ Acknowledge
  /\ state' = [state EXCEPT !.owner = [wallet |-> Top.wallet, iat |-> Top.iat]]

\* Other registered code acknowledges whatever it did.
ForeignHook ==
  /\ stack # <<>> /\ Top.op = "upgrade" /\ Top.code \notin Proper /\ ~ Top.acknowledged
  /\ Acknowledge
  /\ UNCHANGED state

AcknowledgedIsEnough ==
  Top.acknowledged

\* The conditions after the hook.  The slot is read by the proxy itself; the owner and the floor
\* through the getters of the new code, which are P2IDVault's or say what they like.
HookApplied ==
  /\ Top.acknowledged
  /\ state.code = Top.code
  /\ Top.code \in Proper => state.owner.wallet = Top.wallet /\ state.owner.iat >= Top.iat

UpgradeReturns ==
  /\ stack # <<>> /\ Top.op = "upgrade"
  /\ HookApplied
  /\ Pop([state EXCEPT !.upgrading = FALSE, !.meddled = FALSE,
                       !.installed = [code |-> Top.code, owner |-> [wallet |-> Top.wallet, iat |-> Top.iat]]])

-----------------------------------------------------------------------------
CallNext ==
  \/ \E amount \in Payments : Fund(amount) \/ DirectTransfer(amount) \/ PolicyPulls(amount)
  \/ \E s \in Slots : FundReturns(s) \/ Refund(s)
  \/ \E s \in Slots, untracked \in BOOLEAN, fee \in {0} \union Payments : Sweep(s, untracked, fee)
  \/ \E fee \in {0} \union Payments : SweepUntracked(fee)
  \/ PayReturns \/ WithdrawFees \/ WithdrawReturns
  \/ TokenMoves
  \/ \E w \in Owners, iat \in 0..MaxIat : RefreshProof(w, iat) \/ \E i \in Codes : Upgrade(i, w, iat)
  \/ CallForeign \/ ForeignReturns \/ Meddle
  \/ Hook \/ ForeignHook \/ UpgradeReturns
  \/ Revert

CallSpec == CallInit /\ [][CallNext]_callVars
===============================================================================
