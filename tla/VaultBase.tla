------------------------------ MODULE VaultBase ------------------------------
(***************************************************************************)
(* What the parts of the vault model share: the verifiers an identity      *)
(* vault can hold deposits under, and the block clock.                     *)
(***************************************************************************)
EXTENDS Integers

CONSTANTS
  NumVerifiers, \* verifier contracts are numbered 1..NumVerifiers
  MaxTime       \* bound of the model: the last block time explored

ASSUME VaultBaseAssumption ==
  /\ NumVerifiers \in Nat \ {0}
  /\ MaxTime \in Nat

Verifiers == 1..NumVerifiers

VARIABLE now    \* block.timestamp

ClockInit == now = 0

\* A later block.
ClockTick == now < MaxTime /\ now' = now + 1
=============================================================================
