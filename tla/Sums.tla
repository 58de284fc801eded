-------------------------------- MODULE Sums --------------------------------
(***************************************************************************)
(* Finite sums over the indices 1..n of a function, written as a recursive *)
(* function of the index, so that VaultLedgerProofs can prove about them.  *)
(* They stand for the running totals a claim loop accumulates              *)
(* (P2IDVault._consumeFromCursor, _consumeIds).                            *)
(***************************************************************************)
EXTENDS Integers

\* PartialSums(w, n)[k] is w[1] + ... + w[k].
PartialSums(w, n) ==
  LET s[k \in 0..n] == IF k = 0 THEN 0 ELSE s[k - 1] + w[k]
  IN  s

Total(w, n) == PartialSums(w, n)[n]
=============================================================================
