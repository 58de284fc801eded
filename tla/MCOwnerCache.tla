---------------------------- MODULE MCOwnerCache ----------------------------
(* The owner cache on small instances. *)
EXTENDS OwnerCacheProps, TLC

\* No action or property names a wallet, a signer key, an attester or a nonce.
Symmetry ==
  Permutations(Wallets) \union Permutations(Signers) \union Permutations(Attesters)
    \union Permutations(Nonces)
=============================================================================
