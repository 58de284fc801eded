------------------------------ MODULE MCP2IDVault ------------------------------
(* The whole vault on small instances. *)
EXTENDS P2IDVaultProps, OwnerCacheProps, TLC

\* No action or property names a funder, a wallet or a signer key.
Symmetry == Permutations(Funders) \union Permutations(Wallets) \union Permutations(Signers)
=============================================================================
