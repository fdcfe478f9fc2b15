---------------------------- MODULE MCWalletAuth ----------------------------
(* Small instances of the wallet authenticator for TLC.                    *)
EXTENDS WalletAuth, TLC

Replicas == Permutations(Handlers)
=============================================================================
