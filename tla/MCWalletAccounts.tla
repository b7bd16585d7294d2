-------------------------- MODULE MCWalletAccounts --------------------------
(***************************************************************************)
(* Model-checking harness for WalletAccounts: threads and accounts are    *)
(* model values; the RPCs the callers use are chosen by each cfg.         *)
(***************************************************************************)
EXTENDS WalletAccounts
=============================================================================
