---------------------------- MODULE MCWalletLock ----------------------------
(***************************************************************************)
(* Model-checking harness for WalletLock: the timeouts a caller passes    *)
(* and the time span of the calls are given by each cfg.                  *)
(***************************************************************************)
EXTENDS WalletLock
=============================================================================
