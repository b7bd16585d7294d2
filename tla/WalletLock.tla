----------------------------- MODULE WalletLock -----------------------------
(***************************************************************************)
(* Wallet encryption state and the timed unlock of the wallet RPCs in      *)
(* src/unnamed/part_000 (rpcwallet.cpp): encryptwallet, walletpassphrase, *)
(* walletlock, the "lockwallet" timer that runs LockWallet, and the        *)
(* nWalletUnlockTime that getwalletinfo reports as unlocked_until.         *)
(*                                                                         *)
(* The RPCs all take cs_wallet, so at most one of them is in progress;     *)
(* walletpassphrase is split at the point where the timer callback, which *)
(* runs on the HTTP event thread and takes only cs_nWalletUnlockTime, can *)
(* come in between: after Unlock() and before the new timer is armed.     *)
(* Time is a clock in seconds; RPCRunLater with a name replaces the timer *)
(* of that name.                                                           *)
(***************************************************************************)
EXTENDS Integers

CONSTANTS
    Timeouts,   \* values of params[1]: small integers, and NotANumber
    NotANumber, \* a params[1] that is not a JSON integer (get_int64 throws)
    MaxTime     \* the RPC calls happen at times 1..MaxTime

ASSUME /\ Timeouts \subseteq (Nat \cup {NotANumber})
       /\ MaxTime \in Nat \ {0}

VARIABLES
    crypted,           \* pwalletMain->IsCrypted()
    locked,            \* pwalletMain->IsLocked()
    nWalletUnlockTime,
    timer,             \* the pending "lockwallet" timer: its due time, or 0
    rpc,               \* the RPC holding cs_wallet: [pc, timeout]
    shutdownRequested, \* StartShutdown() called by encryptwallet
    now                \* GetTime()

vars == <<crypted, locked, nWalletUnlockTime, timer, rpc, shutdownRequested,
          now>>

Idle == [pc |-> "idle", timeout |-> NotANumber]

\* The clock runs until every timer armed by a call in 1..MaxTime is due.
Horizon == MaxTime + (CHOOSE m \in Timeouts \ {NotANumber} :
                          \A t \in Timeouts \ {NotANumber} : t <= m)

Init ==
    /\ crypted \in BOOLEAN
    /\ locked = crypted
    /\ nWalletUnlockTime = 0
    /\ timer = 0
    /\ rpc = Idle
    /\ shutdownRequested = FALSE
    /\ now = 1

-----------------------------------------------------------------------------
\* encryptwallet: refused on an encrypted wallet; EncryptWallet leaves the
\* wallet encrypted and locked, then the node is asked to stop.
EncryptWallet ==
    /\ rpc = Idle /\ now <= MaxTime
    /\ ~crypted
    /\ crypted' = TRUE
    /\ locked' = TRUE
    /\ shutdownRequested' = TRUE
    /\ UNCHANGED <<nWalletUnlockTime, timer, rpc, now>>

\* walletpassphrase up to get_int64: refused on an unencrypted wallet or
\* a wrong passphrase; otherwise Unlock() and TopUpKeyPool(), still
\* holding cs_wallet.
WalletPassphraseUnlock ==
    /\ rpc = Idle /\ now <= MaxTime
    /\ crypted
    /\ \E t \in Timeouts : rpc' = [pc |-> "unlocked", timeout |-> t]
    /\ locked' = FALSE
    /\ UNCHANGED <<crypted, nWalletUnlockTime, timer, shutdownRequested, now>>

\* Mutant: no lockwallet timer armed.
WalletPassphraseArm_noTimer ==
    /\ rpc.pc = "unlocked"
    /\ rpc' = Idle
    /\ nWalletUnlockTime' = IF rpc.timeout = NotANumber THEN nWalletUnlockTime
                            ELSE now + rpc.timeout
    /\ UNCHANGED <<crypted, locked, timer, shutdownRequested, now>>

\* walletpassphrase from get_int64 on: a timeout that is not an integer
\* throws here, with the wallet already unlocked; otherwise, under
\* cs_nWalletUnlockTime, the unlock time is set and the lockwallet timer
\* (re)armed.
WalletPassphraseArm ==
    /\ rpc.pc = "unlocked"
    /\ rpc' = Idle
    /\ \/ /\ rpc.timeout = NotANumber
          /\ UNCHANGED <<nWalletUnlockTime, timer>>
       \/ /\ rpc.timeout # NotANumber
          /\ nWalletUnlockTime' = now + rpc.timeout
          /\ timer' = now + rpc.timeout
    /\ UNCHANGED <<crypted, locked, shutdownRequested, now>>

\* walletlock: refused on an unencrypted wallet; Lock() and clear the
\* unlock time (the pending timer is left to fire).
WalletLockRPC ==
    /\ rpc = Idle /\ now <= MaxTime
    /\ crypted
    /\ locked' = TRUE
    /\ nWalletUnlockTime' = 0
    /\ UNCHANGED <<crypted, timer, rpc, shutdownRequested, now>>

\* The lockwallet timer fires on the event thread: LockWallet.
LockWallet ==
    /\ timer # 0 /\ now >= timer
    /\ timer' = 0
    /\ nWalletUnlockTime' = 0
    /\ locked' = TRUE
    /\ UNCHANGED <<crypted, rpc, shutdownRequested, now>>

\* A second passes, up to the horizon and then until the last timer is due.
Tick ==
    /\ now < Horizon \/ now < timer
    /\ now' = now + 1
    /\ UNCHANGED <<crypted, locked, nWalletUnlockTime, timer, rpc,
                   shutdownRequested>>

\* Nothing is left to happen.
Done ==
    /\ rpc = Idle /\ timer = 0 /\ now >= Horizon
    /\ UNCHANGED vars

Next == \/ EncryptWallet \/ WalletPassphraseUnlock \/ WalletPassphraseArm
        \/ WalletLockRPC \/ LockWallet \/ Tick \/ Done

\* The RPC worker finishes the call it is in, the event thread runs a due
\* timer, and time passes; nobody is obliged to call an RPC.
Spec == /\ Init /\ [][Next]_vars
        /\ WF_vars(WalletPassphraseArm) /\ WF_vars(LockWallet) /\ WF_vars(Tick)

-----------------------------------------------------------------------------
(* Properties *)

(* walletpassphrase "stores the wallet decryption key in memory for       *)
(* 'timeout' seconds": an encrypted wallet that is unlocked is locked     *)
(* again later, whatever RPCs are called in between.                      *)
WalletRelocks == (crypted /\ ~locked) ~> locked

(* getwalletinfo's unlocked_until is "0 if the wallet is locked": between *)
(* RPCs, an encrypted wallet is locked exactly when nWalletUnlockTime is  *)
(* 0.                                                                     *)
UnlockedUntilConsistent ==
    (crypted /\ rpc = Idle) => (locked <=> nWalletUnlockTime = 0)
====
