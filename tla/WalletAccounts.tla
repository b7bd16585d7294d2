--------------------------- MODULE WalletAccounts ---------------------------
(***************************************************************************)
(* Account-funded sends of the wallet RPCs in src/unnamed/part_000         *)
(* (rpcwallet.cpp), run concurrently by RPC worker threads: sendtoaddress, *)
(* sendfrom and sendmany (one recipient), each going through              *)
(* EnsureWalletIsUnlocked, the account balance check where it has one,    *)
(* and CreateTransaction / CommitTransaction under serializeCreateTx; and *)
(* move, which shifts balance between accounts under cs_wallet without    *)
(* any check.  The wallet may be locked and unlocked at any time (the     *)
(* lockwallet timer, walletlock, walletpassphrase: see WalletLock).       *)
(*                                                                         *)
(* An account's balance is GetAccountBalance's tally (received, minus     *)
(* sent, plus the move entries); fees are left out (taken as zero).       *)
(***************************************************************************)
EXTENDS Integers, FiniteSets

CONSTANTS
    Threads,         \* RPC worker threads
    Accounts,        \* account names; DefaultAccount is ""
    DefaultAccount,
    Amounts,         \* amounts a caller sends or moves (all > 0)
    Kinds,           \* the RPCs the callers use
    MaxInitBalance,  \* bound on each account's opening balance
    None,            \* no thread holds serializeCreateTx
    MaxMoves,        \* bound on the number of move calls
    FromAccounts     \* the accounts callers name in sendfrom

ASSUME /\ DefaultAccount \in Accounts
       /\ Amounts \subseteq Nat \ {0}
       /\ None \notin Threads
       /\ FromAccounts \subseteq Accounts
       /\ Kinds \subseteq {"sendtoaddress", "sendfrom", "sendmany", "move"}

VARIABLES
    balance,      \* GetAccountBalance of each account
    walletFunds,  \* spendable coins CreateTransaction can select
    walletLocked, \* pwalletMain->IsLocked()
    pc,           \* per thread: "idle", "waitLock" or "creating"
    req,          \* per thread: [kind, acc, amt] of its call
    holder,       \* the thread holding serializeCreateTx, or None
    checked,      \* ghost: the thread's balance check has passed
    stale,        \* ghost: a move debited its account after that check
    moves         \* move calls so far (bounded by MaxMoves)

vars == <<balance, walletFunds, walletLocked, pc, req, holder, checked, stale,
          moves>>

\* Sum of the balances of a set of accounts.
RECURSIVE SumOver(_)
SumOver(S) == IF S = {} THEN 0
              ELSE LET a == CHOOSE x \in S : TRUE IN balance[a] + SumOver(S \ {a})

Init ==
    /\ balance \in [Accounts -> 0..MaxInitBalance]
    /\ walletFunds = SumOver(Accounts)
    /\ walletLocked \in BOOLEAN
    /\ pc = [t \in Threads |-> "idle"]
    /\ req = [t \in Threads |-> [kind |-> "sendtoaddress", acc |-> DefaultAccount,
                                  amt |-> CHOOSE a \in Amounts : TRUE]]
    /\ holder = None
    /\ checked = [t \in Threads |-> FALSE]
    /\ stale = [t \in Threads |-> FALSE]
    /\ moves = 0

-----------------------------------------------------------------------------
\* A call that passed its argument checks and EnsureWalletIsUnlocked goes
\* on to take serializeCreateTx; didCheck: it also passed a balance check.
\* A call that fails a check returns an error and changes nothing.
BeginSend(t, r, didCheck) ==
    /\ pc[t] = "idle"
    /\ r.kind \in Kinds
    /\ ~walletLocked
    /\ req' = [req EXCEPT ![t] = r]
    /\ pc' = [pc EXCEPT ![t] = "waitLock"]
    /\ checked' = [checked EXCEPT ![t] = didCheck]
    /\ stale' = [stale EXCEPT ![t] = FALSE]
    /\ UNCHANGED <<balance, walletFunds, walletLocked, holder, moves>>

\* sendtoaddress: a positive amount from the default account, then
\* EnsureWalletIsUnlocked and SendMoney.
SendToAddress(t) ==
    \E amt \in Amounts :
        BeginSend(t, [kind |-> "sendtoaddress", acc |-> DefaultAccount, amt |-> amt],
                  FALSE)

\* sendfrom: EnsureWalletIsUnlocked, then, for a named account, its
\* balance against the amount ("Account has insufficient funds"), outside
\* any lock; then SendMoney.
SendFrom(t) ==
    \E acc \in FromAccounts, amt \in Amounts :
        /\ acc # DefaultAccount => amt <= balance[acc]
        /\ BeginSend(t, [kind |-> "sendfrom", acc |-> acc, amt |-> amt],
                     acc # DefaultAccount)

\* sendmany: the recipients' total (one recipient here), then
\* EnsureWalletIsUnlocked; its balance check comes under the lock.
SendMany(t) ==
    \E acc \in Accounts, amt \in Amounts :
        BeginSend(t, [kind |-> "sendmany", acc |-> acc, amt |-> amt], FALSE)

\* sendmany names an account and its total exceeds that account's balance.
SendmanyShort(t) ==
    /\ req[t].kind = "sendmany" /\ req[t].acc # DefaultAccount
    /\ req[t].amt > balance[req[t].acc]

\* Mutant: sendmany without its balance check.
AcquireCreateLock_noCheck(t) ==
    /\ pc[t] = "waitLock"
    /\ holder = None
    /\ holder' = t
    /\ pc' = [pc EXCEPT ![t] = "creating"]
    /\ UNCHANGED <<balance, walletFunds, walletLocked, req, checked, stale, moves>>

\* LOCK(serializeCreateTx), in SendMoney or in sendmany; sendmany then
\* compares the account balance with its total while holding it, and
\* throws (releasing the lock) when it is short.
AcquireCreateLock(t) ==
    /\ pc[t] = "waitLock"
    /\ holder = None
    /\ \/ /\ SendmanyShort(t)
          /\ pc' = [pc EXCEPT ![t] = "idle"]
          /\ UNCHANGED <<holder, checked>>
       \/ /\ ~SendmanyShort(t)
          /\ holder' = t
          /\ pc' = [pc EXCEPT ![t] = "creating"]
          /\ checked' = [checked EXCEPT ![t] = checked[t] \/
                           (req[t].kind = "sendmany" /\ req[t].acc # DefaultAccount)]
    /\ UNCHANGED <<balance, walletFunds, walletLocked, req, stale, moves>>

\* CreateTransaction and CommitTransaction, then the lock is released.
\* Creation fails when coin selection cannot cover the amount or the keys
\* to sign with are locked; otherwise the committed transaction is a send
\* from the call's account (wtx.strFromAccount).
CreateAndCommit(t) ==
    /\ pc[t] = "creating"
    /\ IF walletLocked \/ req[t].amt > walletFunds
       THEN UNCHANGED <<balance, walletFunds>>
       ELSE /\ balance' = [balance EXCEPT ![req[t].acc] = @ - req[t].amt]
            /\ walletFunds' = walletFunds - req[t].amt
    /\ pc' = [pc EXCEPT ![t] = "idle"]
    /\ holder' = None
    /\ UNCHANGED <<walletLocked, req, checked, stale, moves>>

\* move: under cs_wallet, a debit entry on one account and a credit entry
\* on the other in one database transaction, with no balance check.
Move(t) ==
    /\ "move" \in Kinds
    /\ pc[t] = "idle"
    /\ moves < MaxMoves
    /\ moves' = moves + 1
    /\ \E from, to \in Accounts, amt \in Amounts :
         /\ from # to
         /\ balance' = [balance EXCEPT ![from] = @ - amt, ![to] = @ + amt]
         /\ stale' = [u \in Threads |->
                        stale[u] \/ (checked[u] /\ pc[u] # "idle" /\ req[u].acc = from)]
    /\ UNCHANGED <<walletFunds, walletLocked, pc, req, holder, checked>>

\* The lockwallet timer, walletlock or walletpassphrase on another thread.
ToggleLock ==
    /\ walletLocked' = ~walletLocked
    /\ UNCHANGED <<balance, walletFunds, pc, req, holder, checked, stale, moves>>

Next == \/ \E t \in Threads : SendToAddress(t) \/ SendFrom(t) \/ SendMany(t)
                               \/ AcquireCreateLock(t)
                               \/ CreateAndCommit(t) \/ Move(t)
        \/ ToggleLock

Spec == Init /\ [][Next]_vars

-----------------------------------------------------------------------------
(* Properties *)

\* The send CommitTransaction records in this step, if any.
Committing(t) == pc[t] = "creating" /\ walletFunds' < walletFunds

(* The balance checks of sendfrom and sendmany ("make sure it doesn't     *)
(* exceed our account balance"): a send from a named account is committed *)
(* only while the account's balance covers it, unless a move, which has   *)
(* no check, debited the account after the check passed.  Concurrent      *)
(* sends from one account must not both pass their checks against the    *)
(* same balance.                                                          *)
SendsCoveredByAccount ==
    [][\A t \in Threads :
         Committing(t) /\ req[t].acc # DefaultAccount =>
            balance[req[t].acc] >= req[t].amt \/ stale[t]]_vars
====
