\* Callers using every send and move, sendfrom from the default account
\* (which it does not check): two RPC threads, the default account and one named account
\* holding at most 2, amounts of 1 and 2.
CONSTANTS
    Threads = {t1, t2}
    Accounts = {Default, acct}
    DefaultAccount = Default
    Amounts = {1, 2}
    Kinds = {"sendtoaddress", "sendfrom", "sendmany", "move"}
    MaxInitBalance = 2
    None = None
    MaxMoves = 2
    FromAccounts = {Default}

SPECIFICATION Spec

PROPERTY SendsCoveredByAccount
