\* Callers using sendfrom and sendmany: two RPC threads, the default account and one named account
\* holding at most 2, amounts of 1 and 2.
CONSTANTS
    Threads = {t1, t2}
    Accounts = {Default, acct}
    DefaultAccount = Default
    Amounts = {1, 2}
    Kinds = {"sendfrom", "sendmany"}
    MaxInitBalance = 2
    None = None
    MaxMoves = 2
    FromAccounts = {Default, acct}

SPECIFICATION Spec

PROPERTY SendsCoveredByAccount
