---------------------------- MODULE MCBitcoinTx -----------------------------
(* bitcoin-tx with two previous outputs and scripts, one payee, and the   *)
(* argument values at the edges of every check.                           *)
EXTENDS BitcoinTx

CONSTANTS o1, o2, s1, s2, p1

MCOutpoints == {o1, o2}
MCScripts == {s1, s2}
MCPayees == {p1}
\* both sides of 1..CURRENT_VERSION and of 0..2^LockBits-1
MCVersionArgs == {0, 2, 3}
MCLockArgs == {-1, 7, 8}
\* 4 = 2^SeqBits: stoul's value does not fit nSequence
MCSeqArgs == {1, 4}
\* "", SINGLE, NONE|ANYONECANPAY, an unknown word
MCFlagArgs == {<<>>, <<"SINGLE">>, <<"NONE", "ANYONECANPAY">>, <<"BAD">>}
\* the key for s1 only, or for both scripts
MCKeyValues == {{s1}, {s1, s2}}
\* o2 only, both outpoints, and o1 under two scripts (a mismatch)
MCPrevtxsValues == {{<<o2, s1>>}, {<<o1, s1>>, <<o2, s2>>}, {<<o1, s1>>, <<o1, s2>>}}
====
