----------------------------- MODULE BitcoinTx ------------------------------
(***************************************************************************)
(* The bitcoin-tx utility, src/src/bitcoin-tx.cpp: main runs             *)
(* AppInitRawTx, which may end the process (help, -version, a bad switch), *)
(* then CommandLineRawTx, which decodes the hex argument (or, with        *)
(* -create, starts from a blank transaction) and applies the               *)
(* commands of the command line to it one at a time (MutateTx); the first  *)
(* command that throws ends the run with an error and nothing is printed;  *)
(* when the commands are exhausted the transaction is printed (OutputTx). *)
(*                                                                         *)
(* Data is abstracted: a previous output is a model value of Outpoints, a  *)
(* scriptPubKey one of Scripts, an output's payee one of Payees.  A        *)
(* scriptSig is either NoSig or the signature sign made: its hash type and *)
(* the digest it signed.  Lock time and sequence numbers keep their        *)
(* unsigned width (LockBits, SeqBits) with the casts the code applies.     *)
(***************************************************************************)
EXTENDS Integers, Sequences, SequencesExt, Bitwise

CONSTANTS
    Outpoints,       \* previous outputs TXID:VOUT an input can name
    Scripts,         \* scriptPubKeys of previous outputs
    Payees,          \* what an added output pays to
    VersionArgs,     \* nversion=N values
    LockArgs,        \* locktime=N values (atoi64)
    SeqArgs,         \* the optional :SEQUENCE of in= (stoul)
    FlagArgs,        \* sign=FLAGS, as the sequence of its '|'-separated words
    KeyValues,       \* privatekeys register contents: the scripts keys are given for
    PrevtxsValues,   \* prevtxs register contents: sets of <<outpoint, script>>
    CURRENT_VERSION, \* CTransaction::CURRENT_VERSION
    LockBits,        \* width of nLockTime
    SeqBits,         \* width of nSequence
    MaxIns, MaxOuts, \* bounds on the inputs and outputs of the transaction
    MaxCmds,         \* bound on the length of the command line
    NoSig, Unset, BadJson, NoSeq, SigHashOne, BlankOut  \* model values

VARIABLES
    tx,       \* [ver, lock, vin: Seq([prev, seq, sig]), vout: Seq(Payees)]
    reg,      \* the registers: [privatekeys, prevtxs], Unset until set/load
    status,   \* "start", "exited" (by AppInitRawTx), "cmdline", "running",
              \* "failed" (an exception) or "printed"
    fCreateBlank, \* -create
    ncmds,    \* commands applied so far
    lastCmd,  \* ghost: the last command applied
    lastHt,   \* ghost: the hash type of the last sign
    lastLock  \* ghost: the argument of the last accepted locktime

vars == <<tx, reg, status, fCreateBlank, ncmds, lastCmd, lastHt, lastLock>>

SIGHASH_ALL == 1
SIGHASH_NONE == 2
SIGHASH_SINGLE == 3
SIGHASH_FORKID == 64
SIGHASH_ANYONECANPAY == 128

Blank == [ver |-> CURRENT_VERSION, lock |-> 0, vin |-> <<>>, vout |-> <<>>]
SeqMax == 2^SeqBits - 1

\* The statics fCreateBlank and registers, and CommandLineRawTx's
\* txDecodeTmp, a default (blank) transaction.
Init ==
    /\ tx = Blank
    /\ status = "start"
    /\ fCreateBlank = FALSE
    /\ reg = [privatekeys |-> Unset, prevtxs |-> Unset]
    /\ ncmds = 0
    /\ lastCmd = "none"
    /\ lastHt = 0
    /\ lastLock = Unset

-----------------------------------------------------------------------------
(* The legacy signature hash (script/interpreter.cpp, outside src/): what  *)
(* a signature of input i with hash type h commits to.  Other inputs'      *)
(* sequence numbers are blanked for NONE and SINGLE, only input i is kept  *)
(* for ANYONECANPAY, SINGLE keeps output i with blank outputs before it,   *)
(* and SINGLE without a corresponding output hashes the constant one.      *)
Digest(t, i, h) ==
    LET base == h & 31
        acp  == (h & SIGHASH_ANYONECANPAY) # 0
        In(j) == [prev |-> t.vin[j].prev,
                  seq  |-> IF base \in {SIGHASH_NONE, SIGHASH_SINGLE} /\ j # i
                           THEN 0 ELSE t.vin[j].seq]
    IN IF base = SIGHASH_SINGLE /\ i > Len(t.vout) THEN SigHashOne
       ELSE [ht |-> h, ver |-> t.ver, lock |-> t.lock,
             at |-> IF acp THEN 0 ELSE i,
             ins |-> IF acp THEN <<In(i)>> ELSE [j \in 1..Len(t.vin) |-> In(j)],
             outs |-> CASE base = SIGHASH_NONE   -> <<>>
                        [] base = SIGHASH_SINGLE -> [j \in 1..i |->
                                                       IF j = i THEN t.vout[j] ELSE BlankOut]
                        [] OTHER                 -> t.vout]

\* The scriptSig of input i checks against the transaction t.
ValidSig(t, i) == t.vin[i].sig # NoSig /\ t.vin[i].sig.digest = Digest(t, i, t.vin[i].sig.ht)

-----------------------------------------------------------------------------
\* AppInitRawTx: an exception of ParseParameters or SelectParams, -version,
\* -?, -h, -help or no argument at all returns an exit code and main
\* returns it; otherwise fCreateBlank is read from -create and main goes
\* on to CommandLineRawTx.
AppInitRawTx ==
    /\ status = "start"
    /\ \/ status' = "exited" /\ UNCHANGED fCreateBlank
       \/ status' = "cmdline" /\ fCreateBlank' \in BOOLEAN
    /\ UNCHANGED <<tx, reg, ncmds, lastCmd, lastHt, lastLock>>

\* Without -create: no argument left after the switches ("too few
\* parameters"), "-" with stdin unreadable (readStdin's "error reading
\* stdin"), or hex DecodeHexTx refuses ("invalid transaction encoding").
DecodeFails == status' = "failed" /\ UNCHANGED tx

\* The head of CommandLineRawTx: the switches are skipped; without -create
\* the first argument is the hex transaction (stdin for "-"), decoded into
\* a transaction of one input and one output of either version and either
\* extreme lock time; with -create the commands apply to txDecodeTmp.
StartCommandLine ==
    /\ status = "cmdline"
    /\ IF fCreateBlank THEN status' = "running" /\ UNCHANGED tx
       ELSE \/ DecodeFails
            \/ /\ status' = "running"
               /\ \E v \in {1, CURRENT_VERSION}, l \in {0, 2^LockBits - 1},
                     o \in Outpoints, p \in Payees :
                    tx' = [ver |-> v, lock |-> l, vout |-> <<p>>,
                           vin |-> <<[prev |-> o, seq |-> SeqMax, sig |-> NoSig]>>]
    /\ UNCHANGED <<reg, fCreateBlank, ncmds, lastCmd, lastHt, lastLock>>

\* One command, applied while no earlier one has failed.
Command(name) ==
    /\ status = "running" /\ ncmds < MaxCmds
    /\ UNCHANGED fCreateBlank
    /\ ncmds' = ncmds + 1
    /\ lastCmd' = name

\* The command throws: CommandLineRawTx prints the error, nothing else.
Fail == status' = "failed" /\ UNCHANGED <<tx, reg, lastHt, lastLock>>

\* The command changes the transaction to t.
SetTx(t) == tx' = t /\ UNCHANGED <<reg, status, lastHt, lastLock>>

-----------------------------------------------------------------------------
MutateTxVersion ==
    /\ Command("nversion")
    /\ \E v \in VersionArgs :
         IF v < 1 \/ v > CURRENT_VERSION THEN Fail
         ELSE SetTx([tx EXCEPT !.ver = v])

\* Mutant: the upper bound of the lock time check off by one.
MutateTxLocktime_offByOne ==
    /\ Command("locktime")
    /\ \E n \in LockArgs :
         IF n < 0 \/ n > 2^LockBits THEN Fail
         ELSE /\ tx' = [tx EXCEPT !.lock = n % 2^LockBits]
              /\ lastLock' = n
              /\ UNCHANGED <<reg, status, lastHt>>

\* Range check against 0..0xffffffff, then the (unsigned int) cast.
MutateTxLocktime ==
    /\ Command("locktime")
    /\ \E n \in LockArgs :
         IF n < 0 \/ n > 2^LockBits - 1 THEN Fail
         ELSE /\ tx' = [tx EXCEPT !.lock = n % 2^LockBits]
              /\ lastLock' = n
              /\ UNCHANGED <<reg, status, lastHt>>

\* in=TXID:VOUT[:SEQUENCE]: a malformed reference (separator, txid, vout
\* range) or sequence throws; the sequence defaults to the maximum, and
\* stoul's unsigned long is stored in a uint32_t.
MutateTxAddInput ==
    /\ Command("in")
    /\ \E o \in Outpoints \cup {BadJson}, s \in SeqArgs \cup {NoSeq} :
         IF o = BadJson \/ Len(tx.vin) = MaxIns THEN Fail
         ELSE SetTx([tx EXCEPT !.vin = Append(@, [prev |-> o, sig |-> NoSig,
                                 seq |-> IF s = NoSeq THEN SeqMax ELSE s % 2^(SeqBits)])])

\* An output command: a bad value, address, data or script throws;
\* otherwise the output is appended.
AddOutput(name) ==
    /\ Command(name)
    /\ \/ Fail
       \/ /\ Len(tx.vout) < MaxOuts
          /\ \E p \in Payees : SetTx([tx EXCEPT !.vout = Append(@, p)])

MutateTxAddOutAddr == AddOutput("outaddr")
MutateTxAddOutData == AddOutput("outdata")
MutateTxAddOutScript == AddOutput("outscript")

\* delin=N / delout=N: N outside 0..size-1 throws; otherwise the element
\* at N is erased and the later ones move down.
MutateTxDelInput ==
    /\ Command("delin")
    /\ \E n \in -1..MaxIns :
         IF n < 0 \/ n >= Len(tx.vin) THEN Fail
         ELSE SetTx([tx EXCEPT !.vin = RemoveAt(@, n + 1)])

MutateTxDelOutput ==
    /\ Command("delout")
    /\ \E n \in -1..MaxOuts :
         IF n < 0 \/ n >= Len(tx.vout) THEN Fail
         ELSE SetTx([tx EXCEPT !.vout = RemoveAt(@, n + 1)])

\* set=NAME:JSON and load=NAME:FILENAME: a missing NAME:VALUE separator,
\* an unreadable file or unparsable JSON throws; otherwise the register
\* holds the value, which sign may still find malformed (BadJson).
SetRegister(name) ==
    /\ Command(name)
    /\ \/ Fail
       \/ /\ \/ \E v \in KeyValues \cup {BadJson} : reg' = [reg EXCEPT !.privatekeys = v]
             \/ \E v \in PrevtxsValues \cup {BadJson} : reg' = [reg EXCEPT !.prevtxs = v]
          /\ UNCHANGED <<tx, status, lastHt, lastLock>>

RegisterSet == SetRegister("set")
RegisterLoad == SetRegister("load")

\* A command word MutateTx does not know.
UnknownCommand == Command("unknown") /\ Fail

-----------------------------------------------------------------------------
\* findSighashFlags: ALL, NONE and SINGLE set the flags, ANYONECANPAY and
\* FORKID are or-ed in, and any other word fails.  flags starts at 0.
FindSighashFlags(words) ==
    LET Step(acc, w) ==
          CASE w = "ALL"          -> [acc EXCEPT !.flags = SIGHASH_ALL]
            [] w = "NONE"         -> [acc EXCEPT !.flags = SIGHASH_NONE]
            [] w = "SINGLE"       -> [acc EXCEPT !.flags = SIGHASH_SINGLE]
            [] w = "ANYONECANPAY" -> [acc EXCEPT !.flags = @ | SIGHASH_ANYONECANPAY]
            [] w = "FORKID"       -> [acc EXCEPT !.flags = @ | SIGHASH_FORKID]
            [] OTHER              -> [acc EXCEPT !.ok = FALSE]
    IN FoldLeft(Step, [ok |-> TRUE, flags |-> 0], words)

\* A prevtxs register naming one outpoint with two scriptPubKeys: the
\* second AddCoin meets "Previous output scriptPubKey mismatch".
Mismatch(P) == \E p, q \in P : p[1] = q[1] /\ p[2] # q[2]

\* sign throws before touching the transaction: an unknown flag word, a
\* missing or malformed privatekeys or prevtxs register, a mismatch.
SignFails(words) ==
    \/ words # <<>> /\ ~FindSighashFlags(words).ok
    \/ reg.privatekeys \in {Unset, BadJson}
    \/ reg.prevtxs \in {Unset, BadJson}
    \/ Mismatch(reg.prevtxs)

\* The hash type of sign=FLAGS: SIGHASH_ALL for an empty flag string.
HashType(words) == IF words = <<>> THEN SIGHASH_ALL ELSE FindSighashFlags(words).flags

\* SignSignature can sign input i: its previous output is in the view
\* (prevtxs) and the key of its scriptPubKey is in the keystore.
CanSign(i) ==
    \E p \in reg.prevtxs : p[1] = tx.vin[i].prev /\ p[2] \in reg.privatekeys

\* Mutant: the guard for SIGHASH_SINGLE dropped.
SignedInput_anySingle(i, h) ==
    IF CanSign(i)
    THEN [tx.vin[i] EXCEPT !.sig = [ht |-> h, digest |-> Digest(tx, i, h)]]
    ELSE tx.vin[i]

\* Input i after the signing loop: a coin not in the view is skipped;
\* otherwise scriptSig is cleared, signed unless SIGHASH_SINGLE has no
\* output i, and combined with the input's old scriptSig, which survives
\* where nothing new was signed.
SignedInput(i, h) ==
    LET single == (h & 63) = SIGHASH_SINGLE
    IN IF CanSign(i) /\ (~single \/ i <= Len(tx.vout))
       THEN [tx.vin[i] EXCEPT !.sig = [ht |-> h, digest |-> Digest(tx, i, h)]]
       ELSE tx.vin[i]

\* Mutant: the signing loop stops (break) at the first coin not in the view.
MutateTxSign_break ==
    /\ Command("sign")
    /\ \E words \in FlagArgs :
         IF SignFails(words) THEN Fail
         ELSE LET h == HashType(words)
                  Known(i) == \E p \in reg.prevtxs : p[1] = tx.vin[i].prev
                  stop == {i \in 1..Len(tx.vin) : \A j \in 1..i : Known(j)}
              IN /\ tx' = [tx EXCEPT !.vin = [i \in 1..Len(tx.vin) |->
                                   IF i \in stop THEN SignedInput(i, h) ELSE tx.vin[i]]]
                 /\ lastHt' = h
                 /\ UNCHANGED <<reg, status, lastLock>>

\* sign=FLAGS: mergedTx gets every input as SignedInput makes it.
MutateTxSign ==
    /\ Command("sign")
    /\ \E words \in FlagArgs :
         IF SignFails(words) THEN Fail
         ELSE LET h == HashType(words)
              IN /\ tx' = [tx EXCEPT !.vin = [i \in 1..Len(tx.vin) |-> SignedInput(i, h)]]
                 /\ lastHt' = h
                 /\ UNCHANGED <<reg, status, lastLock>>

\* The command line is exhausted: OutputTx prints the transaction.
OutputTx ==
    /\ status = "running"
    /\ status' = "printed"
    /\ UNCHANGED <<tx, reg, fCreateBlank, ncmds, lastCmd, lastHt, lastLock>>

MutateTx ==
    \/ MutateTxVersion \/ MutateTxLocktime \/ MutateTxAddInput
    \/ MutateTxAddOutAddr \/ MutateTxAddOutData \/ MutateTxAddOutScript
    \/ MutateTxDelInput \/ MutateTxDelOutput \/ MutateTxSign
    \/ RegisterSet \/ RegisterLoad \/ UnknownCommand

\* main: AppInitRawTx, then, unless it returned, CommandLineRawTx.
Next == AppInitRawTx \/ StartCommandLine \/ MutateTx \/ OutputTx

\* The process ends after AppInitRawTx returns, after printing, or after
\* the first error.
Spec == Init /\ [][Next]_vars

-----------------------------------------------------------------------------
(* Properties *)

Committed == [ht : 0..255, ver : Int, lock : Int, at : Int,
              ins : Seq([prev : Outpoints, seq : 0..SeqMax]),
              outs : Seq(Payees \cup {BlankOut})]
TxIn == [prev : Outpoints, seq : 0..SeqMax,
         sig : {NoSig} \cup [ht : 0..255, digest : {SigHashOne} \cup Committed]]

TypeOK ==
    /\ tx.ver \in 1..CURRENT_VERSION /\ tx.lock \in 0..2^LockBits - 1
    /\ tx.vin \in Seq(TxIn) /\ Len(tx.vin) <= MaxIns
    /\ tx.vout \in Seq(Payees) /\ Len(tx.vout) <= MaxOuts
    /\ status \in {"start", "exited", "cmdline", "running", "failed", "printed"}
    /\ fCreateBlank \in BOOLEAN
    /\ ncmds \in 0..MaxCmds

(* "Only sign SIGHASH_SINGLE if there's a corresponding output": no input  *)
(* ever carries a signature over the constant hash one, which SignatureHash *)
(* returns for SINGLE without an output at the input's index and which     *)
(* would let the signature be replayed on any transaction.  Reaching it    *)
(* takes inputs outnumbering outputs, the registers and a SINGLE flag.     *)
NoSignatureOverHashOne ==
    \A i \in 1..Len(tx.vin) :
        tx.vin[i].sig # NoSig => tx.vin[i].sig.digest # SigHashOne

(* sign "adds zero or more signatures": right after a sign command that    *)
(* succeeded, every input that the keys and prevtxs given can sign, and    *)
(* that SIGHASH_SINGLE does not exclude, has a signature valid for the     *)
(* transaction, whatever inputs before it could not be signed.            *)
SignCoversSignable ==
    lastCmd = "sign" /\ status # "failed" =>
        \A i \in 1..Len(tx.vin) :
            CanSign(i) /\ ((lastHt & 63) # SIGHASH_SINGLE \/ i <= Len(tx.vout))
                => ValidSig(tx, i)

(* locktime=N sets "TX lock time to N": the lock time is the argument of   *)
(* the last locktime command accepted, if any; the range check before the    *)
(* (unsigned int) cast must refuse every N the cast would change.          *)
LockTimeIsArgument == lastLock # Unset => tx.lock = lastLock
====
