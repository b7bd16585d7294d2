---------------------------- MODULE Transaction -----------------------------
(***************************************************************************)
(* The value a transaction pays out, src/src/primitives/transaction.cpp:  *)
(* CTransaction::GetValueOut adds the outputs' nValue into an int64 and   *)
(* throws as soon as an output or the running total leaves MoneyRange.    *)
(* A transaction's vout is a sequence of [nValue, scriptPubKey], nValue a *)
(* CAmount, so anything int64 can hold, scriptPubKey a sequence of bytes.  The signed addition overflows    *)
(* (undefined behaviour) only when an out-of-range value is added; the    *)
(* build's add instruction wraps, which ToSigned models.                  *)
(***************************************************************************)
EXTENDS Interest, Sequences
LOCAL INSTANCE SequencesExt

\* A thrown "value out of range".
OutOfRange == [ok |-> FALSE, value |-> 0]

\* Mutant: only the running total is range-checked.
GetValueOut_sumOnly(vout) ==
    LET RECURSIVE Loop(_, _)
        Loop(nValueOut, i) ==
            IF i > Len(vout) THEN [ok |-> TRUE, value |-> nValueOut]
            ELSE LET sum == ToSigned(nValueOut + vout[i].nValue)
                 IN IF ~MoneyRange(sum) THEN OutOfRange ELSE Loop(sum, i + 1)
    IN Loop(0, 1)

\* GetValueOut: nValueOut += nValue first, then both it and the output's
\* own value are checked, for each output in order.
GetValueOut(vout) ==
    LET RECURSIVE Loop(_, _)
        Loop(nValueOut, i) ==
            IF i > Len(vout) THEN [ok |-> TRUE, value |-> nValueOut]
            ELSE LET sum == ToSigned(nValueOut + vout[i].nValue)
                 IN IF ~MoneyRange(vout[i].nValue) \/ ~MoneyRange(sum) THEN OutOfRange
                    ELSE Loop(sum, i + 1)
    IN Loop(0, 1)

(***************************************************************************)
(* The size priority is computed over, CalculateModifiedSize: for each    *)
(* input, in order, 41 bytes and up to 110 bytes of its scriptSig are not *)
(* counted, but only while the size left is larger than that.  nSize is   *)
(* an unsigned int, kept at the width of Word; a transaction is a record  *)
(* whose vin carry their scriptSig and whose serializedSize is what        *)
(* GetSerializeSize would return.                                         *)
(***************************************************************************)

\* GetTxSize: the cached nTxSize, filled from the serialized size when 0.
GetTxSize(tx) == IF tx.nTxSize = 0 THEN tx.serializedSize ELSE tx.nTxSize

\* The overhead of one input: 41U + min(110U, scriptSig.size()).
InputOffset(txin) == 41 + (IF Len(txin.scriptSig) < 110 THEN Len(txin.scriptSig) ELSE 110)

\* Mutant: nSize -= offset without the nSize > offset guard.
CalculateModifiedSize_noGuard(tx, nSize) ==
    LET Discount(n, txin) == ToUnsigned(n - InputOffset(txin))
    IN  FoldLeft(Discount, IF nSize = 0 THEN GetTxSize(tx) ELSE nSize, tx.vin)

CalculateModifiedSize(tx, nSize) ==
    LET Discount(n, txin) == IF n > InputOffset(txin) THEN ToUnsigned(n - InputOffset(txin)) ELSE n
    IN  FoldLeft(Discount, IF nSize = 0 THEN GetTxSize(tx) ELSE nSize, tx.vin)

(***************************************************************************)
(* Data outputs: HasData() looks for an output whose script starts with  *)
(* OP_RETURN; HasData(dataID) for one that pushes a 4-byte protocol id    *)
(* right after it (the size, the OP_RETURN and the push opcode are        *)
(* checked before the id is read) equal to dataID.                        *)
(***************************************************************************)

\* The opcode of script/script.h.
OP_RETURN == 106

\* ReadLE32 (crypto/common.h): the four bytes from index i, least
\* significant first.
ReadLE32(bytes, i) == bytes[i] + 256 * bytes[i + 1] + 65536 * bytes[i + 2] + 16777216 * bytes[i + 3]

\* HasData() (the overload without an id).
HasAnyData(tx) ==
    \E i \in DOMAIN tx.vout :
        LET spk == tx.vout[i].scriptPubKey IN Len(spk) >= 1 /\ spk[1] = OP_RETURN

\* Mutant: the id read most significant byte first.
HasData_bigEndian(tx, dataID) ==
    \E i \in DOMAIN tx.vout :
        LET spk == tx.vout[i].scriptPubKey
        IN  /\ Len(spk) >= 6 /\ spk[1] = OP_RETURN /\ spk[2] = 4
            /\ spk[6] + 256 * spk[5] + 65536 * spk[4] + 16777216 * spk[3] = dataID

HasData(tx, dataID) ==
    \E i \in DOMAIN tx.vout :
        LET spk == tx.vout[i].scriptPubKey
        IN  /\ Len(spk) >= 6 /\ spk[1] = OP_RETURN /\ spk[2] = 4
            /\ ReadLE32(spk, 3) = dataID
=============================================================================
