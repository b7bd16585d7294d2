------------------------------ MODULE Interest ------------------------------
(***************************************************************************)
(* The interest accrual engine of src/src/primitives/transaction.cpp:      *)
(* the per-block compounding table rateTable, getRateForAmount and         *)
(* GetInterest / CTxOut::GetValueWithInterest.                             *)
(*                                                                         *)
(* The code works in 64-bit words (uint64_t table entries, CAmount =       *)
(* int64_t) with a 256-bit intermediate for the product.  TLC integers are *)
(* 32-bit, so the word width, the table scale (1 << 62), the per-block     *)
(* shift (>> 22) and the period cap (ONEDAY * 365) are CONSTANTS, given    *)
(* scaled-down values in the MC module that keep their proportions: the    *)
(* scale leaves two bits of headroom in the word, and the table grows by   *)
(* about 10% over the whole period.  Every conversion between signed and   *)
(* unsigned words is kept (ToUnsigned, ToSigned).                          *)
(***************************************************************************)
EXTENDS Integers, Bitwise

CONSTANTS
    WORD_BITS,          \* 64: width of uint64_t / int64_t
    RATE_SCALE_BITS,    \* 62: rateTable[0] = 1 << 62
    RATE_SHIFT,         \* 22: rate per block is 1 + 2^-22
    MAXINTERESTPERIOD,  \* ONEDAY * 365 = 404420 blocks
    MAX_MONEY           \* amount.h: no amount larger than this is valid

ASSUME /\ WORD_BITS \in Nat \ {0}
       /\ RATE_SCALE_BITS \in 0..(WORD_BITS - 1)
       /\ RATE_SHIFT \in Nat \ {0}
       /\ MAXINTERESTPERIOD \in Nat
       /\ MAX_MONEY \in 0..(2^(WORD_BITS - 1) - 1)

Word == 2^WORD_BITS

\* Reinterpreting a 64-bit pattern: int64 -> uint64 (implicit conversion
\* to the uint64_t argument of arith_uint256) and uint64 -> int64 (the
\* return value of a CAmount function).
ToUnsigned(x) == x % Word
ToSigned(x) == IF ToUnsigned(x) >= Word \div 2 THEN ToUnsigned(x) - Word ELSE ToUnsigned(x)

\* amount.h MoneyRange
MoneyRange(nValue) == nValue >= 0 /\ nValue <= MAX_MONEY

\* initRateTable: rateTable[0] = 1 << 62, then
\* rateTable[i] = rateTable[i-1] + (rateTable[i-1] >> 22) in uint64_t.
\* The textual dump it returns (hashed at startup) is not modelled.
rateTable[i \in 0..MAXINTERESTPERIOD] ==
    IF i = 0 THEN ToUnsigned(2^RATE_SCALE_BITS)
    ELSE ToUnsigned(rateTable[i - 1] + shiftR(rateTable[i - 1], RATE_SHIFT))

\* Mutant: the product taken in 64 bits instead of arith_uint256.
getRateForAmount_mul64(periods, theAmount) ==
    LET product == ToUnsigned(ToUnsigned(theAmount) * rateTable[periods])
    IN  ToSigned(ToUnsigned(product \div rateTable[0]) - theAmount)

\* getRateForAmount: (amount * rateTable[periods]) / rateTable[0] in
\* arith_uint256 (both factors are below 2^64, so the product never wraps
\* 256 bits), GetLow64() of the quotient, minus the amount in 64 bits.
getRateForAmount(periods, theAmount) ==
    LET product == ToUnsigned(theAmount) * rateTable[periods]
        result  == product \div rateTable[0]
    IN  ToSigned(ToUnsigned(result) - theAmount)

\* GetInterest: the defensive early return, the clamp of the elapsed
\* blocks to MAXINTERESTPERIOD, and the int64 sum.
GetInterest(nValue, outputBlockHeight, valuationHeight) ==
    IF \/ outputBlockHeight < 0
       \/ valuationHeight < 0
       \/ valuationHeight < outputBlockHeight
    THEN nValue
    ELSE LET blocks == IF MAXINTERESTPERIOD < valuationHeight - outputBlockHeight
                       THEN MAXINTERESTPERIOD
                       ELSE valuationHeight - outputBlockHeight
         IN  ToSigned(nValue + getRateForAmount(blocks, nValue))

\* CTxOut::GetValueWithInterest
GetValueWithInterest(txout, outputBlockHeight, valuationHeight) ==
    GetInterest(txout.nValue, outputBlockHeight, valuationHeight)

-----------------------------------------------------------------------------
(***************************************************************************)
(* Reference definitions: the valuation as the specification states it    *)
(* (section 4.3), in unbounded integers with no word width anywhere.      *)
(***************************************************************************)
RefRate[i \in 0..MAXINTERESTPERIOD] ==
    IF i = 0 THEN 2^RATE_SCALE_BITS
    ELSE RefRate[i - 1] + RefRate[i - 1] \div 2^RATE_SHIFT

RefPeriods(hc, hv) ==
    IF hv - hc < 0 THEN 0
    ELSE IF hv - hc > MAXINTERESTPERIOD THEN MAXINTERESTPERIOD ELSE hv - hc

RefEffectiveValue(v, hc, hv) ==
    IF hc < 0 \/ hv < 0 \/ hv < hc THEN v
    ELSE (v * RefRate[RefPeriods(hc, hv)]) \div RefRate[0]
=============================================================================
