------------------------------- MODULE Block --------------------------------
(***************************************************************************)
(* Block headers and blocks, src/src/primitives/block.h and block.cpp:    *)
(* the coinbase height a block carries (CBlock::GetHeight), the work of    *)
(* its difficulty bits (GetWorkForDifficultyBits) and, from               *)
(* consensus/consensus.h, the sigops limit of its size.                   *)
(*                                                                         *)
(* Integer widths are CONSTANTS so that TLC's integers can hold them:     *)
(* TARGET_BYTES for the 256-bit arith_uint256 (32 bytes), INT_BITS for    *)
(* int and U64_BITS for uint64_t.  The 32-bit compact nBits keeps its     *)
(* layout: a size byte, a sign bit and a 23-bit mantissa.  Hashes are not *)
(* computed: nothing checked here depends on their value.                 *)
(***************************************************************************)
EXTENDS Integers, Sequences
LOCAL INSTANCE Bitwise

CONSTANTS
    TARGET_BYTES,             \* 32: bytes of arith_uint256
    INT_BITS,                 \* 32: width of int (CScriptNum::getint)
    U64_BITS,                 \* 64: width of uint64_t
    ONE_MEGABYTE,             \* consensus.h: 1000000
    MAX_BLOCK_SIGOPS_PER_MB   \* consensus.h: 20000

TargetBits == 8 * TARGET_BYTES
U64 == 2^U64_BITS
INT_MAX == 2^(INT_BITS - 1) - 1
INT_MIN == -(2^(INT_BITS - 1))

\* Opcodes of script/script.h.
OP_0 == 0
OP_1 == 81
OP_16 == 96

BASE_VERSION == 536870912     \* 0x20000000

\* arith_uint256 <<= s: the bits shifted past the top are lost.
ShiftLeftW(x, s) == IF s >= TargetBits THEN 0
                    ELSE (x % 2^(TargetBits - s)) * 2^s

-----------------------------------------------------------------------------
(* arith_uint256::SetCompact (arith_uint256.cpp, outside src/): the size  *)
(* byte, the 23-bit word shifted right for a size below 3 and left above, *)
(* and the negative and overflow flags computed from the shifted word.    *)
SetCompact(nCompact) ==
    LET nSize == nCompact \div 2^24
        raw   == nCompact % 2^23
        nWord == IF nSize <= 3 THEN raw \div 2^(8 * (3 - nSize)) ELSE raw
    IN [target   |-> IF nSize <= 3 THEN nWord ELSE ShiftLeftW(nWord, 8 * (nSize - 3)),
        negative |-> nWord # 0 /\ (nCompact \div 2^23) % 2 = 1,
        overflow |-> nWord # 0 /\ \/ nSize > TARGET_BYTES + 2
                                  \/ nWord > 255 /\ nSize > TARGET_BYTES + 1
                                  \/ nWord > 65535 /\ nSize > TARGET_BYTES]

\* Mutant: the final + 1 of the work formula dropped.
GetWorkForDifficultyBits_noInc(nBits) ==
    LET c == SetCompact(nBits)
    IN IF c.negative \/ c.overflow \/ c.target = 0 THEN 0
       ELSE ((2^TargetBits - 1 - c.target) \div ((c.target + 1) % 2^TargetBits))
              % 2^TargetBits

\* GetWorkForDifficultyBits: invalid targets have no work; otherwise
\* ~bnTarget / (bnTarget + 1) + 1 in 256-bit arithmetic.
GetWorkForDifficultyBits(nBits) ==
    LET c == SetCompact(nBits)
    IN IF c.negative \/ c.overflow \/ c.target = 0 THEN 0
       ELSE ((2^TargetBits - 1 - c.target) \div ((c.target + 1) % 2^TargetBits) + 1)
              % 2^TargetBits

-----------------------------------------------------------------------------
(* CScriptNum::serialize and CScript::push_int64 (script/script.h,        *)
(* outside src/): -1 and 1..16 are the opcodes OP_1NEGATE and OP_N, 0 is   *)
(* OP_0, any other number a push of its minimal little-endian             *)
(* sign-and-magnitude bytes (a 0x00 byte added when the top bit is set).  *)
RECURSIVE MagnitudeBytes(_)
MagnitudeBytes(n) == IF n = 0 THEN <<>> ELSE <<n % 256>> \o MagnitudeBytes(n \div 256)

ScriptNumSerialize(n) ==
    LET mag == MagnitudeBytes(IF n < 0 THEN -n ELSE n)
        top == mag[Len(mag)]
    IN IF n = 0 THEN <<>>
       ELSE IF top >= 128 THEN Append(mag, IF n < 0 THEN 128 ELSE 0)
       ELSE IF n < 0 THEN [mag EXCEPT ![Len(mag)] = top + 128]
       ELSE mag

PushInt64(n) ==
    IF n = -1 \/ n \in 1..16 THEN <<n + (OP_1 - 1)>>
    ELSE IF n = 0 THEN <<OP_0>>
    ELSE LET v == ScriptNumSerialize(n) IN <<Len(v)>> \o v

\* CScriptNum(vch, false, nMaxNumSize).getint(): set_vch's little-endian
\* value, negative when the top bit of the last byte is set, clamped to int.
ScriptNumGetInt(vch) ==
    LET RECURSIVE LE(_)
        LE(s) == IF s = <<>> THEN 0 ELSE Head(s) + 256 * LE(Tail(s))
        v   == IF vch = <<>> THEN 0
               ELSE IF vch[Len(vch)] >= 128
                    THEN -(LE(vch) - 128 * 256^(Len(vch) - 1))
                    ELSE LE(vch)
    IN IF v > INT_MAX THEN INT_MAX ELSE IF v < INT_MIN THEN INT_MIN ELSE v

-----------------------------------------------------------------------------
(* CBlockHeader::FindBestPatternHash.  pattern_search (outside src/) is   *)
(* abstracted to the number of candidates it returns; Hash of the header  *)
(* is its midHash, a number below 2^TargetBits.                           *)

\* uint256S("0xff..ff"): the worst hash, returned when nothing is found.
HashSentinel == 2^TargetBits - 1

\* A signed int result as the build computes it: it wraps.
IntWrap(x) == ((x - INT_MIN) % 2^INT_BITS) + INT_MIN

\* The rounding loop does not end.
Hangs == "never returns"

\* collisions, an int& out-parameter, keeps the caller's value.
NoCollisions == "collisions unchanged"

\* Mutant: the loop doubles while newThreadNumber <= nThreads.
RoundThreads_le(nThreads) ==
    LET RECURSIVE Up(_, _)
        Up(t, k) == IF ~(t <= nThreads) THEN t ELSE IF k = 0 THEN Hangs
                    ELSE Up(IntWrap(2 * t), k - 1)
    IN Up(1, INT_BITS + 1)

\* newThreadNumber doubles in int from 1 while it is below nThreads.  A
\* doubling past INT_MAX wraps to INT_MIN and the next one to 0, which
\* stays below nThreads: after INT_BITS + 1 doublings the loop never ends.
RoundThreads(nThreads) ==
    LET RECURSIVE Up(_, _)
        Up(t, k) == IF ~(t < nThreads) THEN t ELSE IF k = 0 THEN Hangs
                    ELSE Up(IntWrap(2 * t), k - 1)
    IN Up(1, INT_BITS + 1)

\* nThreads = 0 returns the sentinel, collisions untouched (NoCollisions).
\* Otherwise pattern_search runs on the rounded thread count and returns
\* nResults candidates; collisions is their number.  Each candidate is
\* hashed as Hash(BEGIN(nVersion), END(nNonce)), which is the same
\* midHash for every candidate (the lines that would store the candidate
\* in nStartLocation and nFinalCalculation are commented out), and a hash
\* below the smallest so far replaces it.
FindBestPatternHash(midHash, nThreads, nResults) ==
    LET workers == RoundThreads(nThreads)
        RECURSIVE Best(_, _)
        Best(smallest, i) == IF i > nResults THEN smallest
                             ELSE Best(IF midHash < smallest THEN midHash ELSE smallest, i + 1)
    IN CASE nThreads = 0   -> [hash |-> HashSentinel, workers |-> 0, collisions |-> NoCollisions]
         [] workers \notin Int -> [hash |-> Hangs, workers |-> Hangs, collisions |-> NoCollisions]
         [] OTHER          -> [hash |-> Best(HashSentinel, 1), workers |-> workers,
                               collisions |-> nResults]

-----------------------------------------------------------------------------
NoHeight == "Block does not contain height"
InvalidHeight == "Invalid block height"

\* Mutant: OP_N decoded as N - 1.
GetHeight_opNoffByOne(block) ==
    LET sig    == block.vtx[1].vin[1].scriptSig
        numlen == sig[1]
    IN IF block.nVersion < 2 THEN NoHeight
       ELSE IF numlen = OP_0 THEN 0
       ELSE IF numlen >= OP_1 /\ numlen <= OP_16 THEN numlen - OP_1
       ELSE IF Len(sig) - 1 < numlen THEN InvalidHeight
       ELSE ScriptNumGetInt(SubSeq(sig, 2, numlen + 1)) % U64

\* CBlock::GetHeight: the height the coinbase scriptSig pushes first, read
\* with numlen = sig[0] taken as an opcode or a length; a throw is one of
\* the two error values.  The int of getint() returns as uint64_t.
GetHeight(block) ==
    LET sig    == block.vtx[1].vin[1].scriptSig
        numlen == sig[1]
    IN IF block.nVersion < 2 THEN NoHeight
       ELSE IF numlen = OP_0 THEN 0
       ELSE IF numlen >= OP_1 /\ numlen <= OP_16 THEN numlen - OP_1 + 1
       ELSE IF Len(sig) - 1 < numlen THEN InvalidHeight
       ELSE ScriptNumGetInt(SubSeq(sig, 2, numlen + 1)) % U64

-----------------------------------------------------------------------------
\* Mutant: the size rounded down to whole megabytes.
GetMaxBlockSigOpsCount_floor(nBlockSize) ==
    ((((nBlockSize - 1) % U64) \div ONE_MEGABYTE) * MAX_BLOCK_SIGOPS_PER_MB) % U64

\* consensus.h GetMaxBlockSigOpsCount: the size in megabytes rounded up,
\* in uint64_t, times the sigops allowed per megabyte.
GetMaxBlockSigOpsCount(nBlockSize) ==
    ((1 + ((nBlockSize - 1) % U64) \div ONE_MEGABYTE) * MAX_BLOCK_SIGOPS_PER_MB) % U64

\* CBlock::GetBlockSize: the serialized size, computed once and cached in
\* nBlockSize (0 meaning not computed yet).
GetBlockSize(block) == IF block.nBlockSize = 0 THEN block.serializedSize
                       ELSE block.nBlockSize
-----------------------------------------------------------------------------
(* CBlock::VersionKnown, in its full int32_t width: a version of 1 to 4,  *)
(* or one with the BIP_009_MASK bit set whose other bits, as the uint32_t  *)
(* nVersion & ~BIP_009_MASK, are all among voteBits.  The & of the code   *)
(* converts both int32_t values to uint32_t; TLC's integers hold 31 bits  *)
(* and a sign, so the sign bit (bit 31) is kept apart from the low bits.  *)

BIP_009_MASK == 536870912     \* 0x20000000, block.h:18

\* The low 31 bits of an int32_t as its uint32_t conversion has them.
Low31(x) == IF x < 0 THEN (x + 2^30) + 2^30 ELSE x

\* Mutant: the sign bit of nVersion lost (v taken as a 31-bit value).
VersionKnown_noSign(nVersion, voteBits) ==
    \/ nVersion >= 1 /\ nVersion <= 4
    \/ LET v == Low31(nVersion) - BIP_009_MASK
       IN /\ (Low31(nVersion) & BIP_009_MASK) # 0
          /\ (v & Low31(voteBits)) = v

VersionKnown(nVersion, voteBits) ==
    \/ nVersion >= 1 /\ nVersion <= 4
    \/ LET v == Low31(nVersion) - BIP_009_MASK   \* low bits of nVersion & ~BIP_009_MASK
       IN /\ (Low31(nVersion) & BIP_009_MASK) # 0
          /\ (v & Low31(voteBits)) = v         \* (v & ~voteBits) == 0 below bit 31
          /\ nVersion < 0 => voteBits < 0      \* and at bit 31
=============================================================================
