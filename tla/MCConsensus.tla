---------------------------- MODULE MCConsensus -----------------------------
(***************************************************************************)
(* The consensus arithmetic of the active tip, composed: the tip block at *)
(* height tip (its coinbase scriptSig is CScript() << nHeight << OP_0, as  *)
(* miner.cpp makes it), its difficulty bits and size, the value out of    *)
(* the one transaction it carries besides the coinbase, and the           *)
(* valuation at the tip of every output of the UTXO set within the chain  *)
(* segment.  The tip moves up (a block is connected) and down (one is     *)
(* disconnected in a reorg, below an output's own height too).            *)
(*                                                                         *)
(* Segments start at the heights where the coinbase height encoding       *)
(* changes: OP_N to a push at 17, one byte to two at 128 (the sign pad)   *)
(* and 256, two to three at 32768, three to four at 2^23.                 *)
(***************************************************************************)
EXTENDS Interest, Transaction, Block
LOCAL INSTANCE Functions

CONSTANTS
    BaseHeights,  \* first heights of the chain segments
    Span,         \* blocks in a segment after its first
    Templates     \* [bits, size, vout, nThreads, nResults, sigs, txSize,
                  \* prioritySize] a block can have: its nBits, serialized
                  \* size, the output values of its second transaction, the
                  \* thread count the miner gave FindBestPatternHash and the
                  \* candidates pattern_search found; the scriptSig sizes of
                  \* the second transaction's inputs, its serialized size,
                  \* and the size a caller passes CalculateModifiedSize;
                  \* versionArgs: the nVersion and voteBits a caller asks
                  \* VersionKnown about

VARIABLES base, tip, block
vars == <<base, tip, block>>

\* The block at height h: version BASE_VERSION, a coinbase whose scriptSig
\* pushes the height, a second transaction, and no size cached yet.
\* The header's Hash: a fixed value below the sentinel.
MidHash == 5

Mine(h, t) ==
    [nVersion |-> BASE_VERSION, nBits |-> t.bits, nBlockSize |-> 0,
     serializedSize |-> t.size, midHash |-> MidHash,
     mined |-> [nThreads |-> t.nThreads, nResults |-> t.nResults],
     prioritySize |-> t.prioritySize, versionArgs |-> t.versionArgs,
     vtx |-> <<[vin |-> <<[scriptSig |-> PushInt64(h) \o <<OP_0>>]>>, vout |-> <<>>],
               [vin |-> [i \in DOMAIN t.sigs |-> [scriptSig |-> [j \in 1..t.sigs[i] |-> OP_0]]],
                vout |-> t.vout, nTxSize |-> 0, serializedSize |-> t.txSize]>>]

Init == /\ base \in BaseHeights
        /\ tip = base
        /\ \E t \in Templates : block = Mine(base, t)

ConnectTip == /\ tip < base + Span
              /\ tip' = tip + 1
              /\ \E t \in Templates : block' = Mine(tip + 1, t)
              /\ UNCHANGED base

DisconnectTip == /\ tip > base
                 /\ tip' = tip - 1
                 /\ \E t \in Templates : block' = Mine(tip - 1, t)
                 /\ UNCHANGED base

Next == ConnectTip \/ DisconnectTip

Spec == Init /\ [][Next]_vars

\* The values the cfg gives the constants.  A compact nBits is built from
\* its size byte, sign bit and 23-bit mantissa; the ones below reach every
\* branch of SetCompact: a right shift (sizes 1, 2) to zero or not, the
\* sign bit with a zero and a non-zero word, the largest target, and each
\* of the three overflow conditions at and just past its limit.
MCBaseHeights == {0, 14, 126, 254, 32766, 8388606}
Compact(size, neg, word) == size * 2^24 + (IF neg THEN 2^23 ELSE 0) + word
MCBitsArgs == {Compact(0, FALSE, 0), Compact(1, FALSE, 1193046),
               Compact(1, TRUE, 256), Compact(2, FALSE, 1193046),
               Compact(3, FALSE, 8388607), Compact(3, TRUE, 1),
               Compact(3, TRUE, 0), Compact(4, FALSE, 1),
               Compact(4, FALSE, 65535), Compact(4, FALSE, 65536),
               Compact(5, FALSE, 255), Compact(5, FALSE, 256),
               Compact(6, FALSE, 1)}
MCSizeArgs == {81, 1000000, 1000001}

\* Output values at the edges of MoneyRange and of int64, negative ones
\* included, and every list of up to two of them: enough for an output
\* out of range, a total out of range, an overflowing addition and a
\* negative output that brings the total back into range.
ValueArgs == {-1, 0, 1, MAX_MONEY, MAX_MONEY + 1, Word \div 2 - 1}
Vouts == {[i \in DOMAIN v |-> [nValue |-> v[i], scriptPubKey |-> <<>>]] :
              v \in UNION {[1..n -> ValueArgs] : n \in 0..2}}

\* Scripts around the data-output layout OP_RETURN, 4, id (little-endian):
\* the id 0x01020304 in either byte order, one byte short, one byte more,
\* a 5-byte push opcode, OP_RETURN alone, the same bytes after OP_DUP, and
\* an empty script; one data output of each, and two outputs where only
\* the second matches.
DataIDs == {0, 16909060, 67305985}
IdLE == <<4, 3, 2, 1>>
Scripts == {<<OP_RETURN, 4>> \o IdLE, <<OP_RETURN, 4, 1, 2, 3, 4>>, <<OP_RETURN, 4, 4, 3, 2>>,
            <<OP_RETURN, 4>> \o IdLE \o <<7>>, <<OP_RETURN, 5>> \o IdLE, <<OP_RETURN>>,
            <<118, 4>> \o IdLE, <<>>}
DataOut(spk) == [nValue |-> 0, scriptPubKey |-> spk]
DataVouts == {<<DataOut(spk)>> : spk \in Scripts} \cup
             {<<DataOut(<<OP_RETURN, 4, 4, 3, 2>>), DataOut(<<OP_RETURN, 4>> \o IdLE)>>,
              <<DataOut(<<118, 4>> \o IdLE), DataOut(<<OP_RETURN, 4, 1, 2, 3, 4>>)>>}

\* Every nBits with every size, and every list of output values; the
\* three are independent, so their product is not needed.
\* Thread counts: negative, zero, around small powers of two, and up to
\* 2^(INT_BITS - 2), the largest whose rounding fits in int.
ThreadArgs == {-1, 0, 1, 2, 3, 4, 5, 2^23 + 1, 2^24}

\* Every nBits with every size, every list of output values, and every
\* thread count with and without candidates; they are inputs of
\* independent functions, so their product is not needed.
Plain(b, s, v, n, r) == [bits |-> b, size |-> s, vout |-> v, nThreads |-> n, nResults |-> r,
                         sigs |-> <<>>, txSize |-> 60, prioritySize |-> 0,
                         versionArgs |-> [nVersion |-> BASE_VERSION, voteBits |-> 0]]

\* scriptSig sizes below, at and above the 110 bytes counted, for none to
\* three inputs in either order; sizes passed from 0 (use the
\* transaction's own) through values at the edges of one input's
\* overhead (41, 151) and of all of them (192, 303).
SigArgs == {<<>>, <<0>>, <<110>>, <<111>>, <<0, 111>>, <<111, 0>>, <<111, 111, 0>>}
PrioritySizeArgs == {0, 1, 41, 42, 152, 193, 303, 304}
Sized(sigs, p) == [Plain(Compact(3, FALSE, 1), 81, <<>>, 1, 1) EXCEPT
                   !.sigs = sigs, !.prioritySize = p, !.txSize = 200]
\* Versions at the edges of 1..4, with the mask bit alone, with vote bits
\* below it, with the bits above it (011, 010) and with the sign bit
\* (101, 100, all ones); vote bits as BIP9 deployments use them, below the
\* mask bit.
VersionArgs == {-2^30 - 2^30, -2^30 - 2^30 + BIP_009_MASK, -1, 0, 1, 4, 5,
                BIP_009_MASK, BIP_009_MASK + 1, BIP_009_MASK + 2^28 + 3,
                2^30, 2^30 + BIP_009_MASK, (2^30 - 1) + 2^30}
VoteBitsArgs == {0, 1, 2^28 + 3}
Voted(v, b) == [Plain(Compact(3, FALSE, 1), 81, <<>>, 1, 1) EXCEPT
                !.versionArgs = [nVersion |-> v, voteBits |-> b]]
MCTemplates ==
    {Plain(b, s, <<>>, 1, 1) : b \in MCBitsArgs, s \in MCSizeArgs} \cup
    {Plain(Compact(3, FALSE, 1), 81, v, 1, 1) : v \in Vouts \cup DataVouts} \cup
    {Plain(Compact(3, FALSE, 1), 81, <<>>, n, r) : n \in ThreadArgs, r \in {0, 2}} \cup
    {Sized(sigs, p) : sigs \in SigArgs, p \in PrioritySizeArgs} \cup
    {Voted(v, b) : v \in VersionArgs, b \in VoteBitsArgs}

\* Every output of the segment, of every face value in MoneyRange.
Coins == [nValue : 0..MAX_MONEY, nHeight : base..(base + Span)]

-----------------------------------------------------------------------------
(* Reference for VersionKnown, from BIP9 (the "BIP009 / versionbits"     *)
(* comment of block.h): a version of 1 to 4, or one whose top three bits *)
(* are 001 and whose other set bits are all vote bits.                    *)
BitOf(x, k) == (x \div 2^k) % 2
RefVersionKnown(nVersion, voteBits) ==
    \/ nVersion \in 1..4
    \/ /\ nVersion \div BIP_009_MASK = 1
       /\ \A k \in 0..28 : BitOf(nVersion, k) = 1 => BitOf(voteBits, k) = 1

-----------------------------------------------------------------------------
(* Reference definitions, from the specification (sections 3 and 4.1):    *)
(* the compact target in exact arithmetic, invalid when negative, zero or *)
(* not below 2^256, and work(bits) = floor(2^256 / (target + 1)).         *)
RefSize(n) == n \div 2^24
RefMantissa(n) == n % 2^23
RefFits(n) == RefSize(n) <= 3 \/ RefMantissa(n) < 2^(TargetBits - 8 * (RefSize(n) - 3))
RefTarget(n) == IF RefSize(n) <= 3 THEN RefMantissa(n) \div 256^(3 - RefSize(n))
                ELSE RefMantissa(n) * 256^(RefSize(n) - 3)
RefWork(n) ==
    IF RefFits(n) /\ RefTarget(n) # 0 /\ (n \div 2^23) % 2 = 0
    THEN 2^TargetBits \div (RefTarget(n) + 1) ELSE 0

\* The value out of a transaction: the sum of its outputs, which is valid
\* when every output and the sum are in MoneyRange.
RECURSIVE RefSum(_)
RefSum(s) == IF s = <<>> THEN 0 ELSE Head(s).nValue + RefSum(Tail(s))
RefValueOut(vout) ==
    IF (\A i \in 1..Len(vout) : MoneyRange(vout[i].nValue)) /\ RefSum(vout) <= MAX_MONEY
    THEN [ok |-> TRUE, value |-> RefSum(vout)] ELSE OutOfRange

\* The bytes the comment of CalculateModifiedSize says are not counted:
\* 41 and up to 110 of the scriptSig, for every input.
RefUncounted(tx) == FoldFunction(LAMBDA txin, acc : acc + InputOffset(txin), 0, tx.vin)

\* A data output for dataID: a script of at least six bytes that begins
\* OP_RETURN, a 4-byte push, and the id's bytes in little-endian order.
LE32Bytes(id) == [k \in 1..4 |-> (id \div 256^(k - 1)) % 256]
RefHasData(tx, id) ==
    \E i \in DOMAIN tx.vout :
        LET spk == tx.vout[i].scriptPubKey
        IN  Len(spk) >= 6 /\ SubSeq(spk, 1, 6) = <<OP_RETURN, 4>> \o LE32Bytes(id)

\* The sigops allowance: MAX_BLOCK_SIGOPS_PER_MB per started megabyte.
RefSigOps(size) == ((size + ONE_MEGABYTE - 1) \div ONE_MEGABYTE) * MAX_BLOCK_SIGOPS_PER_MB

-----------------------------------------------------------------------------
(* GetInterest in 64-bit words (uint64 rate table, 256-bit product,       *)
(* GetLow64, int64 subtraction and sum) values every output of the        *)
(* segment at the tip as section 4.3 does in exact arithmetic, whether    *)
(* the tip is above, at or (after a reorg) below the output's height.     *)
ValuationMatchesReference ==
    \A c \in Coins :
        GetValueWithInterest(c, c.nHeight, tip) = RefEffectiveValue(c.nValue, c.nHeight, tip)

(* CBlock::GetHeight reads back from the coinbase the height the miner    *)
(* pushed, across every change of the push's encoding (OP_N, one to four  *)
(* bytes, the sign pad), through the int and uint64_t conversions.        *)
CoinbaseHeightMatchesTip == GetHeight(block) = tip

(* GetWorkForDifficultyBits, computed as ~target / (target + 1) + 1 in    *)
(* 256-bit words after SetCompact's negative and overflow flags, is the   *)
(* specification's floor(2^256 / (target + 1)), and 0 for every target   *)
(* the compact encoding marks invalid.                                    *)
WorkMatchesReference == GetWorkForDifficultyBits(block.nBits) = RefWork(block.nBits)

(* GetMaxBlockSigOpsCount of the tip block's size allows                 *)
(* MAX_BLOCK_SIGOPS_PER_MB for every started megabyte, at and just past   *)
(* a megabyte boundary included.                                          *)
SigOpsLimitMatchesReference ==
    GetMaxBlockSigOpsCount(GetBlockSize(block)) = RefSigOps(GetBlockSize(block))
(* CTransaction::GetValueOut, which adds each output to an int64 total    *)
(* before range-checking it and the total, returns the sum of the outputs *)
(* exactly when every output and the sum are in MoneyRange, and throws    *)
(* otherwise: for outputs of any int64 value, in any order, including     *)
(* those whose addition overflows.                                        *)
ValueOutMatchesReference ==
    GetValueOut(block.vtx[2].vout) = RefValueOut(block.vtx[2].vout)

(* Section 4.2 of the specification: "The number of workers must be a     *)
(* power of two; if zero is requested the search short-circuits to the    *)
(* worst-case sentinel".  FindBestPatternHash hands pattern_search the    *)
(* least power of two not below the thread count the miner asked for      *)
(* (one for a negative count), computed by doubling an int, and returns    *)
(* the sentinel without searching for zero threads.                       *)
PatternSearchWorkers ==
    LET n == block.mined.nThreads
        r == FindBestPatternHash(block.midHash, n, block.mined.nResults)
    IN IF n = 0 THEN r.hash = HashSentinel /\ r.workers = 0
       ELSE /\ r.workers \in {2^k : k \in 0..(INT_BITS - 2)}
            /\ r.workers >= n
            /\ n <= 1 \/ r.workers < 2 * n

(* CalculateModifiedSize, which takes each input's overhead off an       *)
(* unsigned size only while the size left exceeds it, never returns more  *)
(* than the size it started from (no wrap below zero), never returns 0    *)
(* for a non-zero size (ComputePriority's division is then defined), and *)
(* leaves exactly the size less all inputs' overhead when the size covers *)
(* it, whether the caller passes the size or 0 for the cached one.       *)
ModifiedSizeDiscountsInputs ==
    LET tx    == block.vtx[2]
        start == IF block.prioritySize = 0 THEN tx.serializedSize ELSE block.prioritySize
        m     == CalculateModifiedSize(tx, block.prioritySize)
    IN  /\ m <= start
        /\ start > 0 => m > 0
        /\ start > RefUncounted(tx) => m = start - RefUncounted(tx)

(* CTransaction::HasData(dataID), which checks the script's size, its    *)
(* OP_RETURN and its push opcode before reading the id with ReadLE32,     *)
(* finds exactly the outputs that carry dataID as a little-endian 4-byte  *)
(* push after OP_RETURN, in any output, and each is also a data output    *)
(* for HasData().                                                         *)
HasDataMatchesReference ==
    \A id \in DataIDs :
        /\ HasData(block.vtx[2], id) = RefHasData(block.vtx[2], id)
        /\ HasData(block.vtx[2], id) => HasAnyData(block.vtx[2])

(* CBlock::VersionKnown, which tests the one BIP_009_MASK bit and then    *)
(* the uint32_t conversion of nVersion & ~BIP_009_MASK against voteBits,   *)
(* accepts exactly the versions BIP9 does for vote bits below the mask:   *)
(* not those with bit 30 set (top bits 011) nor the negative int32_t ones *)
(* (sign bit set), whose high bits no deployment votes with.              *)
VersionKnownIsBIP9 ==
    VersionKnown(block.versionArgs.nVersion, block.versionArgs.voteBits) =
        RefVersionKnown(block.versionArgs.nVersion, block.versionArgs.voteBits)

=============================================================================
