\* Interest: the scaled word arithmetic of MCInterest.cfg (16-bit words,
\* scale 1 << 14, rate 1 + 2^-5 per block, a cap of 3 blocks).
\* Block: 24-bit targets (3 bytes, so the overflow limits are sizes 3, 4
\* and 5 as 32, 33 and 34 for 32 bytes), int of 26 bits and uint64_t of 30
\* bits, wide enough for every height of the segments.
CONSTANTS
    WORD_BITS = 16
    RATE_SCALE_BITS = 14
    RATE_SHIFT = 5
    MAXINTERESTPERIOD = 3
    MAX_MONEY = 362
    TARGET_BYTES = 3
    INT_BITS = 26
    U64_BITS = 30
    ONE_MEGABYTE = 1000000
    MAX_BLOCK_SIGOPS_PER_MB = 20000
    BaseHeights <- MCBaseHeights
    Span = 5
    Templates <- MCTemplates

SPECIFICATION Spec

INVARIANT ValuationMatchesReference
INVARIANT CoinbaseHeightMatchesTip
INVARIANT WorkMatchesReference
INVARIANT SigOpsLimitMatchesReference
INVARIANT ValueOutMatchesReference
INVARIANT PatternSearchWorkers
INVARIANT ModifiedSizeDiscountsInputs
INVARIANT HasDataMatchesReference
INVARIANT VersionKnownIsBIP9
