\* Scaled word arithmetic: 16-bit words, table scale 1 << 14 (two bits of
\* headroom, as 1 << 62 in 64 bits), rate 1 + 2^-5 per block over a cap of
\* 3 blocks (table growth ~9.7%, as ~10.1% over 404420 blocks), and
\* MAX_MONEY = 362 ~ 2^-7.5 of the word (1e17 ~ 2^-7.47 of 2^64).
CONSTANTS
    WORD_BITS = 16
    RATE_SCALE_BITS = 14
    RATE_SHIFT = 5
    MAXINTERESTPERIOD = 3
    MAX_MONEY = 362
    MaxHeight = 5

SPECIFICATION Spec

INVARIANT ValuationMatchesReference
