\* One wait iteration before the queues are cleared (120 in the code),
\* two queued transactions, block files 0..2 in any combination (a gap
\* after blk00000, blk00000 missing, all there) and -prune on or off.
CONSTANTS
    MAX_WAIT_ITERATIONS = 1
    MaxQueue = 2
    BlockFiles = 3

SPECIFICATION Spec

INVARIANT LoadRetriedAtMostOnce
INVARIANT ShutdownQuiescent
INVARIANT MempoolDumpedOnlyIfLoaded
INVARIANT PrunedReindexKeepsContiguousFiles
PROPERTY InitCompletesOnceQuiet
PROPERTY LifecycleRefined
