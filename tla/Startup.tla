------------------------------ MODULE Startup ------------------------------
(***************************************************************************)
(* Node startup and shutdown of src/unnamed/part_001 (init.cpp): the main  *)
(* thread running AppInit2 (steps 1-5 with their InitError returns, the   *)
(* data directory lock and the pid file; from step 6 the block index load *)
(* with one offer to rebuild it), the import thread ThreadImport it       *)
(* spawns, the handshake between them (fAppInit2), the mempool reload     *)
(* with its bounded wait on the admission queues, Interrupt() and       *)
(* Shutdown().                                                           *)
(*                                                                        *)
(* The environment: a shutdown request (SIGTERM, StartShutdown) may come  *)
(* at any time; peers may enqueue transactions once the node is started;  *)
(* the admission threads drain the queues while they run.  The caller of *)
(* AppInit2 (bitcoind's AppInit, not under src/) is modelled after the    *)
(* quiescence rule of the specification (section 4.8): on failure or on a *)
(* shutdown request it interrupts the threads, joins them, then calls     *)
(* Shutdown().                                                            *)
(***************************************************************************)
EXTENDS Integers, FiniteSets
LOCAL INSTANCE SequencesExt

CONSTANTS
    MAX_WAIT_ITERATIONS,  \* 120: mempool-load wait iterations before clearing
    MaxQueue,             \* bound on transactions waiting in txInQ/txDeferQ/txCommitQ
    BlockFiles            \* blk?????.dat indices 0..BlockFiles-1 a data directory may hold

ASSUME MAX_WAIT_ITERATIONS \in Nat /\ MaxQueue \in Nat \ {0} /\ BlockFiles \in Nat

VARIABLES
    args,              \* command line: -reindex, -persistmempool, -stopafterblockimport,
                       \* -prune; and whether another process holds the data directory's .lock
    pidFile,           \* the pid file: "none", "other" (the other process's) or "ours"
    mainPc,            \* where the main thread is in AppInit2 / its caller
    importPc,          \* where the import thread is in ThreadImport
    fRequestShutdown,  \* set by HandleSIGTERM / StartShutdown
    fReindex,
    fReset,            \* AppInit2: fReindex as it was when this load attempt began
    loadAttempts,      \* history: load attempts of the block index
    fAppInit2,         \* AppInit2 has returned true
    nodeStarted,       \* StartNode() called and not yet StopNode()
    admissionRunning,  \* tx admission threads running
    pvRunning,         \* parallel block validation threads running
    interruptRequested,\* threadGroup.interrupt_all() called
    nFile,             \* the reindex loop's next block file index
    blkFiles,          \* indices of the blk?????.dat files in the blocks directory
    removedBlk,        \* history: blk files CleanupBlockRevFiles removed
    txQueue,           \* transactions in the admission queues
    nIterations,       \* ThreadImport's wait counter (capped one above the bound)
    mempoolLoad,       \* "none", "partial" or "complete"
    fDumpMempoolLater,
    mempoolDumped,     \* DumpMempool() ran in Shutdown
    warmupFinished,    \* SetRPCWarmupFinished()
    coins              \* pcoinsTip: "open", "flushed" or "deleted"

vars == <<args, pidFile, mainPc, importPc, fRequestShutdown, fReindex, fReset,
          loadAttempts, fAppInit2, nodeStarted, admissionRunning, pvRunning,
          interruptRequested, nFile, blkFiles, removedBlk, txQueue, nIterations, mempoolLoad,
          fDumpMempoolLater, mempoolDumped, warmupFinished, coins>>

disk       == <<blkFiles, removedBlk>>
mainVars   == <<pidFile, mainPc, fReset, loadAttempts, fAppInit2, nodeStarted, disk>>
importVars == <<importPc, nFile, nIterations, mempoolLoad,
                fDumpMempoolLater, warmupFinished>>

\* Import-thread states that are MilliSleep calls (boost interruption points).
SleepPoints == {"start", "waitInit", "mempoolSleep"}
ImportFinished == importPc \in {"notStarted", "done"}

Init ==
    /\ args \in [reindex : BOOLEAN, persistmempool : BOOLEAN,
                 stopafterblockimport : BOOLEAN, prune : BOOLEAN, datadirInUse : BOOLEAN]
    /\ pidFile = IF args.datadirInUse THEN "other" ELSE "none"
    /\ mainPc = "setup"
    /\ importPc = "notStarted"
    /\ fRequestShutdown = FALSE
    /\ fReindex = args.reindex
    /\ fReset = args.reindex
    /\ loadAttempts = 0
    /\ fAppInit2 = FALSE
    /\ nodeStarted = FALSE
    /\ admissionRunning = FALSE
    /\ pvRunning = FALSE
    /\ interruptRequested = FALSE
    /\ nFile = 0
    /\ blkFiles \in SUBSET (0..(BlockFiles - 1))
    /\ removedBlk = {}
    /\ txQueue = 0
    /\ nIterations = 0
    /\ mempoolLoad = "none"
    /\ fDumpMempoolLater = FALSE
    /\ mempoolDumped = FALSE
    /\ warmupFinished = FALSE
    /\ coins = "open"

-----------------------------------------------------------------------------
(* Environment *)

\* HandleSIGTERM / StartShutdown (also the "stop" RPC, encryptwallet).
StartShutdown ==
    /\ mainPc # "exited"
    /\ ~fRequestShutdown
    /\ fRequestShutdown' = TRUE
    /\ UNCHANGED <<args, mainVars, importVars, fReindex, admissionRunning,
                   pvRunning, interruptRequested, txQueue, mempoolDumped, coins>>

\* A peer relays a transaction into txInQ.
TxArrives ==
    /\ nodeStarted
    /\ txQueue < MaxQueue
    /\ txQueue' = txQueue + 1
    /\ UNCHANGED <<args, mainVars, importVars, fRequestShutdown, fReindex,
                   admissionRunning, pvRunning, interruptRequested,
                   mempoolDumped, coins>>

\* An admission thread takes a transaction through to the mempool.
TxAdmitted ==
    /\ admissionRunning
    /\ txQueue > 0
    /\ txQueue' = txQueue - 1
    /\ UNCHANGED <<args, mainVars, importVars, fRequestShutdown, fReindex,
                   admissionRunning, pvRunning, interruptRequested,
                   mempoolDumped, coins>>

-----------------------------------------------------------------------------
(* Main thread: AppInit2 steps 1-5 *)

\* Step 1 (networking, -sysperms, the signal handlers) and step 2 (the
\* -prune combinations, file descriptors, connection limits): a
\* configuration that fails any check returns InitError.
AppInitSetup ==
    /\ mainPc = "setup"
    /\ mainPc' \in {"returnFalse", "flags"}
    /\ UNCHANGED <<args, disk, importVars, fRequestShutdown, fReindex, fReset, pidFile,
                   loadAttempts, fAppInit2, nodeStarted, admissionRunning,
                   pvRunning, interruptRequested, txQueue, mempoolDumped, coins>>

\* Step 3: -maxmempool, -prune, -acceptnonstdtxn, the wallet's parameter
\* interaction and -xthinbloomfiltersize may each return InitError.
AppInitFlags ==
    /\ mainPc = "flags"
    /\ mainPc' \in {"returnFalse", "dataDir"}
    /\ UNCHANGED <<args, disk, importVars, fRequestShutdown, fReindex, fReset, pidFile,
                   loadAttempts, fAppInit2, nodeStarted, admissionRunning,
                   pvRunning, interruptRequested, txQueue, mempoolDumped, coins>>

\* Step 4 up to the pid file: InitSanityCheck, then the data directory's
\* .lock; when another process holds it, InitError ("probably already
\* running"); otherwise CreatePidFile writes our pid.
AppInitDataDir ==
    /\ mainPc = "dataDir"
    /\ \/ mainPc' = "returnFalse" /\ UNCHANGED pidFile
       \/ /\ args.datadirInUse
          /\ mainPc' = "returnFalse" /\ UNCHANGED pidFile
       \/ /\ ~args.datadirInUse
          /\ pidFile' = "ours" /\ mainPc' = "services"
    /\ UNCHANGED <<args, disk, importVars, fRequestShutdown, fReindex, fReset,
                   loadAttempts, fAppInit2, nodeStarted, admissionRunning,
                   pvRunning, interruptRequested, txQueue, mempoolDumped, coins>>

\* The rest of step 4 and step 5: the forks CSV file may return InitError;
\* the parallel validator is created; AppInitServers and the wallet
\* database check may then return false.
AppInitServices ==
    /\ mainPc = "services"
    /\ \/ mainPc' = "returnFalse" /\ UNCHANGED pvRunning
       \/ pvRunning' = TRUE /\ mainPc' \in {"returnFalse", "load"}
    /\ UNCHANGED <<args, disk, importVars, fRequestShutdown, fReindex, fReset, pidFile,
                   loadAttempts, fAppInit2, nodeStarted, admissionRunning,
                   interruptRequested, txQueue, mempoolDumped, coins>>

-----------------------------------------------------------------------------
(* Main thread: AppInit2 from step 6, then its caller *)

(***************************************************************************)
(* CleanupBlockRevFiles (-reindex with -prune): the rev files go at once; *)
(* the blk files are walked in the order of their five-digit index with a *)
(* counter, and every one after the first gap (all of them when blk00000 *)
(* is missing) is removed.  The undo files are rewritten by the reindex   *)
(* and are not modelled.                                                  *)
(***************************************************************************)

\* Mutant: the walk removes a file even when it extends the contiguous run.
CleanupBlockRevFiles_noContinue(files) ==
    LET Walk(acc, k) == IF k = acc.nContigCounter THEN [acc EXCEPT !.nContigCounter = @ + 1, !.kept = @ \ {k}]
                        ELSE [acc EXCEPT !.kept = @ \ {k}]
    IN  FoldLeft(Walk, [nContigCounter |-> 0, kept |-> files], SetToSortSeq(files, <)).kept

CleanupBlockRevFiles(files) ==
    LET Walk(acc, k) == IF k = acc.nContigCounter THEN [acc EXCEPT !.nContigCounter = @ + 1]
                        ELSE [acc EXCEPT !.kept = @ \ {k}]
    IN  FoldLeft(Walk, [nContigCounter |-> 0, kept |-> files], SetToSortSeq(files, <)).kept

\* "if (fReindex) ... if (fPruneMode) CleanupBlockRevFiles()" of a pass.
PruneCleanup ==
    IF fReindex /\ args.prune
    THEN /\ blkFiles' = CleanupBlockRevFiles(blkFiles)
         /\ removedBlk' = removedBlk \cup (blkFiles \ blkFiles')
    ELSE UNCHANGED disk

\* Where a pass fails: before the reindex branch (opening the block
\* storage or the UTXO views throws), or after it (the block index does
\* not load or verify); a pass that succeeds has been through it.
LoadOutcome ==
    \/ mainPc' = "loaded" /\ PruneCleanup
    \/ mainPc' = "loadFailed" /\ UNCHANGED disk
    \/ mainPc' = "loadFailed" /\ PruneCleanup

\* Mutant: fReset not taken from fReindex on each pass.
LoadBlockIndexAttempt_noLatch ==
    /\ mainPc = "load"
    /\ fReset' = FALSE
    /\ loadAttempts' = loadAttempts + 1
    /\ LoadOutcome
    /\ UNCHANGED <<args, pidFile, importVars, fRequestShutdown, fReindex, fAppInit2,
                   nodeStarted, admissionRunning, pvRunning,
                   interruptRequested, txQueue, mempoolDumped, coins>>

\* One pass of the load loop body: fReset latches fReindex, then the block
\* storage, UTXO views and block index are (re)opened and verified; any of
\* those steps may fail (or stop early on a shutdown request).  On success
\* chainActive has a tip (the code relies on it at 1451-1455).
LoadBlockIndexAttempt ==
    /\ mainPc = "load"
    /\ fReset' = fReindex
    /\ loadAttempts' = loadAttempts + 1
    /\ LoadOutcome
    /\ UNCHANGED <<args, pidFile, importVars, fRequestShutdown, fReindex, fAppInit2,
                   nodeStarted, admissionRunning, pvRunning,
                   interruptRequested, txQueue, mempoolDumped, coins>>

\* A failed load: unless this attempt was already a rebuild, the user is
\* offered a rebuild; accepting sets fReindex and clears fRequestShutdown.
LoadFailed ==
    /\ mainPc = "loadFailed"
    /\ \/ /\ ~fReset
          /\ \/ /\ fReindex' = TRUE
                /\ fRequestShutdown' = FALSE
                /\ mainPc' = "load"
             \/ /\ mainPc' = "returnFalse"
                /\ UNCHANGED <<fReindex, fRequestShutdown>>
       \/ /\ fReset
          /\ mainPc' = "returnFalse"
          /\ UNCHANGED <<fReindex, fRequestShutdown>>
    /\ UNCHANGED <<args, disk, pidFile, importVars, fReset, loadAttempts, fAppInit2,
                   nodeStarted, admissionRunning, pvRunning,
                   interruptRequested, txQueue, mempoolDumped, coins>>

\* StartTxAdmissionThreads, then "if the user requested to kill the GUI
\* during the last operation, exit"; the fee estimates are read.
LoadedStartImport ==
    /\ mainPc = "loaded"
    /\ admissionRunning' = TRUE
    /\ mainPc' = IF fRequestShutdown THEN "returnFalse" ELSE "loadWallet"
    /\ UNCHANGED <<args, disk, pidFile, importVars, fRequestShutdown, fReindex, fReset,
                   loadAttempts, fAppInit2, nodeStarted, pvRunning,
                   interruptRequested, txQueue, mempoolDumped, coins>>

\* Step 7, InitLoadWallet (no wallet: return false), and step 8, the
\* initial prune.
LoadWallet ==
    /\ mainPc = "loadWallet"
    /\ mainPc' \in {"returnFalse", "network"}
    /\ UNCHANGED <<args, disk, pidFile, importVars, fRequestShutdown, fReindex, fReset,
                   loadAttempts, fAppInit2, nodeStarted, admissionRunning,
                   pvRunning, interruptRequested, txQueue, mempoolDumped, coins>>

\* Step 10's network setup: -onlynet, -whitelist, -proxy, -onion, the
\* binds and -externalip may each return InitError.
NetworkInit ==
    /\ mainPc = "network"
    /\ mainPc' \in {"returnFalse", "import"}
    /\ UNCHANGED <<args, disk, pidFile, importVars, fRequestShutdown, fReindex, fReset,
                   loadAttempts, fAppInit2, nodeStarted, admissionRunning,
                   pvRunning, interruptRequested, txQueue, mempoolDumped, coins>>

\* Step 9: the notification hooks, then ThreadImport is spawned.
SpawnImport ==
    /\ mainPc = "import"
    /\ importPc' = "start"
    /\ mainPc' = "startNode"
    /\ UNCHANGED <<args, disk, pidFile, fRequestShutdown, fReindex, fReset,
                   loadAttempts, fAppInit2, nodeStarted, admissionRunning,
                   pvRunning, interruptRequested, nFile, txQueue, nIterations,
                   mempoolLoad, fDumpMempoolLater, mempoolDumped,
                   warmupFinished, coins>>

\* Mutant: AppInit2 returns true without storing fAppInit2.
StartNodeStep_noFlag ==
    /\ mainPc = "startNode"
    /\ \/ /\ mainPc' = "returnFalse"
          /\ UNCHANGED nodeStarted
       \/ /\ nodeStarted' = TRUE
          /\ mainPc' = "returnTrue"
    /\ UNCHANGED <<args, disk, pidFile, importVars, fRequestShutdown, fReindex, fReset,
                   loadAttempts, fAppInit2, admissionRunning, pvRunning,
                   interruptRequested, txQueue, mempoolDumped, coins>>

\* The wait for a genesis tip (already there), CheckDiskSpace and the
\* strErrors check (either may return false), StartNode and fAppInit2.
StartNodeStep ==
    /\ mainPc = "startNode"
    /\ \/ /\ mainPc' = "returnFalse"
          /\ UNCHANGED <<nodeStarted, fAppInit2>>
       \/ /\ nodeStarted' = TRUE
          /\ fAppInit2' = TRUE
          /\ mainPc' = "returnTrue"
    /\ UNCHANGED <<args, disk, pidFile, importVars, fRequestShutdown, fReindex, fReset,
                   loadAttempts, admissionRunning, pvRunning,
                   interruptRequested, txQueue, mempoolDumped, coins>>

\* Mutant: the caller stops a started node without waiting for a request.
Interrupt_noRequest ==
    /\ mainPc \in {"returnFalse", "returnTrue"}
    /\ pvRunning' = FALSE
    /\ interruptRequested' = TRUE
    /\ admissionRunning' = FALSE
    /\ mainPc' = "joining"
    /\ UNCHANGED <<args, disk, pidFile, importVars, fRequestShutdown, fReindex, fReset,
                   loadAttempts, fAppInit2, nodeStarted, txQueue,
                   mempoolDumped, coins>>

\* Interrupt(), called once AppInit2 has failed or, after it succeeded,
\* once a shutdown is requested: stop and wait for the parallel validation
\* threads, interrupt the thread group, StopTxAdmission.
Interrupt ==
    /\ \/ mainPc = "returnFalse"
       \/ mainPc = "returnTrue" /\ fRequestShutdown
    /\ pvRunning' = FALSE
    /\ interruptRequested' = TRUE
    /\ admissionRunning' = FALSE
    /\ mainPc' = "joining"
    /\ UNCHANGED <<args, disk, pidFile, importVars, fRequestShutdown, fReindex, fReset,
                   loadAttempts, fAppInit2, nodeStarted, txQueue,
                   mempoolDumped, coins>>

\* Mutant: Shutdown() called without joining the thread group.
JoinThreads_noJoin ==
    /\ mainPc = "joining"
    /\ mainPc' = "shutdownStop"
    /\ UNCHANGED <<args, disk, pidFile, importVars, fRequestShutdown, fReindex, fReset,
                   loadAttempts, fAppInit2, nodeStarted, admissionRunning,
                   pvRunning, interruptRequested, txQueue, mempoolDumped,
                   coins>>

\* The caller joins the thread group before calling Shutdown().
JoinThreads ==
    /\ mainPc = "joining"
    /\ ImportFinished
    /\ mainPc' = "shutdownStop"
    /\ UNCHANGED <<args, disk, pidFile, importVars, fRequestShutdown, fReindex, fReset,
                   loadAttempts, fAppInit2, nodeStarted, admissionRunning,
                   pvRunning, interruptRequested, txQueue, mempoolDumped,
                   coins>>

\* Shutdown(): every asynchronous stop function before any flush.
ShutdownStop ==
    /\ mainPc = "shutdownStop"
    /\ admissionRunning' = FALSE
    /\ nodeStarted' = FALSE
    /\ pvRunning' = FALSE
    /\ mainPc' = "shutdownFlush"
    /\ UNCHANGED <<args, disk, pidFile, importVars, fRequestShutdown, fReindex, fReset,
                   loadAttempts, fAppInit2, interruptRequested, txQueue,
                   mempoolDumped, coins>>

\* Shutdown(): flush and clear the coins cache, dump the mempool if
\* fDumpMempoolLater and -persistmempool, flush again and delete the views,
\* remove the pid file.
ShutdownFlush ==
    /\ mainPc = "shutdownFlush"
    /\ mempoolDumped' = (fDumpMempoolLater /\ args.persistmempool)
    /\ coins' = "deleted"
    /\ pidFile' = "none"
    /\ mainPc' = "exited"
    /\ UNCHANGED <<args, disk, importVars, fRequestShutdown, fReindex, fReset,
                   loadAttempts, fAppInit2, nodeStarted, admissionRunning,
                   pvRunning, interruptRequested, txQueue>>
-----------------------------------------------------------------------------
(* Import thread: ThreadImport *)

\* Variables no import-thread step touches except where it says otherwise.
importFrame == <<args, mainVars, admissionRunning, pvRunning,
                 interruptRequested, mempoolDumped, coins>>

\* MilliSleep(500), then the -reindex branch or not.
ImportStart ==
    /\ importPc = "start"
    /\ ~interruptRequested
    /\ importPc' = IF fReindex THEN "reindex" ELSE "afterReindex"
    /\ UNCHANGED <<importFrame, fRequestShutdown, fReindex, nFile,
                   txQueue, nIterations, mempoolLoad, fDumpMempoolLater,
                   warmupFinished>>

\* One block file of the reindex loop: blk<nFile>.dat exists and opens, its
\* blocks are loaded, nFile++, then the shutdown check.
ReindexFile ==
    /\ importPc = "reindex"
    /\ nFile \in blkFiles
    /\ nFile' = nFile + 1
    /\ importPc' = IF fRequestShutdown THEN "done" ELSE "reindex"
    /\ UNCHANGED <<importFrame, fRequestShutdown, fReindex, txQueue,
                   nIterations, mempoolLoad, fDumpMempoolLater, warmupFinished>>

\* The loop breaks when blk<nFile>.dat does not exist, or when
\* OpenBlockFile fails on one that does; then WriteReindexing(false),
\* fReindex = false, InitBlockIndex.
ReindexFinished ==
    /\ importPc = "reindex"
    /\ \/ nFile \notin blkFiles
       \/ nFile \in blkFiles
    /\ fReindex' = FALSE
    /\ importPc' = "afterReindex"
    /\ UNCHANGED <<importFrame, fRequestShutdown, nFile, txQueue,
                   nIterations, mempoolLoad, fDumpMempoolLater, warmupFinished>>

\* The shutdown check, bootstrap.dat and -loadblock files (their shutdown
\* checks), and -stopafterblockimport, which requests the shutdown itself.
ImportBlockFiles ==
    /\ importPc = "afterReindex"
    /\ \/ /\ fRequestShutdown
          /\ importPc' = "done"
          /\ UNCHANGED fRequestShutdown
       \/ /\ ~fRequestShutdown
          /\ args.stopafterblockimport
          /\ fRequestShutdown' = TRUE
          /\ importPc' = "done"
       \/ /\ ~fRequestShutdown
          /\ ~args.stopafterblockimport
          /\ importPc' = "waitInit"
          /\ UNCHANGED fRequestShutdown
    /\ UNCHANGED <<importFrame, fReindex, nFile, txQueue, nIterations,
                   mempoolLoad, fDumpMempoolLater, warmupFinished>>

\* while (!fAppInit2) { MilliSleep(100); if (fRequestShutdown) return; }
WaitForAppInit ==
    /\ importPc = "waitInit"
    /\ fAppInit2 \/ (fRequestShutdown /\ ~interruptRequested)
    /\ importPc' = IF fAppInit2 THEN "reconsider" ELSE "done"
    /\ UNCHANGED <<importFrame, fRequestShutdown, fReindex, nFile,
                   txQueue, nIterations, mempoolLoad, fDumpMempoolLater,
                   warmupFinished>>

\* ReconsiderChainOnStartup, TxAdmissionPause, ReacceptWalletTransactions,
\* the shutdown check and the -persistmempool branch.
ReconsiderChain ==
    /\ importPc = "reconsider"
    /\ importPc' = CASE fRequestShutdown    -> "done"
                     [] args.persistmempool -> "loadMempool"
                     [] OTHER               -> "activate"
    /\ UNCHANGED <<importFrame, fRequestShutdown, fReindex, nFile,
                   txQueue, nIterations, mempoolLoad, fDumpMempoolLater,
                   warmupFinished>>

\* LoadMempool and LoadOrphanPool put the saved transactions into the
\* admission queues; LoadMempool stops early once a shutdown is requested.
LoadMempoolStep ==
    /\ importPc = "loadMempool"
    /\ txQueue' \in txQueue..MaxQueue
    /\ mempoolLoad' \in IF fRequestShutdown THEN {"partial", "complete"}
                                             ELSE {"complete"}
    /\ importPc' = "mempoolSample"
    /\ UNCHANGED <<importFrame, fRequestShutdown, fReindex, nFile,
                   nIterations, fDumpMempoolLater, warmupFinished>>

\* Mutant: fDumpMempoolLater set whether or not a shutdown was requested.
MempoolSample_alwaysDump ==
    /\ importPc = "mempoolSample"
    /\ \/ /\ txQueue = 0
          /\ fDumpMempoolLater' = TRUE
          /\ importPc' = "activate"
       \/ /\ txQueue > 0
          /\ importPc' = "mempoolSleep"
          /\ UNCHANGED fDumpMempoolLater
    /\ UNCHANGED <<importFrame, fRequestShutdown, fReindex, nFile,
                   txQueue, nIterations, mempoolLoad, warmupFinished>>

\* Sample the three queues; empty: leave the loop and set
\* fDumpMempoolLater = !fRequestShutdown; otherwise sleep.
MempoolSample ==
    /\ importPc = "mempoolSample"
    /\ \/ /\ txQueue = 0
          /\ fDumpMempoolLater' = ~fRequestShutdown
          /\ importPc' = "activate"
       \/ /\ txQueue > 0
          /\ importPc' = "mempoolSleep"
          /\ UNCHANGED fDumpMempoolLater
    /\ UNCHANGED <<importFrame, fRequestShutdown, fReindex, nFile,
                   txQueue, nIterations, mempoolLoad, warmupFinished>>

\* After MilliSleep(1000): nIterations++, and past the bound the queues
\* are cleared (the loop goes on sampling).  nIterations is kept at most
\* one above the bound, where its value no longer changes the behaviour.
MempoolWake ==
    /\ importPc = "mempoolSleep"
    /\ ~interruptRequested
    /\ nIterations' = IF nIterations > MAX_WAIT_ITERATIONS
                      THEN nIterations ELSE nIterations + 1
    /\ txQueue' = IF nIterations + 1 > MAX_WAIT_ITERATIONS THEN 0 ELSE txQueue
    /\ importPc' = "mempoolSample"
    /\ UNCHANGED <<importFrame, fRequestShutdown, fReindex, nFile,
                   mempoolLoad, fDumpMempoolLater, warmupFinished>>

\* ActivateBestChain, ReconsiderChainOnStartup, the IBD flags, txindex
\* and SetRPCWarmupFinished, with the shutdown checks between them.
ActivateAndFinish ==
    /\ importPc = "activate"
    /\ warmupFinished' = ~fRequestShutdown
    /\ importPc' = "done"
    /\ UNCHANGED <<importFrame, fRequestShutdown, fReindex, nFile,
                   txQueue, nIterations, mempoolLoad, fDumpMempoolLater>>

\* interrupt_all() ends the thread at its next MilliSleep, or wakes it
\* from the one it is in (boost::thread_interrupted; the sleep steps above
\* are not taken once the interrupt is requested).
InterruptImport ==
    /\ interruptRequested
    /\ importPc \in SleepPoints
    /\ importPc' = "done"
    /\ UNCHANGED <<importFrame, fRequestShutdown, fReindex, nFile,
                   txQueue, nIterations, mempoolLoad, fDumpMempoolLater,
                   warmupFinished>>

-----------------------------------------------------------------------------
\* The process has exited; nothing changes any more.
Exited ==
    /\ mainPc = "exited"
    /\ UNCHANGED vars

MainStep == \/ AppInitSetup \/ AppInitFlags \/ AppInitDataDir \/ AppInitServices
            \/ LoadBlockIndexAttempt \/ LoadFailed \/ LoadedStartImport
            \/ LoadWallet \/ NetworkInit \/ SpawnImport
            \/ StartNodeStep \/ Interrupt \/ JoinThreads \/ ShutdownStop
            \/ ShutdownFlush

ImportStep == \/ ImportStart \/ ReindexFile \/ ReindexFinished
              \/ ImportBlockFiles \/ WaitForAppInit \/ ReconsiderChain
              \/ LoadMempoolStep \/ MempoolSample \/ MempoolWake
              \/ ActivateAndFinish \/ InterruptImport

Environment == StartShutdown \/ TxArrives \/ TxAdmitted

Next == MainStep \/ ImportStep \/ Environment \/ Exited

\* Both threads are scheduled by the OS, and an admission thread that has a
\* transaction in its queue processes it; shutdown requests and peers' relays
\* are not obliged to happen.
Spec == /\ Init /\ [][Next]_vars
        /\ WF_vars(MainStep) /\ WF_vars(ImportStep) /\ WF_vars(TxAdmitted)
-----------------------------------------------------------------------------
(* The refinement mapping onto NodeLifecycle: the phase is read from the  *)
(* main thread's place, the running threads from the flags each start    *)
(* and stop function sets, the chain state from pcoinsTip.                *)
InitPcs == {"setup", "flags", "dataDir", "services", "load", "loadFailed",
            "loaded", "loadWallet", "network", "import", "startNode"}

LifecyclePhase ==
    CASE mainPc \in InitPcs   -> "init"
      [] mainPc = "returnTrue" -> "running"
      [] mainPc = "exited"     -> "stopped"
      [] OTHER                 -> "stopping"

RunningThreads ==
    {t \in {"import", "admission", "validation", "network"} :
        \/ t = "import" /\ ~ImportFinished
        \/ t = "admission" /\ admissionRunning
        \/ t = "validation" /\ pvRunning
        \/ t = "network" /\ nodeStarted}

Lifecycle == INSTANCE NodeLifecycle
                 WITH Threads <- {"import", "admission", "validation", "network"},
                      phase <- LifecyclePhase,
                      requested <- fRequestShutdown,
                      threads <- RunningThreads,
                      chainState <- IF coins = "deleted" THEN "deleted" ELSE "open"

-----------------------------------------------------------------------------
(* Properties *)

TypeOK ==
    /\ mainPc \in {"setup", "flags", "dataDir", "services", "load", "loadFailed", "loaded", "loadWallet",
                   "network", "import", "startNode", "returnFalse",
                   "returnTrue", "joining", "shutdownStop", "shutdownFlush",
                   "exited"}
    /\ importPc \in {"notStarted", "start", "reindex", "afterReindex",
                     "waitInit", "reconsider", "loadMempool", "mempoolSample",
                     "mempoolSleep", "activate", "done"}
    /\ loadAttempts \in Nat /\ nFile \in 0..BlockFiles
    /\ blkFiles \subseteq 0..(BlockFiles - 1) /\ removedBlk \subseteq 0..(BlockFiles - 1)
    /\ txQueue \in 0..MaxQueue /\ nIterations \in 0..(MAX_WAIT_ITERATIONS + 1)
    /\ mempoolLoad \in {"none", "partial", "complete"}
    /\ coins \in {"open", "deleted"}

(* AppInit2's load loop offers the rebuild at most once: fReset latches    *)
(* fReindex at the top of every pass, so a rebuild that fails again ends   *)
(* startup instead of asking the user again, however the failures, the    *)
(* answers and the shutdown requests interleave.                          *)
LoadRetriedAtMostOnce == loadAttempts <= 2

(* Shutdown() deletes pcoinsTip only once every thread that could use it  *)
(* has stopped: the import thread (which reindexes and activates the      *)
(* chain) has returned, and the validation, admission and network threads *)
(* have been stopped (the quiescence rule of the specification).          *)
ShutdownQuiescent ==
    coins = "deleted" =>
        /\ ImportFinished
        /\ ~pvRunning /\ ~admissionRunning /\ ~nodeStarted

(* Shutdown() writes mempool.dat only when ThreadImport had loaded the    *)
(* saved mempool completely: a LoadMempool cut short by a shutdown        *)
(* request must not overwrite the file with the part it loaded.           *)
MempoolDumpedOnlyIfLoaded ==
    mempoolDumped => mempoolLoad = "complete"

(* CleanupBlockRevFiles' promise that the blocks directory is "in sync"  *)
(* for pruning: while a -prune node reindexes, the blk files on disk are  *)
(* exactly the run from blk00000 up to the first gap of the files it had, *)
(* whether the reindex came from -reindex or from accepting the rebuild   *)
(* offer after a failed load, and however many passes the load took.     *)
PrunedReindexKeepsContiguousFiles ==
    LET had == blkFiles \cup removedBlk
    IN  args.prune /\ importPc = "reindex" => blkFiles = {i \in had : 0..i \subseteq had}

(* Once peers stop relaying, startup ends: either the import thread       *)
(* reaches SetRPCWarmupFinished, or the process exits.  The wait of the   *)
(* main and import threads on each other (fAppInit2, join_all) and on the *)
(* admission queues never leaves both stuck.                              *)
InitCompletesOnceQuiet ==
    (<>[][~TxArrives]_vars) => <>(warmupFinished \/ mainPc = "exited")

(* The comment on ThreadImport's mempool wait ("dont' wait forever"):     *)
(* startup reaches SetRPCWarmupFinished or exits, whatever peers relay.   *)
InitCompletes == <>(warmupFinished \/ mainPc = "exited")

(* The comment on thread management: a clean exit happens when            *)
(* StartShutdown() or SIGTERM sets fRequestShutdown.                      *)
ShutdownRequestHonoured == fRequestShutdown ~> (mainPc = "exited")

(* Shutdown() "must be able to handle cases in which AppInit2() failed     *)
(* part of the way, for example if the data directory was found to be    *)
(* locked", writing files only for modules that were initialized: a node  *)
(* started while another process holds the data directory leaves that    *)
(* process's pid file in place.                                           *)
PidFileOfRunningInstanceKept == args.datadirInUse => pidFile = "other"

(* AppInit2, ThreadImport, Interrupt and Shutdown implement the node      *)
(* lifecycle of NodeLifecycle: threads start only while initialising, a   *)
(* running node stops only on a shutdown request, which only the rebuild  *)
(* offer of the load loop withdraws, and only before AppInit2 returns;    *)
(* Shutdown deletes the chain state only once every thread has stopped;   *)
(* and initialisation, a requested stop and the exit all happen.          *)
LifecycleRefined == Lifecycle!Spec
====
