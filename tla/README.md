# TLA+ models of Membercoin

This directory holds TLA+ models of the Membercoin node code under `src/`. There is one
module per component, an `MC*` module that fixes the component's bounds for TLC, and
`.cfg` files that each ask one question. `PROJECT.json` lists the components, the runs,
the mutants that show each passing property can fail, the map from every definition to
the source lines it translates, the findings and the hazards.

## The system and its parts

The repository holds part of a Bitcoin-Unlimited-derived node:

| Part | Source | What it does |
|---|---|---|
| Interest engine | `src/src/primitives/transaction.cpp` 193-254, `src/src/amount.h` | An output's value grows by a factor of 1 + 2^-22 per block for up to 404420 blocks. The factors are precomputed in `rateTable` (uint64, scaled by 2^62). `getRateForAmount` multiplies in 256 bits; `GetInterest` clamps the period. |
| Transaction value | `src/src/primitives/transaction.cpp` 109-119, 130-191 | `GetValueOut` sums the outputs of a transaction in int64 and throws when an output or the total leaves MoneyRange. `CalculateModifiedSize` takes each input's overhead off the size that priority is computed over. `HasData` looks for OP_RETURN data outputs. |
| Pattern-search PoW | `src/src/primitives/block.cpp` 69-119, 156-169 | `FindBestPatternHash` scans the pattern-search candidates for the smallest hash. `GetWorkForDifficultyBits` computes 2^256/(target+1). |
| Blocks | `src/src/primitives/block.h`, `block.cpp` 148-153, `src/src/consensus/consensus.h` | `CBlock::GetHeight` reads the height that the coinbase scriptSig pushes first. `GetBlockSize` caches the serialized size. `GetMaxBlockSigOpsCount` allows 20000 sigops per started megabyte. `VersionKnown` tells the versions a node knows from unknown ones. |
| Startup / shutdown | `src/unnamed/part_001` (init.cpp) | The main thread runs `AppInit2`. It spawns `ThreadImport`, which reindexes, imports, waits for `fAppInit2`, reloads the mempool and activates the chain. `Interrupt()` and `Shutdown()` stop everything; `fRequestShutdown` is set by SIGTERM, `StartShutdown` or the import thread. |
| Wallet RPCs | `src/unnamed/part_000` (rpcwallet.cpp) | JSON-RPC handlers run on several RPC worker threads. The lock timer callback runs on the HTTP event thread. The locks involved are `cs_wallet`, `cs_nWalletUnlockTime` and `serializeCreateTx`. |
| bitcoin-tx | `src/src/bitcoin-tx.cpp` | A single-threaded CLI. It applies the commands of its command line, in order, to one transaction. The first command that throws ends the run. |
| Qt client model, docs | `src/src/qt/clientmodel.h`, `src/README.md`, `src/doc/` | Declarations only. |

How the parts interact:
- The wallet's `encryptwallet` and the import thread's `-stopafterblockimport` both call `StartShutdown`, which drives the startup/shutdown machine.
- The wallet lock timer (WalletLock) decides whether account sends (WalletAccounts) can sign. WalletAccounts abstracts it as an environment toggle.
- The interest engine values every output that validation and the wallet see, at the height of the tip block. That block's coinbase carries its height, which `GetHeight` reads back.

## Modules

### `Interest` / `MCInterest`: the interest engine

`Interest` translates `rateTable`, `getRateForAmount`, `GetInterest` and
`GetValueWithInterest` with every signed/unsigned reinterpretation (`ToUnsigned`,
`ToSigned`). TLC's integers are 32-bit, so the word width, the table scale, the
per-block shift and the period cap are CONSTANTS. The cfg gives them scaled values that
keep their proportions:

| Constant | Scaled value | Real value |
|---|---|---|
| Word width | 16 bits | 64 bits |
| Table scale | 2^14, two bits of headroom | 2^62, two bits of headroom |
| Rate per block | 1 + 2^-5 | 1 + 2^-22 |
| Period cap | 3 blocks (about 9.7% growth) | 404420 blocks (about 10.1% growth) |
| MAX_MONEY | 362, about 2^-7.5 of the word | 1e17, the same proportion |

`RefEffectiveValue` is the specification's valuation in unbounded integers.

`MCInterest` takes one output, every face value in MoneyRange and every creation
height, and moves the tip up and down. The tip goes below the output's height as in a
reorganisation.

### `Startup` / `MCStartup`: AppInit2, ThreadImport, Interrupt, Shutdown

The state is:
- the main thread's position `mainPc` and the import thread's position `importPc`;
- the shared flags `fRequestShutdown`, `fReindex`, `fAppInit2` and `fDumpMempoolLater`;
- which thread pools run: admission, parallel validation and the network;
- the count of queued transactions, the wait counter `nIterations` and whether `pcoinsTip` still exists;
- whether another process holds the data directory's `.lock` (part of `args`), and whose pid file is on disk;
- the indices of the blk?????.dat files in the blocks directory (`blkFiles`), the reindex loop's next index `nFile`, and a history of the files the prune cleanup removed.

Each action is one stretch of code between two points where the other thread, a signal
or a peer can act:

| Action | Code |
|---|---|
| `AppInitSetup`, `AppInitFlags` | steps 1-3, 845-1112; every InitError is a way out |
| `AppInitDataDir` | step 4 up to `CreatePidFile`, 1114-1151 |
| `AppInitServices` | the rest of step 4 (the parallel validator) and step 5, 1152-1304 |
| `LoadBlockIndexAttempt` | one pass of the load loop, 1363-1479. A pass can fail before or after its reindex branch. Under `-reindex` with `-prune`, the branch runs `CleanupBlockRevFiles` (408-444), written as a `FoldLeft` over the sorted file indices with the code's `nContigCounter`. |
| `LoadFailed` | the rebuild offer, 1481-1504 |
| `LoadedStartImport` | admission threads and the shutdown check, 1507-1540 |
| `LoadWallet`, `NetworkInit`, `SpawnImport` | steps 7-8, step 10's network setup, step 9's spawn of ThreadImport |
| `StartNodeStep` | 1788-1837 |
| `Interrupt` | 178-200 |
| `ShutdownStop` and `ShutdownFlush` | 202-321 |
| the ThreadImport actions | 460-680, split at every shutdown check and `MilliSleep` |

The reindex loop (`ReindexFile`, `ReindexFinished`) reads blk files from index 0. It stops at
the first missing index, or when `OpenBlockFile` fails on a file that exists.

A `MilliSleep` is a boost interruption point, so `InterruptImport` ends the thread
there once `interrupt_all()` has run.

The caller of AppInit2 is bitcoind's `AppInit`, which is not under `src/`. It is modelled
after the specification's quiescence rule: interrupt, join, then `Shutdown`
(`JoinThreads`, marked spec_modelled). Peers (`TxArrives`) and the admission threads
(`TxAdmitted`) are the environment.

Fairness is weak fairness for the main thread, the import thread and the admission
threads, because the OS schedules them. There is none for shutdown requests or peer
relay: nobody has to send them.

### `NodeLifecycle`: what startup and shutdown promise

`NodeLifecycle` is the abstract specification of the node's lifecycle. It has a phase
(`init`, `running`, `stopping`, `stopped`), the shutdown request, the set of running
threads and whether the chain state still exists. It says four things:
- a running node stops only after a shutdown is requested;
- a request can be withdrawn only during initialisation (the rebuild offer);
- the chain state is deleted only when the node exits, and only once no thread runs;
- initialisation ends, a requested shutdown of a running node begins, and a stopping node exits (leads-to properties).

`Startup` is shown to implement it. `Lifecycle == INSTANCE NodeLifecycle WITH ...` maps:
- `mainPc` to the phase (`LifecyclePhase`);
- `fRequestShutdown` to the request;
- the import thread, the admission pool, the parallel validator and the network to the threads (`RunningThreads`);
- `pcoinsTip` to the chain state.

The `startup` run checks `LifecycleRefined == Lifecycle!Spec` as a PROPERTY. The
abstract liveness is stated as leads-to formulas, not as fairness: TLC cannot
evaluate ENABLED of an instantiated action whose variables are mapped to expressions.

### `Block` / `MCConsensus`: heights, work and sigops of the tip block

`Block` translates three functions:
- `CBlock::GetHeight` (block.h 151-168). It reads `numlen = sig[0]` as OP_0, as OP_1..OP_16, or as a push length. It throws "Invalid block height" when the push runs past the script, and otherwise decodes the bytes with `CScriptNum::getint()`, returned as `uint64_t`.
- `GetWorkForDifficultyBits` (block.cpp 156-169). It computes `~target / (target + 1) + 1` in 256-bit words after `SetCompact`'s negative and overflow flags.
- `GetMaxBlockSigOpsCount` (consensus.h 63-68), with `GetBlockSize`'s cache.
- `CBlock::VersionKnown` (block.h 128-140), at the full `int32_t` width. It accepts versions 1 to 4. Otherwise it tests the one `BIP_009_MASK` bit (0x20000000) and requires every other bit of `nVersion & ~BIP_009_MASK` to be among `voteBits`. The `&` converts both to `uint32_t`. TLC's integers hold 31 bits and a sign, so the model keeps the low 31 bits (`Low31`) apart from the sign bit. `VersionKnown` has no caller under `src/`, so the block carries the `nVersion` and `voteBits` a caller would pass (`versionArgs`), next to its own version.

`Block` also translates `FindBestPatternHash` (block.cpp 69-119) whole:
- zero threads return the sentinel `0xff..ff` and leave `collisions` as it was;
- the thread count is rounded up to a power of two by doubling an `int` (`RoundThreads`). Past INT_MAX the doubling wraps to INT_MIN and then to 0, and the loop never ends (`Hangs`);
- `pattern_search` is outside `src/` and is abstracted to the number of candidates it returns, which becomes `collisions`;
- the loop keeps the smallest candidate hash.

Every candidate is hashed as `Hash(BEGIN(nVersion), END(nNonce))`, the same value each
time, because the lines that would store the candidate in the header are commented out.
The function therefore returns the header's hash or the sentinel. Section 4.2 of the
specification says instead that it selects the candidate minimising the outer hash.

`SetCompact`, `CScriptNum` and `push_int64` are outside `src/` and are modelled from
their definitions (spec_modelled).

The widths are scaled:
- arith_uint256 is 3 bytes, so the overflow limits fall at sizes 3, 4 and 5 instead of 32, 33 and 34;
- `int` is 26 bits;
- `uint64_t` is 30 bits.

The compact encoding keeps its real layout: a size byte, the sign bit 2^23 and a 23-bit mantissa.

`Transaction` translates `CTransaction::GetValueOut` (transaction.cpp 109-119). It adds
each output's `nValue` to an int64 total and then range-checks both the output and the
total. The addition comes first, so an output near INT64_MAX overflows the signed total
before the check refuses it. That is undefined behaviour; the build's add wraps, and the
model wraps with `ToSigned` in `Interest`'s scaled 16-bit word.

It also translates `CalculateModifiedSize` (130-146) with `GetTxSize`'s cache (160-165), as a
`FoldLeft` over the inputs. For each input it takes off 41 bytes and up to 110 bytes of the
scriptSig, but only while the size left is larger than that offset. The size is an unsigned
int, kept at the width of `Word`. In the templates the block's second transaction has zero to
three inputs, with scriptSigs of 0, 110 and 111 bytes. Its caller passes a size of 0 (meaning
use the cached serialized size), or a size at an edge of one input's offset or of all of them.

Outputs are records `[nValue, scriptPubKey]`, and a script is a sequence of bytes. Both `HasData`
overloads (168-176 and 178-191) are translated: the one without an id is `HasAnyData`. `HasData(dataID)` checks
the size, the OP_RETURN and the push opcode 4, and only then reads the id with `ReadLE32`. The
templates give the second transaction scripts around that layout: the id in either byte order, one
byte short, one byte more, a push of 5, OP_RETURN alone, and OP_DUP in its place. In one template
only the second of two outputs matches.

`MCConsensus` composes `Interest`, `Transaction` and `Block`. The tip moves up and down within a
segment of six heights, and each new tip block is mined as miner.cpp does: its
coinbase scriptSig is `CScript() << nHeight << OP_0`. Its nBits, its size and the output
values of one more transaction come from a set of templates (`MCTemplates`). The segments start where the height's push changes form:
- OP_N to a push at 17;
- the sign pad at 128;
- two bytes at 256;
- three bytes at 32768;
- four bytes at 2^23.

The nBits values reach every branch of `SetCompact`. The sizes are at and just past a
megabyte boundary. The second transaction takes every list of up to two outputs, with
values -1, 0, 1, MAX_MONEY, MAX_MONEY + 1 and INT64_MAX. Two outputs are enough for:
- an output out of range;
- a total out of range;
- an addition that overflows;
- a negative output that brings the total back into range.

The bits, the sizes and the output lists are independent inputs of independent
functions. The templates therefore pair every nBits with every size, and every output
list with one valid nBits and size, instead of taking the full product.
The thread counts, each with zero and with two candidates, are -1, 0, 1, 2, 3, 4, 5,
2^23 + 1 and 2^24. 2^24 = 2^(INT_BITS - 2) is the largest count whose rounding fits in `int`.

### `WalletLock` / `MCWalletLock`: encryption and timed unlock

The state is `crypted`, `locked`, `nWalletUnlockTime`, the due time of the single named
`lockwallet` timer (`RPCRunLater` replaces a timer of the same name), a clock, and the
one RPC holding `cs_wallet`.

`walletpassphrase` is split after `Unlock()`/`TopUpKeyPool()`. This is where the timer
callback can run, because `LockWallet` takes only `cs_nWalletUnlockTime`. The two halves
are `WalletPassphraseUnlock` (2270-2316) and `WalletPassphraseArm` (2318-2324).

Calls happen at times 1..`MaxTime`. The clock then runs until every armed timer is due.

Fairness is weak fairness for the RPC worker finishing its call, for the event thread
firing a due timer, and for time.

### `WalletAccounts` / `MCWalletAccounts`: account sends

RPC worker threads run `sendtoaddress`, `sendfrom`, `sendmany` (one recipient) and
`move` concurrently. Each send goes through three actions:
1. **The start of its handler:** argument checks and `EnsureWalletIsUnlocked`, plus `sendfrom`'s balance check.
2. **`AcquireCreateLock`:** `LOCK(serializeCreateTx)`, plus `sendmany`'s balance check under it.
3. **`CreateAndCommit`:** `SendMoney`'s or `sendmany`'s CreateTransaction/CommitTransaction.

`sendfrom` callers name the accounts in `FromAccounts`. The two-worker pass run uses only the
default account, which `sendfrom` does not check. The race run uses every account.
`move` is one atomic step under `cs_wallet` with no check. Balances are
`GetAccountBalance`'s tally with fees taken as zero. The ghost `stale` records that a
move debited the account after the thread's check, because `move` may overdraw by design.
`MaxMoves` bounds the moves, without which balances can drift for ever.

### `BitcoinTx` / `MCBitcoinTx`: the bitcoin-tx command machine

The process starts where `main` does:
- `AppInitRawTx` either ends the process or reads `-create` into `fCreateBlank`. It ends the process for a switch error, help or `-version`, or a command line with no arguments.
- `StartCommandLine` is the head of `CommandLineRawTx`. Without `-create`, it decodes the hex argument (or stdin for `-`) or fails (`DecodeFails`). With `-create`, the commands apply to the blank `txDecodeTmp`.

The state is the transaction, the two registers `sign` reads, and whether the run is still
going, has failed, or has printed. The transaction has its version, lock time, inputs
(previous output, sequence, scriptSig) and outputs. There is one action per `MutateTx`
command. Each command either throws (`Fail`: CommandLineRawTx prints the error and
nothing else) or changes the transaction as its function does:
- range checks on the version, the lock time and the delete indices;
- appends for `in` and the three output commands;
- `RemoveAt` for `delin` and `delout`.

`findSighashFlags` is a fold over the words of the flag string. `sign` runs the signing loop
of `MutateTxSign`. A coin not in `prevtxs` is skipped. SIGHASH_SINGLE without a matching
output is not signed. Where nothing new is signed, the old scriptSig survives. The legacy
signature hash (`Digest`) and script verification (`ValidSig`) lie outside `src/`. They are
modelled as what a signature commits to under each hash type (spec_modelled). The lock
time and the sequence keep their unsigned width (scaled to 3 and 2 bits), with the code's casts.

## Runs

| Run | Checks | Result |
|---|---|---|
| `consensus` | `ValuationMatchesReference` (the word computation of interest equals the exact valuation for every output of the segment), `CoinbaseHeightMatchesTip`, `WorkMatchesReference` (work equals floor(2^256/(target+1)), 0 for invalid targets), `SigOpsLimitMatchesReference`, `ValueOutMatchesReference` (GetValueOut is the sum exactly when every output and the sum are in MoneyRange), `PatternSearchWorkers` (spec 4.2: a power of two of workers, the sentinel for zero), `ModifiedSizeDiscountsInputs` (the modified size never wraps or reaches 0, and is the size less every input's overhead when the size covers it), `HasDataMatchesReference` (HasData(id) is a little-endian 4-byte push of id after OP_RETURN), `VersionKnownIsBIP9` (VersionKnown accepts exactly BIP9's versions, top bits 001 and only vote bits set, for vote bits below the mask) | pass, 7308 states |
| `interest_spec81` | `SpecInterestIffElapsed`: spec §8.1, value equals face value iff no block elapsed | **violation**: an output of face value 1, one block old, earns 0 because `product/rate0` truncates |
| `startup` | `LoadRetriedAtMostOnce`, `ShutdownQuiescent`, `MempoolDumpedOnlyIfLoaded`, `PrunedReindexKeepsContiguousFiles` (a -prune reindex sees only the run of blk files from blk00000 to the first gap), `InitCompletesOnceQuiet`, `LifecycleRefined` (Startup implements NodeLifecycle) | pass, 66072 states |
| `startup_mempool_wait` | `InitCompletes`: startup finishes whatever peers relay (the comment "dont' wait forever") | **violation**: past the bound the loop clears the queues and keeps sampling; a transaction arriving before each sample keeps it there for ever |
| `startup_sigterm_lost` | `ShutdownRequestHonoured`: fRequestShutdown leads to exit (the thread-management comment) | **violation**: accepting the rebuild offer (1492) clears a pending SIGTERM |
| `startup_pidfile` | `PidFileOfRunningInstanceKept`: Shutdown after a partial AppInit2 leaves other processes' files (the comment at 210-213) | **violation**: the data directory is locked by another node, AppInit2 fails, and `Shutdown()` removes that node's pid file (302) |
| `wallet_relock` | `WalletRelocks` with integer timeouts | pass |
| `wallet_relock_untimed` | `WalletRelocks` with a non-integer timeout | **violation**: unlocked, then `get_int64` throws before any timer |
| `wallet_unlock_race` | `UnlockedUntilConsistent`: unlocked_until is 0 iff locked | **violation**: the old timer fires between Unlock and re-arm |
| `accounts_sendmany` | `SendsCoveredByAccount` with every send (sendfrom from the default account) and move on two workers | pass, 120896 states |
| `accounts_sendfrom_race` | `SendsCoveredByAccount` with sendfrom and sendmany on two workers | **violation**: both checks pass against one balance |
| `bitcointx` | `NoSignatureOverHashOne`, `SignCoversSignable`, `LockTimeIsArgument` over every command line of up to five commands | pass, 521169 states |

Each passing property has a mutant in `PROJECT.json`, and TLC finds that mutant's
violation under the run's own cfg:

| Mutant | Breaks |
|---|---|
| 64-bit product | the interest reference |
| OP_N decoded as N - 1 | the coinbase height |
| the `+ 1` of the work formula dropped | the work reference |
| the size rounded down to megabytes | the sigops limit |
| `GetValueOut` checks only the running total | the value out |
| the thread rounding doubles while `<=` | the power-of-two workers |
| `CalculateModifiedSize` without its `nSize > offset` guard | the modified size |
| `HasData` reads the id most significant byte first | the data-output match |
| `VersionKnown` loses the sign bit of `nVersion` | the BIP9 version test |
| `Interrupt` without a shutdown request | the refinement (a running node stops unrequested) |
| fReset not latched | the single rebuild offer |
| the prune cleanup removes files that extend the run too | the contiguous blk files |
| no join before Shutdown | quiescence |
| dump flag set unconditionally | the mempool dump |
| `fAppInit2` never stored | completion |
| no lock timer | relock |
| sendmany without its check | account coverage (two workers) |
| SIGHASH_SINGLE guard dropped | no signature over the hash one |
| signing loop `break`s at an unknown coin | every signable input signed |
| lock time bound off by one | lock time equals its argument |

## Bounds and why they suffice

- **Interest:** the scaled constants keep the ratio of the table to the word and of MAX_MONEY to the word. With them the product overflows 16 bits (the mutant shows it) and the cap is reached (heights 0..5 against a cap of 3). Every value in MoneyRange is enumerated.
- **Startup:**
  - One wait iteration before clearing, so both sides of `nIterations > 120` are reached.
  - Two queued transactions, enough for "never empty at a sample".
  - Block files 0..2 present in every combination. That includes a gap after blk00000, a missing blk00000 and a full run, and it lets the shutdown check between files be reached.
  - Every combination of `-reindex`, `-persistmempool`, `-stopafterblockimport` and `-prune`.
- **Consensus:** six segments of six heights cover every change of the coinbase push's form, on both sides. The 24-bit target puts the three overflow limits at sizes 3 to 5, and the nBits values sit at and just past each. `int` of 26 bits holds the heights up to 2^23 + 4 without clamping. The scriptSig sizes 0, 110 and 111 and the sizes passed to `CalculateModifiedSize` sit on both sides of one input's offset (41, 151) and of the total offset (192, 303). The data scripts differ from the `HasData` layout in one byte or one length each. The versions sit at the edges of 1..4, carry the mask bit alone or with vote bits, set bit 30 (top bits 011 and 010), or set the sign bit (101, 100 and all ones, which are negative as `int32_t`). The vote bits are 0, 1 and bits 0, 1 and 28, all below the mask as BIP9 deployments use them.
- **WalletLock:** timeouts 0 and 2 give both an immediate and a later timer. Three seconds of calls let a second `walletpassphrase` overlap the first timer's due time.
- **BitcoinTx:** two inputs and two outputs at most, two outpoints and scripts, and prevtxs values that cover a mismatch, a partial view and a full one. Five commands reach "in, set, set, sign" after a decoded transaction and "sign, then change what it signed". The arguments sit on both sides of every range check (versions 0, 2, 3; lock times -1, 7, 8; sequence 4, which wraps).
- **WalletAccounts:** two threads and a balance of at most 2 against amounts 1 and 2 are the smallest setting where two checks can both pass and together exceed the balance.

## Not modelled, and why

- **Outside a model checker's reach or not code:**
  - Hash functions: Blake3, SHA256d and the pattern-search scratchpad.
  - Serialization and JSON formatting of RPC results.
  - The Qt header and the docs.
- **Where the code lies outside `src/`:**
  - `LoadBlockIndex`, `LoadMempool`, `CWallet` internals (`CreateTransaction` coin selection, `ChangeWalletPassphrase`).
  - The admission threads.
  - These are abstracted to the outcomes the handlers see.
  - A UTXO ledger that connects and disconnects blocks and enforces coinbase maturity: that is validation code, which is outside `src/`. `MCConsensus` moves the tip instead.
- **bitcoin-tx helpers:** `ParseHashUO`, `ParseHexUO`, `AmountFromValue` and `Secp256k1Init` are parsing and library setup. Their throws are part of `sign`'s failure (`SignFails`).
- **Open questions, not yet checked** (most would need a violation run of their own):
  - A run that states section 4.2's "selects the one minimizing the outer hash" against `FindBestPatternHash`, which hashes every candidate as the same header.
  - `walletpassphrasechange`. `CWallet::ChangeWalletPassphrase` is not in this repository. As it is known from Bitcoin Core, it calls `Lock()` and then `Unlock()`, and the lock timer can fire between them, which would leave the wallet unlocked with no timer. Since that code is not here, the project lists no hazard for it.
  - A property on bitcoin-tx's `nSequence`: `stoul`'s 64-bit value is stored in 32 bits unchecked. The model already wraps it.
  - A multi-recipient `sendmany` with the `totalAmount` overflow. The wrapped total can pass the account check only when the recipients ask for more than 2^63 satoshi, which coin selection cannot cover. Showing this needs `CreateTransaction`, which is outside `src/`.
- **Startup, not modelled or not covered by a property:**
  - The 0.8 upgrade's hard links of old `blknnnn.dat` files (1318-1350), which can set `fReindex`. The links make a contiguous run from blk00000, so the cleanup keeps them all.
  - The rev?????.dat files. The cleanup removes them all, and the reindex writes them again.
  - An `OpenBlockFile` failure on a file that exists ends the reindex as if no files were left, and the later files stay on disk unread. `ReindexFinished` reaches this case, but no run states what should happen instead (see the hazard at part_001:485).
- **bitcoin-tx `atoi` arguments:** `delin`, `delout` and the VOUT of `in` are parsed with `atoi`, which reads text that is not a number as 0. The model's step for such an argument is the step for 0, so it is recorded as a hazard and not enumerated.
- **Blocks, not covered by a property:**
  - `GetBlockSize` returns its cached size even after the block changes. No caller in `src/` changes a block after sizing it.
  - `GetHeight` reads `sig[0]` without checking that the scriptSig is non-empty.
  - The thread-doubling loop of `FindBestPatternHash` (block.cpp 85) overflows for more than 2^30 threads, and then never ends. The model computes this (`Hangs`). The run enumerates only counts whose rounding fits, because the miner's thread count comes from outside `src/` and is bounded by the cores.
  - `SetNull` and `GetBlockHeader` change no state that any property depends on.
  - `VersionKnown` with vote bits at or above the mask bit: with bit 30 among them, a version with top bits 011 is accepted, which BIP9 would not do. No caller under `src/` passes such vote bits, so the run does not enumerate them.
  - `CTransaction::IsEquivalentTo` (transaction.cpp 98-107) compares the hashes of two transactions with their scriptSigs blanked. With the hash taken as injective, it is equality of everything but the scriptSigs. The model's transactions hold no field apart from the scriptSigs that two of them could differ in and still be compared, so a property on it would restate its definition.
- **Consensus constants:** `GetMaxBlockSigChecksCount` (consensus.h 87-90) is a single unsigned division. Its caller, validation, is outside `src/`, and the `static_assert` beside it already checks its value for 32 MB at compile time. `COINBASE_MATURITY` and the size limits are likewise read only by code outside `src/`.
- **Real constants:** `ValuationMatchesReference` with the real constants would need 64-bit integers. A random sample (not a TLC run) found respending churn gaining 1 satoshi in 5 of 200000 cases, which the scaled model does not show.
