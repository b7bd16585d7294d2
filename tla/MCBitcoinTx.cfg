\* Five commands: enough to add an input, set both registers and sign, or
\* to sign and then change what a signature commits to.
CONSTANTS
    o1 = o1
    o2 = o2
    s1 = s1
    s2 = s2
    p1 = p1
    Outpoints <- MCOutpoints
    Scripts <- MCScripts
    Payees <- MCPayees
    VersionArgs <- MCVersionArgs
    LockArgs <- MCLockArgs
    SeqArgs <- MCSeqArgs
    FlagArgs <- MCFlagArgs
    KeyValues <- MCKeyValues
    PrevtxsValues <- MCPrevtxsValues
    CURRENT_VERSION = 2
    LockBits = 3
    SeqBits = 2
    MaxIns = 2
    MaxOuts = 2
    MaxCmds = 5
    NoSig = NoSig
    Unset = Unset
    BadJson = BadJson
    NoSeq = NoSeq
    SigHashOne = SigHashOne
    BlankOut = BlankOut

SPECIFICATION Spec

\* The program ends after printing its result or its first error.
CHECK_DEADLOCK FALSE

INVARIANT NoSignatureOverHashOne
INVARIANT SignCoversSignable
INVARIANT LockTimeIsArgument
