--------------------------- MODULE NodeLifecycle ----------------------------
(***************************************************************************)
(* What startup and shutdown of the node promise (the quiescence rule of  *)
(* the specification, section 4.8, and init.cpp's comments), without the  *)
(* steps that get there.  The node initialises, possibly starting         *)
(* threads; initialisation fails or succeeds; a running node stops only   *)
(* once a shutdown is requested; a stopping node stops its threads and    *)
(* exits, deleting the chain state, only when none is left.  The import   *)
(* thread may return on its own at any time, requesting a shutdown as it  *)
(* returns (-stopafterblockimport).  A request may be withdrawn while the *)
(* node initialises (the offer to rebuild the block index), never later.  *)
(***************************************************************************)
CONSTANT Threads   \* the kinds of threads the node runs

VARIABLES
    phase,       \* "init", "running", "stopping" or "stopped"
    requested,   \* a shutdown has been requested
    threads,     \* the threads that are running
    chainState   \* the UTXO views: "open" or "deleted"

avars == <<phase, requested, threads, chainState>>

Init == /\ phase = "init"
        /\ requested = FALSE
        /\ threads = {}
        /\ chainState = "open"

StartThreads == /\ phase = "init"
                /\ threads' \in SUBSET Threads
                /\ threads \subseteq threads'
                /\ UNCHANGED <<phase, requested, chainState>>

InitSucceeds == /\ phase = "init"
                /\ phase' = "running"
                /\ threads' \in SUBSET Threads
                /\ threads \subseteq threads'
                /\ UNCHANGED <<requested, chainState>>

InitFails == /\ phase = "init"
             /\ phase' = "stopping"
             /\ threads' \in SUBSET Threads
             /\ threads \subseteq threads'
             /\ UNCHANGED <<requested, chainState>>

RequestShutdown == /\ phase # "stopped"
                   /\ ~requested
                   /\ requested' = TRUE
                   /\ UNCHANGED <<phase, threads, chainState>>

WithdrawRequest == /\ phase = "init"
                   /\ requested' = FALSE
                   /\ UNCHANGED <<phase, threads, chainState>>

ImportReturns == /\ "import" \in threads
                 /\ threads' = threads \ {"import"}
                 /\ requested' \in {requested, TRUE}
                 /\ UNCHANGED <<phase, chainState>>

Stop == /\ phase = "running"
        /\ requested
        /\ phase' = "stopping"
        /\ threads' \subseteq threads
        /\ UNCHANGED <<requested, chainState>>

StopThreads == /\ phase = "stopping"
               /\ threads # {}
               /\ threads' \subseteq threads /\ threads' # threads
               /\ UNCHANGED <<phase, requested, chainState>>

Exit == /\ phase = "stopping"
        /\ threads = {}
        /\ phase' = "stopped"
        /\ chainState' = "deleted"
        /\ UNCHANGED <<requested, threads>>

Next == \/ StartThreads \/ InitSucceeds \/ InitFails \/ RequestShutdown
        \/ WithdrawRequest \/ ImportReturns \/ Stop \/ StopThreads \/ Exit

\* Initialisation ends, a running node whose shutdown is requested stops,
\* and a stopping node exits; nobody is obliged to request a shutdown.
Liveness == /\ phase = "init" ~> phase # "init"
            /\ (phase = "running" /\ requested) ~> phase = "stopping"
            /\ phase = "stopping" ~> phase = "stopped"

Spec == Init /\ [][Next]_avars /\ Liveness
====
