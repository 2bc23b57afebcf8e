---------------------------- MODULE MCPreemption ----------------------------
(***************************************************************************)
(* What preemption must not disturb, as one model: a behaviour is one of   *)
(* tasks that share the lock of the file system (SpinLock), or of tasks    *)
(* whose stacks the timer and system calls put frames on (TrapFrame).      *)
(***************************************************************************)
EXTENDS SpinLock

CONSTANTS Threads, Boot, StackSize, Locals

VARIABLES part, mem, cpu, thread, saved, inCall, program

trapVars == <<mem, cpu, thread, saved, inCall, program>>
allVars == <<part, vars, trapVars>>

T == INSTANCE TrapFrame WITH Tasks <- Threads, current <- thread

ASSUME PreemptionAssumption == T!TrapFrameConstants

-----------------------------------------------------------------------------
MCInit == part \in {"lock", "frames"} /\ Init /\ T!Init

Locking(A) == part = "lock" /\ A /\ UNCHANGED <<part, trapVars>>

MCNext ==
    \/ Locking(Next)
    \/ part = "frames" /\ T!Next /\ UNCHANGED <<part, vars>>

\* The fairness of SpinLock.
MCFairness ==
    /\ WF_allVars(Locking(Preempt))
    /\ \A t \in Tasks :
         SF_allVars(Locking(TryLock(t) \/ ReadTables(t) \/ WriteTables(t) \/ Unlock(t)))

MCSpec == MCInit /\ [][MCNext]_allVars /\ MCFairness

-----------------------------------------------------------------------------
\* Code finds its registers as an interrupt found them (TrapFrame).
InterruptsInvisible == T!InterruptsInvisible

\* A system call gets the registers of its caller as arguments (TrapFrame).
ArgumentsArrive == T!ArgumentsArrive
=============================================================================
