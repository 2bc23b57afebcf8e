------------------------------ MODULE SpinLock ------------------------------
(***************************************************************************)
(* kernel/sync/spinlock.hpp, as the operations of RamFs use it: a guard    *)
(* takes m_lock, the operation reads the tables and writes them back, and  *)
(* the guard's destructor lets go.  One processor runs one task at a time  *)
(* and the timer moves it to the next one between any two steps, inside    *)
(* the operation too.                                                      *)
(***************************************************************************)
EXTENDS Integers

CONSTANTS
    N,          \* number of tasks
    MaxCalls    \* bound: calls a task makes

Tasks == 0 .. N - 1

ASSUME SpinLockAssumption == N \in Nat \ {0} /\ MaxCalls \in Nat

VARIABLES
    state,      \* m_state
    pc,         \* where each task is
    seen,       \* what each task has read of the tables
    tables,     \* the tables: how many operations have changed them
    calls,      \* operations each task has begun
    current     \* the task that runs

vars == <<state, pc, seen, tables, calls, current>>

Init ==
    /\ state = 0
    /\ pc = [t \in Tasks |-> "idle"]
    /\ seen = [t \in Tasks |-> 0]
    /\ tables = 0
    /\ calls = [t \in Tasks |-> 0]
    /\ current = 0

Goto(t, from, to) == current = t /\ pc[t] = from /\ pc' = [pc EXCEPT ![t] = to]

Call(t) ==
    /\ Goto(t, "idle", "lock")
    /\ calls[t] < MaxCalls
    /\ calls' = [calls EXCEPT ![t] = @ + 1]
    /\ UNCHANGED <<state, seen, tables, current>>

\* Mutant: the old value is not looked at.
TryLockBlind(t) ==
    /\ Goto(t, "lock", "read")
    /\ state' = 1
    /\ UNCHANGED <<seen, tables, calls, current>>

\* The xchg of try_lock that finds 0.  One that finds 1 writes it back, and
\* lock() tries again.
TryLock(t) ==
    /\ Goto(t, "lock", "read")
    /\ state = 0
    /\ state' = 1
    /\ UNCHANGED <<seen, tables, calls, current>>

\* The operation reads the tables,
ReadTables(t) ==
    /\ Goto(t, "read", "write")
    /\ seen' = [seen EXCEPT ![t] = tables]
    /\ UNCHANGED <<state, tables, calls, current>>

\* and writes what it made of them.
WriteTables(t) ==
    /\ Goto(t, "write", "unlock")
    /\ tables' = seen[t] + 1
    /\ UNCHANGED <<state, seen, calls, current>>

\* Mutant: an early return leaves the lock taken.
UnlockForgotten(t) ==
    /\ Goto(t, "unlock", "idle")
    /\ UNCHANGED <<state, seen, tables, calls, current>>

Unlock(t) ==
    /\ Goto(t, "unlock", "idle")
    /\ state' = 0
    /\ UNCHANGED <<seen, tables, calls, current>>

Step(t) == Call(t) \/ TryLock(t) \/ ReadTables(t) \/ WriteTables(t) \/ Unlock(t)

\* Mutant: the last task keeps the processor.
PreemptToLast ==
    /\ current' = IF current = N - 1 THEN current ELSE current + 1
    /\ UNCHANGED <<state, pc, seen, tables, calls>>

\* The timer's quantum is over.
Preempt ==
    /\ current' = (current + 1) % N
    /\ UNCHANGED <<state, pc, seen, tables, calls>>

Next == Preempt \/ \E t \in Tasks : Step(t)

\* The timer interrupts whatever runs, so every task runs again and again, and
\* a task that runs gets some instructions done in its quantum.
Fairness ==
    /\ WF_vars(Preempt)
    /\ \A t \in Tasks :
         SF_vars(TryLock(t) \/ ReadTables(t) \/ WriteTables(t) \/ Unlock(t))

Spec == Init /\ [][Next]_vars /\ Fairness

-----------------------------------------------------------------------------
Inside(t) == pc[t] \in {"read", "write", "unlock"}

\* Every variable keeps its type.
TypeOK ==
    /\ state \in {0, 1}
    /\ pc \in [Tasks -> {"idle", "lock", "read", "write", "unlock"}]
    /\ seen \in [Tasks -> Nat]
    /\ tables \in Nat
    /\ calls \in [Tasks -> 0 .. MaxCalls]
    /\ current \in Tasks

\* No two tasks are inside operations of the file system, wherever the timer
\* interrupts them.
MutualExclusion == \A t, u \in Tasks : Inside(t) /\ Inside(u) => t = u

\* What an operation has read is still so when it writes: no other task's
\* operation is lost, and each operation can be taken for a single step.
OperationsAtomic == \A t \in Tasks : pc[t] = "write" => seen[t] = tables

\* Whenever a task wants the lock some task gets it: the lock is never left
\* taken by nobody; and a task that was preempted inside an operation gets out
\* of it, although the others spin away their quanta.
LockProgress ==
    /\ (\E t \in Tasks : pc[t] = "lock") ~> (\E t \in Tasks : Inside(t))
    /\ \A t \in Tasks : Inside(t) ~> pc[t] = "idle"
=============================================================================
