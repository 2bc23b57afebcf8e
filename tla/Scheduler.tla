----------------------------- MODULE Scheduler -----------------------------
(***************************************************************************)
(* The preemptive round-robin scheduler of the 32-bit kernel:              *)
(* kernel/task/scheduler.cpp, driven by the timer interrupt                *)
(* (kernel/arch/x86/interrupts.cpp, irq0_handler) and by the kernel calls  *)
(* that end in it (sys_sleep, sys_exit, the shell's sleep).                *)
(*                                                                         *)
(* Granularity.  One CPU.  Kernel calls run with interrupts enabled        *)
(* (int 0x80 is a trap gate), so a call is cut at every point where a      *)
(* timer interrupt makes a difference: sleep_current samples the clock,    *)
(* marks the task and stores its wake tick in three steps, and             *)
(* mark_current_exited loads and stores its two counters in separate steps *)
(* (the kernel is built without optimisation).  The interrupt handler runs *)
(* with interrupts off and is one step.  Tasks are created with interrupts *)
(* off, as kmain does before interrupts::enable; LateCreate also lets      *)
(* kernel tasks create others, with interrupts masked, while the system    *)
(* runs.                                                                   *)
(*                                                                         *)
(* A stack pointer is a pair <<tid of the stack's owner, place>>; stacks   *)
(* are never freed.  cpu is the owner of the stack the CPU runs on.        *)
(***************************************************************************)
EXTENDS Integers, FiniteSets, Scan

CONSTANTS
    MaxTasks,       \* kMaxTasks
    MaxProcesses,   \* kMaxProcesses
    QuantumTicks,   \* kQuantumTicks
    TickMod,        \* 2^32: the tick counter is a uint32_t
    SleepTicks,     \* the durations sys_sleep and the shell's sleep are asked for
    Polls,          \* do the drivers' polling loops run?
    LateCreate,     \* may tasks be created once interrupts are enabled?
    MaxTid, MaxPid  \* bounds on the identifiers handed out

ASSUME SchedulerAssumption ==
    /\ MaxTasks \in Nat \ {0}
    /\ MaxProcesses \in Nat \ {0}
    /\ QuantumTicks \in Nat \ {0}
    /\ TickMod \in Nat \ {0, 1}
    /\ SleepTicks \subseteq Nat \ {0}
    /\ Polls \in BOOLEAN
    /\ LateCreate \in BOOLEAN
    /\ MaxTid \in Nat \ {0}
    /\ MaxPid \in Nat \ {0}

VARIABLES
    tasks,          \* g_tasks
    procs,          \* g_processes
    current,        \* g_current_task
    nextPid,        \* g_next_pid
    nextTid,        \* g_next_tid
    processCount,   \* g_process_count
    threadCount,    \* g_thread_count
    ticks,          \* interrupts.cpp: g_ticks
    intr,           \* are interrupts enabled yet?
    cr3,            \* the address space the MMU uses
    esp0,           \* TSS.esp0
    cpu,            \* owner of the running stack
    call            \* where each task is inside a kernel call

tables == <<tasks, procs>>
counters == <<nextPid, nextTid, processCount, threadCount>>
machine == <<current, cr3, esp0, cpu>>
vars == <<tasks, procs, current, nextPid, nextTid, processCount, threadCount,
          ticks, intr, cr3, esp0, cpu, call>>

-----------------------------------------------------------------------------
Slots == 0 .. MaxTasks - 1
ProcSlots == 0 .. MaxProcesses - 1
NoWakeTick == TickMod - 1

Null == <<0, "null">>
Pointers == {Null} \cup ((1 .. MaxTid) \X {"boot", "initial", "top", "frame"})

\* Address spaces: none, the kernel's, and the clone made for a process.
NoSpace == 0
KernelPid == 1
KernelSpace == 1
CloneSpace(pid) == pid

TaskStates == {"Unused", "Runnable", "Sleeping", "Exited"}

Task == [state : TaskStates, tid : 0 .. MaxTid, pid : 0 .. MaxPid,
         saved_esp : Pointers, wake_tick : 0 .. TickMod - 1, ring : {0, 3},
         kernel_stack_top : Pointers, user_started : BOOLEAN]

ClearTask ==
    [state |-> "Unused", tid |-> 0, pid |-> 0, saved_esp |-> Null,
     wake_tick |-> NoWakeTick, ring |-> 0, kernel_stack_top |-> Null,
     user_started |-> FALSE]

Process == [used : BOOLEAN, pid : 0 .. MaxPid, parent_pid : 0 .. MaxPid,
            live_threads : Nat, address_space : 0 .. MaxPid]

ClearProcess == [used |-> FALSE, pid |-> 0, parent_pid |-> 0,
                 live_threads |-> 0, address_space |-> NoSpace]

Points == {"run", "sampled", "marked", "wait", "exit1", "exit2", "exit3", "halted"}

Call == [at : Points, now : 0 .. TickMod - 1, n : SleepTicks \cup {0, 1},
         waits : BOOLEAN, reg : Nat]

\* Outside any call, and in one: the fields in use at that point.
InCall(point, now, n, waits, reg) ==
    [at |-> point, now |-> now, n |-> n, waits |-> waits, reg |-> reg]
Running == InCall("run", 0, 0, FALSE, 0)
Exiting(point, reg) == InCall(point, 0, 0, FALSE, reg)

-----------------------------------------------------------------------------
\* find_process: the slots of the process with this pid (none, or one).
FindProcess(pid) == {i \in ProcSlots : procs[i].used /\ procs[i].pid = pid}

FreeProcSlots == {i \in ProcSlots : ~procs[i].used}

\* alloc_task_slot
FreeTaskSlots == {s \in Slots : tasks[s].state \in {"Unused", "Exited"}}

\* What waking a task and ending it have in common.
NoLongerAsleep(t, state) == [t EXCEPT !.state = state, !.wake_tick = NoWakeTick]

Dec(n) == IF n > 0 THEN n - 1 ELSE n

\* init: the kernel process in slot 0 and the boot thread as task 0.
Init ==
    /\ tasks = [s \in Slots |->
                  IF s = 0 THEN [state |-> "Runnable", tid |-> 1, pid |-> KernelPid,
                                 saved_esp |-> <<1, "boot">>, wake_tick |-> NoWakeTick,
                                 ring |-> 0, kernel_stack_top |-> Null,
                                 user_started |-> FALSE]
                  ELSE ClearTask]
    /\ procs = [i \in ProcSlots |->
                  IF i = 0 THEN [used |-> TRUE, pid |-> KernelPid, parent_pid |-> 0,
                                 live_threads |-> 1, address_space |-> KernelSpace]
                  ELSE ClearProcess]
    /\ current = 0
    /\ nextPid = 2
    /\ nextTid = 2
    /\ processCount = 1
    /\ threadCount = 1
    /\ ticks = 0
    /\ intr = FALSE
    /\ cr3 = KernelSpace
    /\ esp0 = <<1, "boot">>
    /\ cpu = 1
    /\ call = [s \in Slots |-> Running]

-----------------------------------------------------------------------------
(* Creating tasks (create_kernel_task, create_process_task,                *)
(* create_ring3_task).  heapOk says whether heap::alloc finds room for the *)
(* task's stack, cloneOk whether the address space can be cloned.  A call  *)
(* that fails before it has changed anything is a stuttering step.         *)

MayCreate ==
    /\ intr => LateCreate
    /\ tasks[current].ring = 0
    /\ call[current].at = "run"
    /\ nextTid <= MaxTid

\* Mutant: the stack pointer of a new task is never stored.
NewTaskNoFrame(pid, ring) ==
    [ClearTask EXCEPT !.state = "Runnable", !.tid = nextTid, !.pid = pid, !.ring = ring,
       !.kernel_stack_top = IF ring = 3 THEN <<nextTid, "top">> ELSE Null]

\* A new kernel task resumes in task_entry_trampoline through the frame that
\* setup_initial_task_stack builds; a ring-3 task starts at its stack's top.
NewTask(pid, ring) ==
    [state |-> "Runnable", tid |-> nextTid, pid |-> pid,
     saved_esp |-> <<nextTid, IF ring = 3 THEN "top" ELSE "initial">>,
     wake_tick |-> NoWakeTick, ring |-> ring,
     kernel_stack_top |-> IF ring = 3 THEN <<nextTid, "top">> ELSE Null,
     user_started |-> FALSE]

\* The tail of create_task_for_process and of create_ring3_task, once the
\* slot is cleared and the stack allocated.
StartTask(pid, ring) ==
    LET slot == First(FreeTaskSlots)
    IN /\ tasks' = [tasks EXCEPT ![slot] = NewTask(pid, ring)]
       /\ call' = [call EXCEPT ![slot] = Running]
       /\ nextTid' = nextTid + 1
       /\ threadCount' = threadCount + 1

\* Mutant: the failure path undoes an increment that was not made.
FailTaskUncounts(heapOk) ==
    /\ FreeTaskSlots = {} \/ ~heapOk
    /\ threadCount' = Dec(threadCount)
    /\ UNCHANGED <<tasks, call, nextTid>>

\* The failure path: a slot that was found is left cleared.
FailTask(heapOk) ==
    /\ FreeTaskSlots = {} \/ ~heapOk
    /\ tasks' = IF FreeTaskSlots = {} THEN tasks
                ELSE [tasks EXCEPT ![First(FreeTaskSlots)] = ClearTask]
    /\ call' = IF FreeTaskSlots = {} THEN call
               ELSE [call EXCEPT ![First(FreeTaskSlots)] = Running]
    /\ UNCHANGED <<nextTid, threadCount>>

CreateKernelTask(heapOk) ==
    /\ MayCreate
    /\ FindProcess(KernelPid) # {}
    /\ \/ /\ FreeTaskSlots # {} /\ heapOk
          /\ StartTask(KernelPid, 0)
          /\ procs' = [procs EXCEPT ![First(FindProcess(KernelPid))].live_threads = @ + 1]
       \/ FailTask(heapOk) /\ UNCHANGED procs
    /\ UNCHANGED <<nextPid, processCount, ticks, intr, machine>>

\* create_process followed by the task.  The pid is consumed even when the
\* clone fails; when only the task fails the process slot is cleared again.
CreateProcess(ring, cloneOk, heapOk) ==
    /\ MayCreate /\ nextPid <= MaxPid
    /\ FreeProcSlots # {}
    /\ nextPid' = nextPid + 1
    /\ \/ /\ ~cloneOk
          /\ UNCHANGED <<tables, call, nextTid, processCount, threadCount>>
       \/ /\ cloneOk /\ heapOk /\ FreeTaskSlots # {}
          /\ StartTask(nextPid, ring)
          /\ procs' = [procs EXCEPT ![First(FreeProcSlots)] =
                         [used |-> TRUE, pid |-> nextPid,
                          parent_pid |-> tasks[current].pid, live_threads |-> 1,
                          address_space |-> CloneSpace(nextPid)]]
          /\ processCount' = processCount + 1
       \/ /\ cloneOk /\ FailTask(heapOk)
          /\ UNCHANGED <<procs, processCount>>
    /\ UNCHANGED <<ticks, intr, machine>>

CreateProcessTask(cloneOk, heapOk) == CreateProcess(0, cloneOk, heapOk)
CreateRing3Task(cloneOk, heapOk) == CreateProcess(3, cloneOk, heapOk)

\* kmain: interrupts::enable, once the boot thread has created its tasks.
EnableInterrupts ==
    /\ ~intr
    /\ intr' = TRUE
    /\ UNCHANGED <<tables, counters, ticks, machine, call>>

-----------------------------------------------------------------------------
(* Sleeping.  sys_sleep and the shell's sleep sample the tick counter,     *)
(* call sleep_current and then halt until is_current_sleeping is false;    *)
(* the polling loops of the xHCI and AHCI drivers sleep one tick and go on *)
(* running.                                                                *)

At(point) == intr /\ call[current].at = point

Goto(point) == call' = [call EXCEPT ![current].at = point]

SleepSample(n, waits) ==
    /\ At("run")
    /\ IF waits THEN n \in SleepTicks ELSE Polls /\ n = 1 /\ tasks[current].ring = 0
    /\ call' = [call EXCEPT ![current] = InCall("sampled", ticks, n, waits, 0)]
    /\ UNCHANGED <<tables, counters, ticks, intr, machine>>

\* scheduler.cpp:615, the first of sleep_current's two stores
SleepMark ==
    /\ At("sampled")
    /\ tasks' = [tasks EXCEPT ![current].state = "Sleeping"]
    /\ Goto("marked")
    /\ UNCHANGED <<procs, counters, ticks, intr, machine>>

\* scheduler.cpp:616, in 32-bit arithmetic
SleepStore ==
    /\ At("marked")
    /\ tasks' = [tasks EXCEPT ![current].wake_tick =
                   (call[current].now + call[current].n) % TickMod]
    /\ call' = [call EXCEPT ![current] =
                  InCall(IF call[current].waits THEN "wait" ELSE "run", 0, 0, FALSE, 0)]
    /\ UNCHANGED <<procs, counters, ticks, intr, machine>>

\* Mutant: off by one in the test of the waiting loop.
IsCurrentSleepingShort(now) ==
    tasks[current].state = "Sleeping" /\ now + 1 < tasks[current].wake_tick

IsCurrentSleeping(now) ==
    tasks[current].state = "Sleeping" /\ now < tasks[current].wake_tick

SleepReturn ==
    /\ At("wait")
    /\ ~IsCurrentSleeping(ticks)
    /\ Goto("run")
    /\ UNCHANGED <<tables, counters, ticks, intr, machine>>

-----------------------------------------------------------------------------
(* Exiting: mark_current_exited, from sys_exit or when the entry function  *)
(* of a kernel task returns to its trampoline.  Each counter is loaded in  *)
(* one step and stored in a later one.                                     *)

OwnProcess == FindProcess(tasks[current].pid)

ExitLoadLive ==
    /\ At("run")
    /\ tasks[current].state # "Exited"
    /\ call' = [call EXCEPT ![current] =
                  Exiting("exit1", IF OwnProcess = {} THEN 0
                                   ELSE procs[First(OwnProcess)].live_threads)]
    /\ UNCHANGED <<tables, counters, ticks, intr, machine>>

ExitStoreLive ==
    /\ At("exit1")
    /\ procs' = IF OwnProcess = {} THEN procs
                ELSE [procs EXCEPT ![First(OwnProcess)].live_threads = Dec(call[current].reg)]
    /\ call' = [call EXCEPT ![current] = Exiting("exit2", threadCount)]
    /\ UNCHANGED <<tasks, counters, ticks, intr, machine>>

ExitStoreCount ==
    /\ At("exit2")
    /\ threadCount' = Dec(call[current].reg)
    /\ call' = [call EXCEPT ![current] = Exiting("exit3", 0)]
    /\ UNCHANGED <<tables, nextPid, nextTid, processCount, ticks, intr, machine>>

\* The task then halts until the timer takes the CPU away for good.
ExitDone ==
    /\ At("exit3")
    /\ tasks' = [tasks EXCEPT ![current] = NoLongerAsleep(@, "Exited")]
    /\ Goto("halted")
    /\ UNCHANGED <<procs, counters, ticks, intr, machine>>

-----------------------------------------------------------------------------
(* The timer interrupt: irq0_handler and on_timer_interrupt.               *)

\* Mutant: > for >=.
WakeSleepingTasksLate(ts, now) ==
    [s \in Slots |->
       IF ts[s].state = "Sleeping" /\ now > ts[s].wake_tick
       THEN NoLongerAsleep(ts[s], "Runnable")
       ELSE ts[s]]

WakeSleepingTasks(ts, now) ==
    [s \in Slots |->
       IF ts[s].state = "Sleeping" /\ now >= ts[s].wake_tick
       THEN NoLongerAsleep(ts[s], "Runnable")
       ELSE ts[s]]

\* Mutant: the scan starts at slot 0 instead of after the current task.
PickFirstRunnable(ts, c) ==
    LET runnable == {s \in Slots : ts[s].state = "Runnable"}
    IN IF runnable = {} THEN c ELSE First(runnable)

\* Mutant: only sleeping and unused slots are skipped.
PickNextExitedToo(ts, c) ==
    LET offsets == {o \in 1 .. MaxTasks :
                      ts[(c + o) % MaxTasks].state \in {"Runnable", "Exited"}}
    IN IF offsets = {} THEN c ELSE (c + First(offsets)) % MaxTasks

PickNextRunnable(ts, c) ==
    LET offsets == {o \in 1 .. MaxTasks : ts[(c + o) % MaxTasks].state = "Runnable"}
    IN IF offsets = {} THEN c ELSE (c + First(offsets)) % MaxTasks

\* Mutant: no reload on the way back to the kernel process.
NextCr3NotKernel(ts, next) ==
    LET owner == FindProcess(ts[next].pid)
    IN IF ts[next].pid # KernelPid /\ owner # {} THEN procs[First(owner)].address_space
       ELSE cr3

\* The address space is switched when the processes differ.
NextCr3(ts, next) ==
    LET owner == FindProcess(ts[next].pid)
    IN IF /\ ts[current].pid # ts[next].pid
          /\ owner # {}
          /\ procs[First(owner)].address_space # NoSpace
       THEN procs[First(owner)].address_space
       ELSE cr3

\* Choose a task and resume it: through prepare_ring3_iret_frame when it is a
\* ring-3 task that has not run yet, else through its saved frame.  (A task
\* without a saved frame would leave the interrupted stack running.)
Dispatch(ts) ==
    LET next == PickNextRunnable(ts, current)
        t == ts[next]
    IN /\ current' = next
       /\ cr3' = NextCr3(ts, next)
       /\ cpu' = IF t.saved_esp = Null THEN cpu ELSE t.saved_esp[1]
       /\ esp0' = IF t.saved_esp = Null THEN esp0
                  ELSE IF t.ring = 3
                       THEN IF t.kernel_stack_top # Null THEN t.kernel_stack_top ELSE esp0
                       ELSE IF next # current THEN t.saved_esp ELSE esp0
       /\ tasks' = IF t.saved_esp # Null /\ t.ring = 3
                   THEN [ts EXCEPT ![next].user_started = TRUE]
                   ELSE ts

QuantumOver(now) == now % QuantumTicks = 0

TimerInterrupt ==
    LET now == (ticks + 1) % TickMod
        saved == [tasks EXCEPT ![current].saved_esp = <<cpu, "frame">>]
        woken == WakeSleepingTasks(saved, now)
    IN /\ intr
       /\ ticks' = now
       /\ IF QuantumOver(now) THEN Dispatch(woken)
          ELSE tasks' = woken /\ UNCHANGED machine
       /\ UNCHANGED <<procs, counters, intr, call>>

Next ==
    \/ \E heapOk \in BOOLEAN : CreateKernelTask(heapOk)
    \/ \E cloneOk, heapOk \in BOOLEAN : CreateProcessTask(cloneOk, heapOk)
    \/ \E cloneOk, heapOk \in BOOLEAN : CreateRing3Task(cloneOk, heapOk)
    \/ EnableInterrupts
    \/ \E n \in SleepTicks \cup {1}, waits \in BOOLEAN : SleepSample(n, waits)
    \/ SleepMark
    \/ SleepStore
    \/ SleepReturn
    \/ ExitLoadLive
    \/ ExitStoreLive
    \/ ExitStoreCount
    \/ ExitDone
    \/ TimerInterrupt

Spec == Init /\ [][Next]_vars

\* kmain gets to interrupts::enable, and from then on the PIT raises IRQ0 for as
\* long as the machine runs: ticks change for ever.  (TimerInterrupt is enabled
\* whenever interrupts are, so this is weak fairness of EnableInterrupts and of
\* TimerInterrupt.)  Nothing else is fair: a task may stay inside a call, or
\* never call at all.
FairSpec == Spec /\ []<><<TRUE>>_ticks

-----------------------------------------------------------------------------
Live(s) == tasks[s].state \in {"Runnable", "Sleeping"}
Named(s) == tasks[s].state # "Unused"
UsedProcs == {i \in ProcSlots : procs[i].used}

\* Every variable keeps its type; ticks and wake ticks stay within 32 bits.
TypeOK ==
    /\ tasks \in [Slots -> Task]
    /\ procs \in [ProcSlots -> Process]
    /\ current \in Slots
    /\ nextPid \in 1 .. MaxPid + 1
    /\ nextTid \in 1 .. MaxTid + 1
    /\ processCount \in Nat
    /\ threadCount \in Nat
    /\ ticks \in 0 .. TickMod - 1
    /\ intr \in BOOLEAN
    /\ cr3 \in 0 .. MaxPid
    /\ esp0 \in Pointers
    /\ cpu \in 1 .. MaxTid
    /\ call \in [Slots -> Call]

\* Task and process identifiers are never shared: two slots that hold a task
\* (dead ones included: task_entry_trampoline finds its entry by tid) differ in
\* tid, two used process slots differ in pid, every task belongs to a process
\* in use, and so does every process's parent, which is older than it.
IdentitiesUnique ==
    /\ \A s, t \in Slots : Named(s) /\ Named(t) /\ s # t => tasks[s].tid # tasks[t].tid
    /\ \A i, j \in UsedProcs : i # j => procs[i].pid # procs[j].pid
    /\ \A s \in Slots : Named(s) => FindProcess(tasks[s].pid) # {}
    /\ \A i \in UsedProcs : procs[i].parent_pid # 0 =>
         /\ FindProcess(procs[i].parent_pid) # {}
         /\ procs[i].parent_pid < procs[i].pid

\* The CPU runs on the stack of the task the scheduler calls current, and every
\* other task can be resumed on its own stack: through a complete saved frame,
\* or, for a ring-3 task that never ran, through the frame that its first
\* dispatch builds at the top of its stack.  on_timer_interrupt's fallback for
\* a task without a saved frame would run one task under another's identity.
StacksNotMixed ==
    /\ Named(current)
    /\ cpu = tasks[current].tid
    /\ \A s \in Slots \ {current} : Named(s) =>
         /\ tasks[s].saved_esp[1] = tasks[s].tid
         /\ tasks[s].saved_esp[2] = "top" <=> tasks[s].ring = 3 /\ ~tasks[s].user_started

\* The MMU uses the address space of the running task's process, although
\* on_timer_interrupt reloads cr3 only when the two tasks' pids differ; and two
\* processes never share an address space.
AddressSpaceFollowsTask ==
    /\ \A i \in FindProcess(tasks[current].pid) : cr3 = procs[i].address_space
    /\ \A i, j \in UsedProcs : i # j => procs[i].address_space # procs[j].address_space

\* While a ring-3 task runs, an interrupt or system call switches to that
\* task's own kernel stack: TSS.esp0 is its kernel_stack_top.
Ring3EntersOwnKernelStack ==
    tasks[current].ring = 3 => esp0 = <<tasks[current].tid, "top">>

\* The number of tasks g_thread_count has to account for: those alive that have
\* not yet taken themselves off the counter.
Uncounted == {s \in Slots : Live(s) /\ call[s].at # "exit3"}

\* When tasks are created only before interrupts are enabled, as kmain does,
\* racing exits can leave g_thread_count too high but never too low: no live
\* task is missing from it.
ThreadCountCoversLive == ~LateCreate => threadCount >= Cardinality(Uncounted)

\* Once it is switched out, an exited task never gets the CPU again: its slot
\* can only be reused, by a creation, and runs as another task after that.
ExitedNeverResumes ==
    [][\A s \in Slots : tasks[s].state = "Exited" /\ current' = s => current = s]_vars

\* Preemption happens only at quantum boundaries, so a task keeps the CPU until
\* the tick counter reaches a multiple of kQuantumTicks.
SwitchOnlyAtQuantum ==
    [][current' # current => ticks' # ticks /\ ticks' % QuantumTicks = 0]_vars

\* A task that is runnable or asleep gets the CPU again, however the others
\* behave: round robin passes nobody over, and a sleeper is woken, also across a
\* wrap of the tick counter and when it was preempted inside sleep_current.
TaskGetsCpu ==
    \A s \in Slots : (tasks[s].state \in {"Runnable", "Sleeping"}) ~> (current = s)
=============================================================================
