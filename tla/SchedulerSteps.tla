--------------------------- MODULE SchedulerSteps ---------------------------
(***************************************************************************)
(* The scheduler's types, its inductive invariant, and that every step     *)
(* keeps it (sys_sleep, sys_exit, the timer interrupt, the three ways to   *)
(* create a task), for any number of tasks, processes and ticks.           *)
(***************************************************************************)
EXTENDS Scheduler, TLAPS

USE SchedulerAssumption

\* What alloc_task_slot, create_process, find_process and pick_next_runnable rely
\* on: a scan that stops at the first match returns a match.  The steps are
\* proved from it here; SchedulerProofs proves it, by well-founded induction.
ScanFinds == \A S \in SUBSET Nat : S # {} => First(S) \in S

-----------------------------------------------------------------------------
(* Types: TypeOK is inductive as it stands.                                *)

\* alloc_task_slot, when it finds a slot, returns an index of g_tasks.
LEMMA FreeTaskSlotIsSlot ==
    ScanFinds /\ FreeTaskSlots # {} => First(FreeTaskSlots) \in FreeTaskSlots /\ First(FreeTaskSlots) \in Slots
BY DEF ScanFinds, FreeTaskSlots, Slots

\* create_process, when it finds a slot, takes an index of g_processes.
LEMMA FreeProcSlotIsSlot ==
    ScanFinds /\ FreeProcSlots # {} => First(FreeProcSlots) \in FreeProcSlots /\ First(FreeProcSlots) \in ProcSlots
BY DEF ScanFinds, FreeProcSlots, ProcSlots

\* find_process, when it finds a process, returns a slot that holds the pid.
LEMMA FindProcessIsSlot ==
    ASSUME ScanFinds, NEW pid, FindProcess(pid) # {}
    PROVE  First(FindProcess(pid)) \in FindProcess(pid) /\ First(FindProcess(pid)) \in ProcSlots
BY DEF ScanFinds, FindProcess, ProcSlots

\* A remainder lies below its divisor: task indices and tick counts stay in
\* range.
LEMMA ModInRange ==
    ASSUME NEW a \in Nat, NEW b \in Nat \ {0}
    PROVE  a % b \in 0 .. b - 1
OBVIOUS

\* pick_next_runnable returns a runnable slot or, when there is none, the one
\* it was given.
LEMMA PickedIsRunnable ==
    ASSUME ScanFinds, NEW ts, NEW c \in Slots
    PROVE  /\ PickNextRunnable(ts, c) \in Slots
           /\ PickNextRunnable(ts, c) = c \/ ts[PickNextRunnable(ts, c)].state = "Runnable"
<1> DEFINE Offset(o) == ts[(c + o) % MaxTasks].state = "Runnable"
           offsets == {o \in 1 .. MaxTasks : Offset(o)}
<1>1. PickNextRunnable(ts, c) = IF offsets = {} THEN c ELSE (c + First(offsets)) % MaxTasks
  BY DEF PickNextRunnable
<1> HIDE DEF Offset
<1>2. CASE offsets = {}
  BY <1>1, <1>2
<1>3. CASE offsets # {}
  <2>1. offsets \in SUBSET Nat
    OBVIOUS
  <2>2. First(offsets) \in offsets
    BY <1>3, <2>1 DEF ScanFinds
  <2> DEFINE o == First(offsets)
  <2> HIDE DEF o
  <2>3. o \in 1 .. MaxTasks /\ Offset(o)
    BY <2>2 DEF o
  <2>4. (c + o) % MaxTasks \in Slots
    BY <2>3, ModInRange DEF Slots
  <2> QED
    BY <1>1, <1>3, <2>3, <2>4 DEF Offset, o
<1> QED
  BY <1>2, <1>3

\* What clear_task leaves is a task record.
LEMMA ClearTaskType == ClearTask \in Task
BY DEF ClearTask, Task, TaskStates, Pointers, Null, NoWakeTick

\* What the three ways to create a task leave in its slot is a task record.
LEMMA NewTaskType ==
    ASSUME nextTid \in 1 .. MaxTid, NEW pid \in 0 .. MaxPid, NEW ring \in {0, 3}
    PROVE  NewTask(pid, ring) \in Task
<1> DEFINE esp == <<nextTid, IF ring = 3 THEN "top" ELSE "initial">>
           top == IF ring = 3 THEN <<nextTid, "top">> ELSE Null
<1>1. esp \in Pointers /\ top \in Pointers
  BY DEF Pointers
<1> QED
  BY <1>1 DEF NewTask, Task, TaskStates, NoWakeTick

\* The fields the code stores into a task one at a time.
LEMMA TaskUpdateType ==
    ASSUME NEW t \in Task
    PROVE  /\ \A x \in TaskStates : [t EXCEPT !.state = x] \in Task
           /\ \A w \in 0 .. TickMod - 1 : [t EXCEPT !.wake_tick = w] \in Task
           /\ \A p \in Pointers : [t EXCEPT !.saved_esp = p] \in Task
           /\ [t EXCEPT !.user_started = TRUE] \in Task
BY Zenon DEF Task

\* Waking a task leaves a task record.
LEMMA NoLongerAsleepType ==
    ASSUME NEW t \in Task, NEW state \in TaskStates
    PROVE  NoLongerAsleep(t, state) \in Task
<1> DEFINE u == [t EXCEPT !.state = state]
<1>1. NoLongerAsleep(t, state) = [u EXCEPT !.wake_tick = NoWakeTick]
  BY Zenon DEF NoLongerAsleep
<1>2. u \in Task
  BY Zenon, TaskUpdateType
<1>3. NoWakeTick \in 0 .. TickMod - 1
  BY DEF NoWakeTick
<1> HIDE DEF u
<1> QED
  BY Zenon, <1>1, <1>2, <1>3, TaskUpdateType

\* The tick at which a sleeper is to wake is a tick count.
LEMMA WakeType ==
    ASSUME NEW ts \in [Slots -> Task], NEW now
    PROVE  WakeSleepingTasks(ts, now) \in [Slots -> Task]
<1> SUFFICES ASSUME NEW s \in Slots
             PROVE  (IF ts[s].state = "Sleeping" /\ now >= ts[s].wake_tick
                     THEN NoLongerAsleep(ts[s], "Runnable") ELSE ts[s]) \in Task
  BY DEF WakeSleepingTasks
<1> QED
  BY NoLongerAsleepType DEF TaskStates

\* The time since a sleeper started is a tick count, across the wrap of
\* g_ticks.
LEMMA DurationIsNat ==
    ASSUME NEW n \in SleepTicks \cup {0, 1}
    PROVE  n \in Nat
<1>1. CASE n \in SleepTicks
  BY <1>1
<1>2. CASE n \in {0, 1}
  BY <1>2
<1> QED
  BY <1>1, <1>2

\* A position inside sys_sleep or sys_exit is well typed.
LEMMA InCallType ==
    ASSUME NEW point \in Points, NEW now \in 0 .. TickMod - 1, NEW n \in SleepTicks \cup {0, 1},
           NEW waits \in BOOLEAN, NEW reg \in Nat
    PROVE  InCall(point, now, n, waits, reg) \in Call
BY Zenon DEF InCall, Call

\* Being outside any system call is a well-typed position.
LEMMA RunningType == Running \in Call
<1>1. 0 \in 0 .. TickMod - 1 /\ 0 \in SleepTicks \cup {0, 1} /\ "run" \in Points
  BY DEF Points
<1> QED
  BY Zenon, <1>1, InCallType DEF Running

-----------------------------------------------------------------------------
(* Type correctness.                                                       *)

\* scheduler::init leaves well-typed tables.
LEMMA TypeInit == Init => TypeOK
<1> SUFFICES ASSUME Init PROVE TypeOK
  OBVIOUS
<1>1. <<1, "boot">> \in Pointers /\ Null \in Pointers
  BY DEF Pointers
<1>2. tasks[0] \in Task
  BY <1>1 DEF Init, Task, TaskStates, NoWakeTick, KernelPid, Slots
<1>3. tasks \in [Slots -> Task]
  <2> SUFFICES ASSUME NEW s \in Slots PROVE tasks[s] \in Task
    BY Zenon DEF Init
  <2> QED
    BY <1>2, ClearTaskType DEF Init
<1>4. procs \in [ProcSlots -> Process]
  BY DEF Init, Process, ClearProcess, KernelPid, KernelSpace, NoSpace
<1>5. call \in [Slots -> Call]
  BY RunningType DEF Init
<1>6. /\ current \in Slots /\ nextPid \in 1 .. MaxPid + 1 /\ nextTid \in 1 .. MaxTid + 1
      /\ processCount \in Nat /\ threadCount \in Nat /\ ticks \in 0 .. TickMod - 1
      /\ cr3 \in 0 .. MaxPid /\ cpu \in 1 .. MaxTid
  BY DEF Init, Slots, KernelSpace
<1>7. intr \in BOOLEAN /\ esp0 \in Pointers
  BY Zenon, <1>1 DEF Init
<1> QED
  BY <1>3, <1>4, <1>5, <1>6, <1>7 DEF TypeOK

\* Filling a task slot keeps the types.
LEMMA StartTaskType ==
    ASSUME ScanFinds, TypeOK, nextTid <= MaxTid, FreeTaskSlots # {},
           NEW pid \in 0 .. MaxPid, NEW ring \in {0, 3}, StartTask(pid, ring)
    PROVE  /\ tasks' \in [Slots -> Task] /\ call' \in [Slots -> Call]
           /\ nextTid' \in 1 .. MaxTid + 1 /\ threadCount' \in Nat
<1>1. nextTid \in 1 .. MaxTid
  BY DEF TypeOK
<1>2. NewTask(pid, ring) \in Task
  BY <1>1, NewTaskType
<1>3. tasks' \in [Slots -> Task]
  BY <1>2, FreeTaskSlotIsSlot DEF TypeOK, StartTask
<1>4. call' \in [Slots -> Call]
  BY RunningType, FreeTaskSlotIsSlot DEF TypeOK, StartTask
<1> QED
  BY <1>1, <1>3, <1>4 DEF TypeOK, StartTask

\* A task creation that fails after its slot was cleared keeps the types.
LEMMA FailTaskType ==
    ASSUME ScanFinds, TypeOK, NEW heapOk, FailTask(heapOk)
    PROVE  /\ tasks' \in [Slots -> Task] /\ call' \in [Slots -> Call]
           /\ nextTid' \in 1 .. MaxTid + 1 /\ threadCount' \in Nat
<1>1. tasks' \in [Slots -> Task]
  BY ClearTaskType, FreeTaskSlotIsSlot DEF TypeOK, FailTask
<1>2. call' \in [Slots -> Call]
  BY RunningType, FreeTaskSlotIsSlot DEF TypeOK, FailTask
<1> QED
  BY <1>1, <1>2 DEF TypeOK, FailTask

\* create_kernel_task keeps the types.
LEMMA CreateKernelTaskType ==
    ASSUME ScanFinds, TypeOK, NEW heapOk \in BOOLEAN, CreateKernelTask(heapOk)
    PROVE  TypeOK'
<1> USE DEF CreateKernelTask, MayCreate
<1>1. KernelPid \in 0 .. MaxPid
  BY DEF KernelPid
<1>2. /\ tasks' \in [Slots -> Task] /\ call' \in [Slots -> Call]
      /\ nextTid' \in 1 .. MaxTid + 1 /\ threadCount' \in Nat
  BY <1>1, StartTaskType, FailTaskType
<1>3. procs' \in [ProcSlots -> Process]
  BY FindProcessIsSlot DEF TypeOK, Process
<1> QED
  BY <1>2, <1>3 DEF TypeOK, machine

\* create_process_task and create_ring3_task keep the types.
LEMMA CreateProcessType ==
    ASSUME ScanFinds, TypeOK, NEW ring \in {0, 3}, NEW cloneOk \in BOOLEAN, NEW heapOk \in BOOLEAN,
           CreateProcess(ring, cloneOk, heapOk)
    PROVE  TypeOK'
<1> USE DEF CreateProcess, MayCreate
<1>1. nextPid \in 1 .. MaxPid /\ nextPid' \in 1 .. MaxPid + 1
  BY DEF TypeOK
<1>2. /\ tasks' \in [Slots -> Task] /\ call' \in [Slots -> Call]
      /\ nextTid' \in 1 .. MaxTid + 1 /\ threadCount' \in Nat
  <2>1. CASE ~cloneOk /\ UNCHANGED <<tables, call, nextTid, processCount, threadCount>>
    BY <2>1 DEF TypeOK, tables
  <2>2. CASE FreeTaskSlots # {} /\ StartTask(nextPid, ring)
    BY <1>1, <2>2, StartTaskType
  <2>3. CASE FailTask(heapOk)
    BY <2>3, FailTaskType
  <2> QED
    BY <2>1, <2>2, <2>3
<1>3. procs' \in [ProcSlots -> Process] /\ processCount' \in Nat
  <2> DEFINE p == [used |-> TRUE, pid |-> nextPid, parent_pid |-> tasks[current].pid,
                   live_threads |-> 1, address_space |-> CloneSpace(nextPid)]
  <2>1. p \in Process
    <3>1. tasks[current].pid \in 0 .. MaxPid
      BY DEF TypeOK, Task
    <3> QED
      BY <1>1, <3>1 DEF Process, CloneSpace
  <2>2. \/ procs' = procs /\ processCount' = processCount
        \/ procs' = [procs EXCEPT ![First(FreeProcSlots)] = p] /\ processCount' = processCount + 1
    BY DEF tables
  <2> HIDE DEF p
  <2> QED
    BY <2>1, <2>2, FreeProcSlotIsSlot DEF TypeOK
<1> QED
  BY <1>1, <1>2, <1>3 DEF TypeOK, machine

\* The steps of sleep_current and mark_current_exited touch one task and one
\* call record.
LEMMA SleepTypes ==
    ASSUME TypeOK,
           \/ \E n \in SleepTicks \cup {1}, waits \in BOOLEAN : SleepSample(n, waits)
           \/ SleepMark \/ SleepStore \/ SleepReturn
    PROVE  TypeOK'
<1> USE DEF tables, counters, machine, At
<1>1. tasks[current] \in Task /\ call[current] \in Call
  BY DEF TypeOK
<1>2. ASSUME NEW point \in Points
      PROVE  [call EXCEPT ![current].at = point] \in [Slots -> Call]
  BY <1>1 DEF TypeOK, Call
<1>3. ASSUME NEW n \in SleepTicks \cup {1}, NEW waits \in BOOLEAN, SleepSample(n, waits)
      PROVE  TypeOK'
  <2>1. InCall("sampled", ticks, n, waits, 0) \in Call
    BY InCallType DEF TypeOK, Points
  <2> QED
    BY <1>3, <2>1 DEF SleepSample, TypeOK
<1>4. CASE SleepMark
  <2>1. tasks' \in [Slots -> Task]
    BY Zenon, <1>1, <1>4, TaskUpdateType DEF SleepMark, TypeOK, TaskStates
  <2>2. call' \in [Slots -> Call]
    BY <1>2, <1>4 DEF SleepMark, Goto, Points
  <2> QED
    BY <1>4, <2>1, <2>2 DEF SleepMark, TypeOK
<1>5. CASE SleepStore
  <2> DEFINE w == (call[current].now + call[current].n) % TickMod
  <2>1. w \in 0 .. TickMod - 1
    <3>1. call[current].now \in 0 .. TickMod - 1 /\ call[current].n \in SleepTicks \cup {0, 1}
      BY <1>1 DEF Call
    <3>2. call[current].n \in Nat
      BY <3>1, DurationIsNat
    <3>3. call[current].now + call[current].n \in Nat
      BY <3>1, <3>2
    <3> QED
      BY Zenon, <3>3, ModInRange
  <2>2. tasks' \in [Slots -> Task]
    <3> HIDE DEF w
    <3>1. tasks' = [tasks EXCEPT ![current].wake_tick = w]
      BY <1>5 DEF SleepStore, w
    <3> QED
      BY Zenon, <1>1, <2>1, <3>1, TaskUpdateType DEF TypeOK
  <2>3. call' \in [Slots -> Call]
    <3> DEFINE point == IF call[current].waits THEN "wait" ELSE "run"
    <3>1. point \in Points
      BY DEF Points
    <3> HIDE DEF point
    <3>2. 0 \in 0 .. TickMod - 1 /\ 0 \in SleepTicks \cup {0, 1}
      OBVIOUS
    <3>3. InCall(point, 0, 0, FALSE, 0) \in Call
      BY Zenon, <3>1, <3>2, InCallType
    <3>4. call' = [call EXCEPT ![current] = InCall(point, 0, 0, FALSE, 0)]
      BY <1>5 DEF SleepStore, point
    <3> QED
      BY Zenon, <3>3, <3>4 DEF TypeOK
  <2> QED
    BY Zenon, <1>5, <2>2, <2>3 DEF SleepStore, TypeOK
<1>6. CASE SleepReturn
  BY <1>2, <1>6 DEF SleepReturn, Goto, Points, TypeOK
<1> QED
  BY <1>3, <1>4, <1>5, <1>6

\* Each step of sys_exit keeps the types.
LEMMA ExitTypes ==
    ASSUME ScanFinds, TypeOK, ExitLoadLive \/ ExitStoreLive \/ ExitStoreCount \/ ExitDone
    PROVE  TypeOK'
<1> USE DEF tables, counters, machine, At
<1>1. tasks[current] \in Task /\ call[current] \in Call
  BY DEF TypeOK
<1>2. ASSUME NEW point \in Points, NEW reg \in Nat
      PROVE  Exiting(point, reg) \in Call
  <2>1. 0 \in 0 .. TickMod - 1 /\ 0 \in SleepTicks \cup {0, 1}
    OBVIOUS
  <2> QED
    BY Zenon, <2>1, InCallType DEF Exiting
<1>3. OwnProcess # {} => First(OwnProcess) \in ProcSlots
  BY FindProcessIsSlot DEF OwnProcess
<1>4. CASE ExitLoadLive
  <2> DEFINE reg == IF OwnProcess = {} THEN 0 ELSE procs[First(OwnProcess)].live_threads
  <2>1. reg \in Nat
    BY <1>3 DEF TypeOK, Process
  <2> HIDE DEF reg
  <2>2. call' = [call EXCEPT ![current] = Exiting("exit1", reg)]
    BY <1>4 DEF ExitLoadLive, reg
  <2> QED
    BY <1>2, <1>4, <2>1, <2>2 DEF ExitLoadLive, TypeOK, Points
<1>5. CASE ExitStoreLive
  <2>1. Dec(call[current].reg) \in Nat
    BY <1>1 DEF Dec, Call
  <2>2. procs' \in [ProcSlots -> Process]
    BY <1>3, <1>5, <2>1 DEF ExitStoreLive, TypeOK, Process
  <2> QED
    BY <1>2, <1>5, <2>2 DEF ExitStoreLive, TypeOK, Points
<1>6. CASE ExitStoreCount
  <2>1. Dec(call[current].reg) \in Nat
    BY <1>1 DEF Dec, Call
  <2> QED
    BY <1>2, <1>6, <2>1 DEF ExitStoreCount, TypeOK, Points
<1>7. CASE ExitDone
  <2>1. tasks' \in [Slots -> Task]
    BY <1>1, <1>7, NoLongerAsleepType DEF ExitDone, TypeOK, TaskStates
  <2>2. call' \in [Slots -> Call]
    BY <1>1, <1>7 DEF ExitDone, Goto, TypeOK, Call, Points
  <2> QED
    BY <1>7, <2>1, <2>2 DEF ExitDone, TypeOK
<1> QED
  BY <1>4, <1>5, <1>6, <1>7

\* What the interrupt handler does to a task table: it saves the interrupted
\* frame and wakes sleepers.
Woken == WakeSleepingTasks([tasks EXCEPT ![current].saved_esp = <<cpu, "frame">>],
                           (ticks + 1) % TickMod)

\* wake_sleeping_tasks leaves a table of tasks.
LEMMA WokenType ==
    ASSUME TypeOK
    PROVE  Woken \in [Slots -> Task]
<1>1. <<cpu, "frame">> \in Pointers
  BY DEF TypeOK, Pointers
<1>2. [tasks EXCEPT ![current].saved_esp = <<cpu, "frame">>] \in [Slots -> Task]
  BY Zenon, <1>1, TaskUpdateType DEF TypeOK
<1> QED
  BY Zenon, <1>2, WakeType DEF Woken

\* The timer interrupt keeps the types.
LEMMA TimerType ==
    ASSUME ScanFinds, TypeOK, TimerInterrupt
    PROVE  TypeOK'
<1>1. Woken \in [Slots -> Task]
  BY WokenType
<1>2. ticks' \in 0 .. TickMod - 1
  BY ModInRange DEF TypeOK, TimerInterrupt
<1>3. CASE tasks' = Woken /\ UNCHANGED machine
  BY <1>1, <1>2, <1>3 DEF TimerInterrupt, TypeOK, machine, counters
<1>4. CASE Dispatch(Woken)
  <2> DEFINE next == PickNextRunnable(Woken, current)
  <2>1. next \in Slots
    BY PickedIsRunnable DEF TypeOK
  <2> HIDE DEF next
  <2>2. Woken[next] \in Task
    BY <1>1, <2>1
  <2>3. /\ current' = next
        /\ cr3' = NextCr3(Woken, next)
        /\ cpu' = IF Woken[next].saved_esp = Null THEN cpu ELSE Woken[next].saved_esp[1]
        /\ esp0' \in {esp0, Woken[next].kernel_stack_top, Woken[next].saved_esp}
        /\ tasks' \in {Woken, [Woken EXCEPT ![next].user_started = TRUE]}
    BY <1>4 DEF Dispatch, next
  <2>4. cr3' \in 0 .. MaxPid
    <3>1. FindProcess(Woken[next].pid) # {} =>
             procs[First(FindProcess(Woken[next].pid))].address_space \in 0 .. MaxPid
      BY FindProcessIsSlot DEF TypeOK, Process
    <3> QED
      BY <2>3, <3>1 DEF NextCr3, TypeOK
  <2>5. cpu' \in 1 .. MaxTid
    <3>1. Woken[next].saved_esp \in Pointers
      BY <2>2 DEF Task
    <3> QED
      BY <2>3, <3>1 DEF Pointers, TypeOK
  <2>6. esp0' \in Pointers
    BY <2>2, <2>3 DEF Task, TypeOK
  <2>7. tasks' \in [Slots -> Task]
    BY <1>1, <2>1, <2>2, <2>3, TaskUpdateType
  <2> QED
    BY <1>2, <2>1, <2>3, <2>4, <2>5, <2>6, <2>7 DEF TimerInterrupt, TypeOK, counters
<1> QED
  BY <1>3, <1>4 DEF TimerInterrupt, Woken

\* Every step keeps the types.
LEMMA TypeNext == ScanFinds /\ TypeOK /\ [Next]_vars => TypeOK'
<1> SUFFICES ASSUME ScanFinds, TypeOK, [Next]_vars PROVE TypeOK'
  OBVIOUS
<1>1. CASE EnableInterrupts
  BY <1>1 DEF EnableInterrupts, TypeOK, tables, counters, machine
<1>2. CASE UNCHANGED vars
  BY <1>2 DEF TypeOK, vars
<1> QED
  BY <1>1, <1>2, CreateKernelTaskType, CreateProcessType, SleepTypes, ExitTypes, TimerType
     DEF Next, CreateProcessTask, CreateRing3Task


-----------------------------------------------------------------------------
(* The inductive invariant.  StacksNotMixed is not inductive: a dispatch   *)
(* resumes the stack named in the task's saved_esp, so it needs that every *)
(* task has its own (tids are fresh), that the slot a creation overwrites  *)
(* is never the current one (a task is Exited exactly when it has halted), *)
(* and that a ring-3 task's first dispatch happens once.                   *)

HaltedIsExited == \A s \in Slots : tasks[s].state = "Exited" <=> call[s].at = "halted"

TidsFresh == \A s \in Slots : Named(s) => tasks[s].tid \in 1 .. nextTid - 1

PidsFresh == \A i \in UsedProcs : /\ procs[i].pid \in 1 .. nextPid - 1
                                  /\ procs[i].address_space = procs[i].pid

Ring3Tops == \A s \in Slots : Named(s) /\ tasks[s].ring = 3 =>
                                tasks[s].kernel_stack_top = <<tasks[s].tid, "top">>

CurrentStarted == tasks[current].ring = 3 => tasks[current].user_started

IInv ==
    /\ TypeOK
    /\ HaltedIsExited
    /\ TidsFresh
    /\ PidsFresh
    /\ Ring3Tops
    /\ CurrentStarted
    /\ cr3 = tasks[current].pid
    /\ IdentitiesUnique
    /\ StacksNotMixed
    /\ Ring3EntersOwnKernelStack

\* The inductive invariant has the address space property in it.
LEMMA IInvImplies == IInv => AddressSpaceFollowsTask
BY DEF IInv, PidsFresh, IdentitiesUnique, AddressSpaceFollowsTask, FindProcess, UsedProcs

\* scheduler::init establishes the inductive invariant.
LEMMA IInvInit == Init => IInv
<1> SUFFICES ASSUME Init PROVE IInv
  OBVIOUS
<1>1. TypeOK
  BY TypeInit
<1>2. HaltedIsExited
  BY DEF Init, HaltedIsExited, ClearTask, Running, InCall
<1>3. /\ \A s \in Slots : Named(s) <=> s = 0
      /\ tasks[0].tid = 1 /\ tasks[0].pid = 1 /\ tasks[0].ring = 0
  BY DEF Init, Named, ClearTask, Slots, KernelPid
<1>4. \A i \in ProcSlots : i \in UsedProcs <=> i = 0
  BY DEF Init, UsedProcs, ClearProcess, ProcSlots
<1>5. procs[0].pid = 1 /\ procs[0].parent_pid = 0 /\ procs[0].address_space = 1 /\ procs[0].used
  BY DEF Init, ProcSlots, KernelPid, KernelSpace
<1>6. TidsFresh /\ Ring3Tops /\ CurrentStarted
  BY <1>3 DEF Init, TidsFresh, Ring3Tops, CurrentStarted
<1>7. PidsFresh
  BY <1>4, <1>5 DEF Init, PidsFresh, UsedProcs
<1>8. IdentitiesUnique
  <2>1. FindProcess(1) # {}
    BY <1>5 DEF FindProcess, ProcSlots
  <2> QED
    BY <1>3, <1>4, <1>5, <2>1 DEF IdentitiesUnique, UsedProcs
<1>9. cr3 = tasks[current].pid /\ StacksNotMixed /\ Ring3EntersOwnKernelStack
  BY <1>3 DEF Init, StacksNotMixed, Ring3EntersOwnKernelStack, KernelSpace, Slots
<1> QED
  BY <1>1, <1>2, <1>6, <1>7, <1>8, <1>9 DEF IInv

\* Steps that create nothing and dispatch nobody: they leave every identity,
\* every stack but the current task's frame, and the machine's registers alone.
LEMMA QuietStep ==
    ASSUME IInv, TypeOK', HaltedIsExited',
           \A s \in Slots :
             /\ tasks'[s].tid = tasks[s].tid /\ tasks'[s].pid = tasks[s].pid
             /\ tasks'[s].ring = tasks[s].ring
             /\ tasks'[s].kernel_stack_top = tasks[s].kernel_stack_top
             /\ tasks'[s].user_started = tasks[s].user_started
             /\ s # current => tasks'[s].saved_esp = tasks[s].saved_esp
             /\ tasks'[s].state = "Unused" <=> tasks[s].state = "Unused",
           \A i \in ProcSlots :
             /\ procs'[i].used = procs[i].used /\ procs'[i].pid = procs[i].pid
             /\ procs'[i].parent_pid = procs[i].parent_pid
             /\ procs'[i].address_space = procs[i].address_space,
           UNCHANGED <<nextPid, nextTid, machine>>
    PROVE  IInv'
<1> USE DEF IInv, machine
<1>1. \A s \in Slots : Named(s)' <=> Named(s)
  BY DEF Named
<1>2. UsedProcs' = UsedProcs
  BY DEF UsedProcs
<1>3. \A pid : FindProcess(pid)' = FindProcess(pid)
  BY DEF FindProcess
<1>4. current \in Slots
  BY DEF TypeOK
<1>5. TidsFresh' /\ Ring3Tops' /\ CurrentStarted'
  BY <1>1, <1>4 DEF TidsFresh, Ring3Tops, CurrentStarted
<1>6. PidsFresh'
  BY <1>2 DEF PidsFresh, UsedProcs
<1>7. IdentitiesUnique'
  BY <1>1, <1>2, <1>3 DEF IdentitiesUnique, UsedProcs
<1>8. StacksNotMixed'
  BY <1>1, <1>4 DEF StacksNotMixed
<1>9. (cr3 = tasks[current].pid)' /\ Ring3EntersOwnKernelStack'
  BY <1>4 DEF Ring3EntersOwnKernelStack
<1> QED
  BY <1>5, <1>6, <1>7, <1>8, <1>9

\* Waking a task changes its state and its wake tick and nothing else.
LEMMA NoLongerAsleepFields ==
    ASSUME NEW t \in Task, NEW state
    PROVE  LET u == NoLongerAsleep(t, state)
           IN /\ u.tid = t.tid /\ u.pid = t.pid /\ u.ring = t.ring
              /\ u.kernel_stack_top = t.kernel_stack_top /\ u.user_started = t.user_started
              /\ u.saved_esp = t.saved_esp /\ u.state = state
<1>1. NoLongerAsleep(t, state) = [[t EXCEPT !.state = state] EXCEPT !.wake_tick = NoWakeTick]
  BY Zenon DEF NoLongerAsleep
<1> QED
  BY <1>1 DEF Task

\* The steps of sys_sleep keep the inductive invariant.
LEMMA IInvSleep ==
    ASSUME IInv,
           \/ \E n \in SleepTicks \cup {1}, waits \in BOOLEAN : SleepSample(n, waits)
           \/ SleepMark \/ SleepStore \/ SleepReturn
    PROVE  IInv'
<1> USE DEF tables, counters, At
<1>1. TypeOK /\ TypeOK' /\ HaltedIsExited /\ current \in Slots
  BY SleepTypes DEF IInv, TypeOK
<1>2. tasks \in [Slots -> Task] /\ call \in [Slots -> Call]
  BY <1>1 DEF TypeOK
<1>3. ASSUME NEW n \in SleepTicks \cup {1}, NEW waits \in BOOLEAN, SleepSample(n, waits)
      PROVE  IInv'
  <2>1. HaltedIsExited'
    BY <1>1, <1>2, <1>3 DEF SleepSample, HaltedIsExited, InCall
  <2> QED
    BY <1>1, <1>3, <2>1, QuietStep DEF SleepSample
<1>4. CASE SleepMark
  <2>1. \A s \in Slots : tasks'[s] = IF s = current THEN [tasks[s] EXCEPT !.state = "Sleeping"]
                                     ELSE tasks[s]
    BY <1>1, <1>2, <1>4 DEF SleepMark
  <2>2. tasks[current].state \notin {"Exited", "Unused"}
    BY <1>1, <1>4 DEF SleepMark, HaltedIsExited, IInv, StacksNotMixed, Named
  <2>3. HaltedIsExited'
    BY <1>1, <1>2, <1>4, <2>1, <2>2 DEF SleepMark, Goto, HaltedIsExited, Task, Call
  <2> QED
    BY <1>1, <1>2, <1>4, <2>1, <2>2, <2>3, QuietStep DEF SleepMark, Task
<1>5. CASE SleepStore
  <2> DEFINE w == (call[current].now + call[current].n) % TickMod
  <2>1. \A s \in Slots : tasks'[s] = IF s = current THEN [tasks[s] EXCEPT !.wake_tick = w]
                                     ELSE tasks[s]
    BY <1>1, <1>2, <1>5 DEF SleepStore
  <2> HIDE DEF w
  <2>2. HaltedIsExited'
    BY <1>1, <1>2, <1>5, <2>1 DEF SleepStore, HaltedIsExited, Task, InCall
  <2> QED
    BY <1>1, <1>2, <1>5, <2>1, <2>2, QuietStep DEF SleepStore, Task
<1>6. CASE SleepReturn
  <2>1. HaltedIsExited'
    BY <1>1, <1>2, <1>6 DEF SleepReturn, Goto, HaltedIsExited, Call
  <2> QED
    BY <1>1, <1>6, <2>1, QuietStep DEF SleepReturn
<1> QED
  BY <1>3, <1>4, <1>5, <1>6

\* The steps of sys_exit keep the inductive invariant.
LEMMA IInvExit ==
    ASSUME ScanFinds, IInv, ExitLoadLive \/ ExitStoreLive \/ ExitStoreCount \/ ExitDone
    PROVE  IInv'
<1> USE DEF tables, counters, At
<1>1. TypeOK /\ TypeOK' /\ HaltedIsExited /\ current \in Slots
  BY ExitTypes DEF IInv, TypeOK
<1>2. tasks \in [Slots -> Task] /\ call \in [Slots -> Call] /\ procs \in [ProcSlots -> Process]
  BY <1>1 DEF TypeOK
<1>3. CASE ExitLoadLive
  <2>1. HaltedIsExited'
    BY <1>1, <1>2, <1>3 DEF ExitLoadLive, HaltedIsExited, Exiting, InCall
  <2> QED
    BY <1>1, <1>3, <2>1, QuietStep DEF ExitLoadLive
<1>4. CASE ExitStoreLive
  <2>1. HaltedIsExited'
    BY <1>1, <1>2, <1>4 DEF ExitStoreLive, HaltedIsExited, Exiting, InCall
  <2>2. OwnProcess # {} => First(OwnProcess) \in ProcSlots
    BY FindProcessIsSlot DEF OwnProcess
  <2>3. \A i \in ProcSlots :
          /\ procs'[i].used = procs[i].used /\ procs'[i].pid = procs[i].pid
          /\ procs'[i].parent_pid = procs[i].parent_pid
          /\ procs'[i].address_space = procs[i].address_space
    BY <1>2, <1>4, <2>2 DEF ExitStoreLive, Process
  <2> QED
    BY <1>1, <1>4, <2>1, <2>3, QuietStep DEF ExitStoreLive
<1>5. CASE ExitStoreCount
  <2>1. HaltedIsExited'
    BY <1>1, <1>2, <1>5 DEF ExitStoreCount, HaltedIsExited, Exiting, InCall
  <2> QED
    BY <1>1, <1>5, <2>1, QuietStep DEF ExitStoreCount
<1>6. CASE ExitDone
  <2>1. \A s \in Slots : tasks'[s] = IF s = current THEN NoLongerAsleep(tasks[s], "Exited")
                                     ELSE tasks[s]
    BY <1>1, <1>2, <1>6 DEF ExitDone
  <2>2. tasks[current].state # "Unused"
    BY DEF IInv, StacksNotMixed, Named
  <2>3. HaltedIsExited'
    BY <1>1, <1>2, <1>6, <2>1, NoLongerAsleepFields DEF ExitDone, Goto, HaltedIsExited, Call
  <2> QED
    BY <1>1, <1>2, <1>6, <2>1, <2>2, <2>3, NoLongerAsleepFields, QuietStep DEF ExitDone
<1> QED
  BY <1>3, <1>4, <1>5, <1>6

\* The table the handler leaves before it dispatches: the current task's frame
\* is saved, sleepers may be awake, and nothing else has changed.
LEMMA WokenFields ==
    ASSUME TypeOK
    PROVE  \A s \in Slots :
             /\ Woken[s].tid = tasks[s].tid /\ Woken[s].pid = tasks[s].pid
             /\ Woken[s].ring = tasks[s].ring
             /\ Woken[s].kernel_stack_top = tasks[s].kernel_stack_top
             /\ Woken[s].user_started = tasks[s].user_started
             /\ Woken[s].saved_esp = IF s = current THEN <<cpu, "frame">> ELSE tasks[s].saved_esp
             /\ Woken[s].state = "Unused" <=> tasks[s].state = "Unused"
             /\ Woken[s].state = "Exited" <=> tasks[s].state = "Exited"
<1> DEFINE saved == [tasks EXCEPT ![current].saved_esp = <<cpu, "frame">>]
<1> SUFFICES ASSUME NEW s \in Slots
             PROVE  /\ Woken[s].tid = tasks[s].tid /\ Woken[s].pid = tasks[s].pid
                    /\ Woken[s].ring = tasks[s].ring
                    /\ Woken[s].kernel_stack_top = tasks[s].kernel_stack_top
                    /\ Woken[s].user_started = tasks[s].user_started
                    /\ Woken[s].saved_esp = IF s = current THEN <<cpu, "frame">>
                                            ELSE tasks[s].saved_esp
                    /\ Woken[s].state = "Unused" <=> tasks[s].state = "Unused"
                    /\ Woken[s].state = "Exited" <=> tasks[s].state = "Exited"
  OBVIOUS
<1>1. tasks[s] \in Task /\ tasks \in [Slots -> Task]
  BY DEF TypeOK
<1>2. /\ saved[s].tid = tasks[s].tid /\ saved[s].pid = tasks[s].pid
      /\ saved[s].ring = tasks[s].ring
      /\ saved[s].kernel_stack_top = tasks[s].kernel_stack_top
      /\ saved[s].user_started = tasks[s].user_started
      /\ saved[s].saved_esp = IF s = current THEN <<cpu, "frame">> ELSE tasks[s].saved_esp
      /\ saved[s].state = tasks[s].state
  BY <1>1 DEF Task
<1>3. saved[s] \in Task
  <2>1. <<cpu, "frame">> \in Pointers
    BY DEF TypeOK, Pointers
  <2> QED
    BY Zenon, <1>1, <2>1, TaskUpdateType
<1> DEFINE now == (ticks + 1) % TickMod
<1>4. Woken = WakeSleepingTasks(saved, now)
  BY DEF Woken
<1> HIDE DEF saved, now
<1>5. \/ Woken[s] = saved[s]
      \/ Woken[s] = NoLongerAsleep(saved[s], "Runnable") /\ saved[s].state = "Sleeping"
  BY <1>4 DEF WakeSleepingTasks
<1> QED
  BY <1>2, <1>3, <1>5, NoLongerAsleepFields

\* The timer interrupt, with its wake-ups and its switch of task, directory
\* and kernel stack, keeps the inductive invariant.
LEMMA IInvTimer ==
    ASSUME ScanFinds, IInv, TimerInterrupt
    PROVE  IInv'
<1> USE DEF counters
<1>1. TypeOK /\ TypeOK' /\ HaltedIsExited /\ current \in Slots
  BY TimerType DEF IInv, TypeOK
<1>2. CASE tasks' = Woken /\ UNCHANGED machine
  <2>1. HaltedIsExited'
    BY <1>1, <1>2, WokenFields DEF TimerInterrupt, HaltedIsExited
  <2> QED
    BY <1>1, <1>2, <2>1, WokenFields, QuietStep DEF TimerInterrupt
<1>3. CASE Dispatch(Woken)
  <2> DEFINE next == PickNextRunnable(Woken, current)
             t == Woken[next]
  <2>1. next \in Slots /\ (next = current \/ t.state = "Runnable")
    BY <1>1, PickedIsRunnable
  <2>2. t.tid = tasks[next].tid /\ Named(next) /\ t.tid \in 1 .. nextTid - 1
    BY <1>1, <2>1, WokenFields DEF IInv, StacksNotMixed, Named, TidsFresh
  <2>3. t.saved_esp[1] = t.tid /\ t.saved_esp # Null
    BY <1>1, <2>1, <2>2, WokenFields DEF IInv, StacksNotMixed, Null
  <2>4. /\ current' = next /\ cr3' = NextCr3(Woken, next) /\ cpu' = t.tid
        /\ tasks' = IF t.ring = 3 THEN [Woken EXCEPT ![next].user_started = TRUE] ELSE Woken
        /\ t.ring = 3 => esp0' = IF t.kernel_stack_top # Null THEN t.kernel_stack_top ELSE esp0
    BY <1>3, <2>3 DEF Dispatch
  <2>5. Woken \in [Slots -> Task]
    BY <1>1, WokenType
  <2> HIDE DEF next
  <2>6. \A s \in Slots :
          /\ tasks'[s].tid = tasks[s].tid /\ tasks'[s].pid = tasks[s].pid
          /\ tasks'[s].ring = tasks[s].ring
          /\ tasks'[s].kernel_stack_top = tasks[s].kernel_stack_top
          /\ s # next => tasks'[s].user_started = tasks[s].user_started
          /\ tasks'[s].saved_esp = IF s = current THEN <<cpu, "frame">> ELSE tasks[s].saved_esp
          /\ tasks'[s].state = "Unused" <=> tasks[s].state = "Unused"
          /\ tasks'[s].state = "Exited" <=> tasks[s].state = "Exited"
    <3>1. ASSUME NEW s \in Slots
          PROVE  \/ tasks'[s] = Woken[s]
                 \/ s = next /\ tasks'[s] = [Woken[s] EXCEPT !.user_started = TRUE]
      BY Zenon, <2>1, <2>4, <2>5
    <3>2. ASSUME NEW s \in Slots
          PROVE  LET u == [Woken[s] EXCEPT !.user_started = TRUE]
                 IN /\ u.tid = Woken[s].tid /\ u.pid = Woken[s].pid /\ u.ring = Woken[s].ring
                    /\ u.kernel_stack_top = Woken[s].kernel_stack_top
                    /\ u.saved_esp = Woken[s].saved_esp /\ u.state = Woken[s].state
      BY <2>5 DEF Task
    <3> TAKE s \in Slots
    <3>3. CASE tasks'[s] = Woken[s]
      BY <1>1, <3>3, WokenFields
    <3>4. CASE s = next /\ tasks'[s] = [Woken[s] EXCEPT !.user_started = TRUE]
      <4>1. /\ tasks'[s].tid = Woken[s].tid /\ tasks'[s].pid = Woken[s].pid
            /\ tasks'[s].ring = Woken[s].ring
            /\ tasks'[s].kernel_stack_top = Woken[s].kernel_stack_top
            /\ tasks'[s].saved_esp = Woken[s].saved_esp /\ tasks'[s].state = Woken[s].state
        BY <3>2, <3>4
      <4> QED
        BY <1>1, <3>4, <4>1, WokenFields
    <3> QED
      BY <3>1, <3>3, <3>4
  <2>7. tasks'[next].ring = 3 => tasks'[next].user_started
    BY <1>1, <2>1, <2>4, <2>5, WokenFields DEF Task
  <2>8. \A s \in Slots : Named(s)' <=> Named(s)
    BY <2>6 DEF Named
  <2>9. procs' = procs /\ nextPid' = nextPid /\ nextTid' = nextTid /\ call' = call
    BY DEF TimerInterrupt
  <2>10. UsedProcs' = UsedProcs /\ \A pid : FindProcess(pid)' = FindProcess(pid)
    BY <2>9 DEF UsedProcs, FindProcess
  <2>11. HaltedIsExited' /\ TidsFresh' /\ Ring3Tops'
    BY <2>6, <2>8, <2>9 DEF IInv, HaltedIsExited, TidsFresh, Ring3Tops
  <2>12. PidsFresh' /\ IdentitiesUnique'
    BY <2>6, <2>8, <2>9, <2>10 DEF IInv, PidsFresh, IdentitiesUnique
  <2>13. CurrentStarted'
    BY <2>4, <2>7 DEF CurrentStarted
  <2>14. StacksNotMixed'
    <3>1. Named(current)' /\ cpu' = tasks'[current'].tid
      BY <2>1, <2>2, <2>4, <2>6, <2>8
    <3>2. ASSUME NEW s \in Slots \ {next}, Named(s)'
          PROVE  /\ tasks'[s].saved_esp[1] = tasks'[s].tid
                 /\ tasks'[s].saved_esp[2] = "top" <=> tasks'[s].ring = 3 /\ ~tasks'[s].user_started
      <4>1. CASE s = current
        BY <3>2, <4>1, <2>6 DEF IInv, StacksNotMixed, CurrentStarted
      <4>2. CASE s # current
        BY <3>2, <4>2, <2>6, <2>8 DEF IInv, StacksNotMixed
      <4> QED
        BY <4>1, <4>2
    <3> QED
      BY <2>4, <3>1, <3>2 DEF StacksNotMixed
  <2>15. (cr3 = tasks[current].pid)'
    <3>1. Woken[next].pid = tasks[next].pid /\ Woken[current].pid = tasks[current].pid
      BY <1>1, <2>1, WokenFields
    <3>2. FindProcess(tasks[next].pid) # {}
      BY <2>1, <2>2 DEF IInv, IdentitiesUnique
    <3> DEFINE owner == First(FindProcess(tasks[next].pid))
    <3>3. owner \in FindProcess(tasks[next].pid)
      BY <3>2, FindProcessIsSlot
    <3> HIDE DEF owner
    <3>4. owner \in UsedProcs /\ procs[owner].pid = tasks[next].pid
      BY <3>3 DEF FindProcess, UsedProcs
    <3>5. procs[owner].address_space = tasks[next].pid /\ procs[owner].address_space # NoSpace
      BY <3>4 DEF IInv, PidsFresh, NoSpace
    <3>6. NextCr3(Woken, next) = tasks[next].pid
      BY <3>1, <3>2, <3>5 DEF NextCr3, IInv, owner
    <3>7. cr3' = tasks[next].pid
      BY <2>4, <3>6
    <3>8. tasks'[current'].pid = tasks[next].pid
      <4>1. tasks'[next].pid = tasks[next].pid
        BY <2>1, <2>6
      <4>2. current' = next
        BY <2>4
      <4> QED
        BY Zenon, <4>1, <4>2
    <3> QED
      BY <3>7, <3>8
  <2>16. Ring3EntersOwnKernelStack'
    <3>1. t.ring = 3 => t.kernel_stack_top = <<t.tid, "top">>
      BY <1>1, <2>1, <2>2, WokenFields DEF IInv, Ring3Tops
    <3>2. t.ring = 3 => esp0' = <<t.tid, "top">>
      <4>1. <<t.tid, "top">> # Null
        BY DEF Null
      <4> QED
        BY Zenon, <2>4, <3>1, <4>1
    <3>3. t.ring = tasks'[next].ring /\ t.tid = tasks'[next].tid
      BY <1>1, <2>1, <2>6, WokenFields
    <3> QED
      BY <2>4, <3>2, <3>3 DEF Ring3EntersOwnKernelStack
  <2> QED
    BY <1>1, <2>11, <2>12, <2>13, <2>14, <2>15, <2>16 DEF IInv
<1> QED
  BY <1>2, <1>3 DEF TimerInterrupt, Woken

-----------------------------------------------------------------------------
(* The three ways to create a task keep the inductive invariant, their     *)
(* failures included.                                                      *)

\* The process table as IInv needs it.
ProcsSound ==
    /\ PidsFresh
    /\ \A i, j \in UsedProcs : i # j => procs[i].pid # procs[j].pid
    /\ \A i \in UsedProcs : procs[i].parent_pid # 0 =>
         /\ FindProcess(procs[i].parent_pid) # {}
         /\ procs[i].parent_pid < procs[i].pid

\* The slot that alloc_task_slot finds is never the current task's: a task that
\* runs outside any call is alive.
LEMMA FreeSlotNotCurrent ==
    ASSUME ScanFinds, IInv, MayCreate, FreeTaskSlots # {}
    PROVE  First(FreeTaskSlots) \in Slots \ {current}
<1>1. First(FreeTaskSlots) \in Slots /\ tasks[First(FreeTaskSlots)].state \in {"Unused", "Exited"}
  BY FreeTaskSlotIsSlot DEF FreeTaskSlots
<1>2. tasks[current].state \notin {"Unused", "Exited"} /\ current \in Slots
  BY DEF IInv, TypeOK, MayCreate, HaltedIsExited, StacksNotMixed, Named
<1> QED
  BY <1>1, <1>2

\* A new task, or a cleared slot, in place of a task that is not current.
LEMMA SlotReplaced ==
    ASSUME IInv, TypeOK', NEW slot \in Slots \ {current},
           NEW t, NEW c,
           tasks' = [tasks EXCEPT ![slot] = t],
           call' = [call EXCEPT ![slot] = c],
           UNCHANGED machine,
           ProcsSound',
           \A pid : FindProcess(pid) # {} => FindProcess(pid)' # {},
           nextTid' \in Nat, nextTid <= nextTid',
           t.state # "Exited", c.at # "halted",
           t.state # "Unused" =>
             /\ t.tid = nextTid /\ nextTid' = nextTid + 1
             /\ FindProcess(t.pid)' # {}
             /\ t.ring = 3 => t.kernel_stack_top = <<t.tid, "top">>
             /\ t.saved_esp[1] = t.tid
             /\ t.saved_esp[2] = "top" <=> t.ring = 3
             /\ ~t.user_started
    PROVE  IInv'
<1> USE DEF machine
<1>1. /\ tasks \in [Slots -> Task] /\ call \in [Slots -> Call] /\ current \in Slots
      /\ nextTid \in Nat \ {0}
  BY DEF IInv, TypeOK
<1>2. /\ tasks'[slot] = t /\ call'[slot] = c
      /\ \A s \in Slots \ {slot} : tasks'[s] = tasks[s] /\ call'[s] = call[s]
  BY <1>1
<1>3. HaltedIsExited'
  BY <1>2 DEF IInv, HaltedIsExited
<1>4. /\ Named(slot)' <=> t.state # "Unused"
      /\ \A s \in Slots \ {slot} : Named(s)' <=> Named(s)
  BY <1>2 DEF Named
<1>5. TidsFresh'
  BY <1>1, <1>2, <1>4 DEF IInv, TidsFresh
<1>6. Ring3Tops' /\ CurrentStarted'
  BY <1>1, <1>2, <1>4 DEF IInv, Ring3Tops, CurrentStarted
<1>7. (cr3 = tasks[current].pid)' /\ Ring3EntersOwnKernelStack'
  BY <1>1, <1>2 DEF IInv, Ring3EntersOwnKernelStack
<1>8. StacksNotMixed'
  BY <1>1, <1>2, <1>4 DEF IInv, StacksNotMixed
<1>9. IdentitiesUnique'
  <2>1. (\A a, b \in Slots : Named(a) /\ Named(b) /\ a # b => tasks[a].tid # tasks[b].tid)'
    <3> SUFFICES ASSUME NEW a \in Slots, NEW b \in Slots, Named(a)', Named(b)', a # b
                 PROVE  tasks'[a].tid # tasks'[b].tid
      OBVIOUS
    <3>1. CASE a # slot /\ b # slot
      BY <1>2, <1>4, <3>1 DEF IInv, IdentitiesUnique
    <3>2. CASE a = slot
      BY <1>1, <1>2, <1>4, <3>2 DEF IInv, TidsFresh
    <3>3. CASE b = slot
      BY <1>1, <1>2, <1>4, <3>3 DEF IInv, TidsFresh
    <3> QED
      BY <3>1, <3>2, <3>3
  <2>2. (\A s \in Slots : Named(s) => FindProcess(tasks[s].pid) # {})'
    BY <1>2, <1>4 DEF IInv, IdentitiesUnique
  <2> QED
    BY <2>1, <2>2 DEF IdentitiesUnique, ProcsSound
<1> QED
  BY <1>3, <1>5, <1>6, <1>7, <1>8, <1>9 DEF IInv, ProcsSound

\* Steps that leave the identity of every process alone keep its table sound.
LEMMA ProcsKept ==
    ASSUME IInv, nextPid' \in Nat, nextPid <= nextPid',
           \A i \in ProcSlots :
             /\ procs'[i].used = procs[i].used /\ procs'[i].pid = procs[i].pid
             /\ procs'[i].parent_pid = procs[i].parent_pid
             /\ procs'[i].address_space = procs[i].address_space
    PROVE  ProcsSound' /\ \A pid : FindProcess(pid)' = FindProcess(pid)
<1>1. UsedProcs' = UsedProcs
  BY DEF UsedProcs
<1>2. \A pid : FindProcess(pid)' = FindProcess(pid)
  BY DEF FindProcess
<1>3. nextPid \in Nat
  BY DEF IInv, TypeOK
<1>4. PidsFresh'
  BY <1>1, <1>3 DEF IInv, PidsFresh, UsedProcs
<1> QED
  BY <1>1, <1>2, <1>4 DEF ProcsSound, IInv, IdentitiesUnique, UsedProcs

\* What a new task has in the fields that the invariant speaks of.
LEMMA NewTaskFields ==
    ASSUME NEW pid, NEW ring \in {0, 3}
    PROVE  LET t == NewTask(pid, ring)
           IN /\ t.state = "Runnable" /\ t.tid = nextTid /\ t.pid = pid /\ t.ring = ring
              /\ ring = 3 => t.kernel_stack_top = <<nextTid, "top">>
              /\ t.saved_esp[1] = nextTid
              /\ t.saved_esp[2] = "top" <=> ring = 3
              /\ ~t.user_started
BY DEF NewTask

\* A task creation that fails after its slot was cleared keeps the inductive
\* invariant.
LEMMA FailTaskInv ==
    ASSUME ScanFinds, IInv, TypeOK', MayCreate, NEW heapOk, FailTask(heapOk),
           UNCHANGED <<machine, procs>>, nextPid' \in Nat, nextPid <= nextPid'
    PROVE  IInv'
<1>1. ProcsSound' /\ \A pid : FindProcess(pid)' = FindProcess(pid)
  BY ProcsKept
<1>2. nextTid \in Nat /\ nextTid' = nextTid
  BY DEF IInv, TypeOK, FailTask
<1>3. CASE FreeTaskSlots = {}
  <2>1. tasks' = tasks /\ call' = call
    BY <1>3 DEF FailTask
  <2>2. HaltedIsExited' /\ TidsFresh' /\ Ring3Tops' /\ CurrentStarted'
    BY <1>2, <2>1 DEF IInv, HaltedIsExited, TidsFresh, Ring3Tops, CurrentStarted, Named, machine
  <2>3. (cr3 = tasks[current].pid)' /\ StacksNotMixed' /\ Ring3EntersOwnKernelStack'
    BY <2>1 DEF IInv, StacksNotMixed, Ring3EntersOwnKernelStack, Named, machine
  <2>4. IdentitiesUnique'
    BY <1>1, <2>1 DEF IInv, ProcsSound, IdentitiesUnique, Named
  <2> QED
    BY <1>1, <2>2, <2>3, <2>4 DEF IInv, ProcsSound
<1>4. CASE FreeTaskSlots # {}
  <2>1. First(FreeTaskSlots) \in Slots \ {current}
    BY <1>4, FreeSlotNotCurrent
  <2>2. /\ tasks' = [tasks EXCEPT ![First(FreeTaskSlots)] = ClearTask]
        /\ call' = [call EXCEPT ![First(FreeTaskSlots)] = Running]
    BY <1>4 DEF FailTask
  <2>3. PICK t, c, slot : t = ClearTask /\ c = Running /\ slot = First(FreeTaskSlots)
    OBVIOUS
  <2>4. t.state = "Unused" /\ c.at = "run"
    BY <2>3 DEF ClearTask, Running, InCall
  <2>5. /\ tasks' = [tasks EXCEPT ![slot] = t] /\ call' = [call EXCEPT ![slot] = c]
        /\ slot \in Slots \ {current} /\ UNCHANGED machine
        /\ nextTid' \in Nat /\ nextTid <= nextTid'
        /\ \A pid : FindProcess(pid) # {} => FindProcess(pid)' # {}
    BY <1>1, <1>2, <2>1, <2>2, <2>3
  <2> QED
    BY Zenon, <1>1, <2>4, <2>5, SlotReplaced
<1> QED
  BY <1>3, <1>4

\* Filling a free slot with a task that has a fresh tid keeps the inductive
\* invariant.
LEMMA StartTaskInv ==
    ASSUME ScanFinds, IInv, TypeOK', MayCreate, FreeTaskSlots # {},
           NEW pid, NEW ring \in {0, 3}, StartTask(pid, ring), UNCHANGED machine,
           ProcsSound', FindProcess(pid)' # {},
           \A p : FindProcess(p) # {} => FindProcess(p)' # {}
    PROVE  IInv'
<1>1. PICK t, c, slot : t = NewTask(pid, ring) /\ c = Running /\ slot = First(FreeTaskSlots)
  OBVIOUS
<1>2. /\ tasks' = [tasks EXCEPT ![slot] = t] /\ call' = [call EXCEPT ![slot] = c]
      /\ slot \in Slots \ {current} /\ nextTid' = nextTid + 1
  BY <1>1, FreeSlotNotCurrent DEF StartTask
<1>3. nextTid \in Nat /\ nextTid' \in Nat /\ nextTid <= nextTid'
  BY <1>2 DEF IInv, TypeOK
<1>4. /\ t.state = "Runnable" /\ t.tid = nextTid /\ t.pid = pid /\ t.ring = ring
      /\ ring = 3 => t.kernel_stack_top = <<t.tid, "top">>
      /\ t.saved_esp[1] = t.tid
      /\ t.saved_esp[2] = "top" <=> t.ring = 3
      /\ ~t.user_started
      /\ c.at = "run"
  BY <1>1, NewTaskFields DEF Running, InCall
<1>5. FindProcess(t.pid)' # {}
  BY <1>4
<1> QED
  BY Zenon, <1>2, <1>3, <1>4, <1>5, SlotReplaced

\* create_kernel_task keeps the inductive invariant.
LEMMA IInvCreateKernelTask ==
    ASSUME ScanFinds, IInv, NEW heapOk \in BOOLEAN, CreateKernelTask(heapOk)
    PROVE  IInv'
<1> TypeOK'
  BY CreateKernelTaskType DEF IInv
<1>1. TypeOK /\ TypeOK' /\ MayCreate /\ UNCHANGED machine
  BY DEF IInv, CreateKernelTask
<1>2. nextPid' = nextPid /\ nextPid \in Nat
  BY <1>1 DEF TypeOK, CreateKernelTask
<1>3. CASE FailTask(heapOk) /\ UNCHANGED procs
  BY <1>1, <1>2, <1>3, FailTaskInv
<1>4. CASE /\ FreeTaskSlots # {} /\ heapOk
           /\ StartTask(KernelPid, 0)
           /\ procs' = [procs EXCEPT ![First(FindProcess(KernelPid))].live_threads = @ + 1]
  <2>1. First(FindProcess(KernelPid)) \in ProcSlots
    BY FindProcessIsSlot DEF CreateKernelTask
  <2>2. \A i \in ProcSlots :
          /\ procs'[i].used = procs[i].used /\ procs'[i].pid = procs[i].pid
          /\ procs'[i].parent_pid = procs[i].parent_pid
          /\ procs'[i].address_space = procs[i].address_space
    BY <1>1, <1>4, <2>1 DEF TypeOK, Process
  <2>3. ProcsSound' /\ \A pid : FindProcess(pid)' = FindProcess(pid)
    BY <1>2, <2>2, ProcsKept
  <2>4. FindProcess(KernelPid)' # {}
    BY <2>3 DEF CreateKernelTask
  <2> QED
    BY <1>1, <1>4, <2>3, <2>4, StartTaskInv
<1> QED
  BY <1>3, <1>4 DEF CreateKernelTask

\* create_process_task and create_ring3_task keep the inductive invariant,
\* failures included.
LEMMA IInvCreateProcess ==
    ASSUME ScanFinds, IInv, NEW ring \in {0, 3}, NEW cloneOk \in BOOLEAN, NEW heapOk \in BOOLEAN,
           CreateProcess(ring, cloneOk, heapOk)
    PROVE  IInv'
<1> TypeOK'
  BY CreateProcessType DEF IInv
<1>1. TypeOK /\ TypeOK' /\ MayCreate /\ UNCHANGED machine
  BY DEF IInv, CreateProcess
<1>2. nextPid' = nextPid + 1 /\ nextPid \in Nat \ {0}
  BY <1>1 DEF TypeOK, CreateProcess
<1>3. CASE UNCHANGED <<tables, call, nextTid, processCount, threadCount>>
  <2>1. ProcsSound' /\ \A pid : FindProcess(pid)' = FindProcess(pid)
    BY <1>2, <1>3, ProcsKept DEF tables
  <2>2. HaltedIsExited' /\ TidsFresh' /\ Ring3Tops' /\ CurrentStarted'
    BY <1>1, <1>3 DEF IInv, HaltedIsExited, TidsFresh, Ring3Tops, CurrentStarted, Named, machine,
       tables
  <2>3. (cr3 = tasks[current].pid)' /\ StacksNotMixed' /\ Ring3EntersOwnKernelStack'
    BY <1>1, <1>3 DEF IInv, StacksNotMixed, Ring3EntersOwnKernelStack, Named, machine, tables
  <2>4. IdentitiesUnique'
    BY <1>3, <2>1 DEF IInv, ProcsSound, IdentitiesUnique, Named, tables
  <2> QED
    BY <1>1, <2>1, <2>2, <2>3, <2>4 DEF IInv, ProcsSound
<1>4. CASE FailTask(heapOk) /\ UNCHANGED procs
  BY <1>1, <1>2, <1>4, FailTaskInv
<1>5. CASE /\ FreeTaskSlots # {}
           /\ StartTask(nextPid, ring)
           /\ procs' = [procs EXCEPT ![First(FreeProcSlots)] =
                          [used |-> TRUE, pid |-> nextPid,
                           parent_pid |-> tasks[current].pid, live_threads |-> 1,
                           address_space |-> CloneSpace(nextPid)]]
  <2>1. PICK slot, new, parent :
          slot = First(FreeProcSlots) /\ new = nextPid /\ parent = tasks[current].pid
    OBVIOUS
  <2>2. slot \in ProcSlots /\ slot \notin UsedProcs
    BY <2>1, FreeProcSlotIsSlot DEF CreateProcess, UsedProcs, FreeProcSlots
  <2>3. /\ procs'[slot].used /\ procs'[slot].pid = new
        /\ procs'[slot].parent_pid = parent /\ procs'[slot].address_space = new
        /\ \A i \in ProcSlots \ {slot} : procs'[i] = procs[i]
    BY <1>1, <1>5, <2>1, <2>2 DEF TypeOK, CloneSpace
  <2>4. \A i \in ProcSlots : i \in UsedProcs' <=> i = slot \/ i \in UsedProcs
    BY <2>2, <2>3 DEF UsedProcs
  <2>5. FindProcess(parent) # {} /\ parent < new
    <3>1. FindProcess(parent) # {}
      BY <2>1 DEF IInv, TypeOK, IdentitiesUnique, StacksNotMixed
    <3>2. PICK i \in ProcSlots : i \in UsedProcs /\ procs[i].pid = parent
      BY <3>1 DEF FindProcess, UsedProcs
    <3> QED
      BY <1>2, <2>1, <3>1, <3>2 DEF IInv, PidsFresh
  <2>6. ASSUME NEW p, FindProcess(p) # {} PROVE FindProcess(p)' # {}
    <3>1. PICK i \in ProcSlots : i \in UsedProcs /\ procs[i].pid = p
      BY <2>6 DEF FindProcess, UsedProcs
    <3>2. procs'[i].used /\ procs'[i].pid = p
      BY <2>2, <2>3, <3>1 DEF UsedProcs
    <3> QED
      BY <3>2 DEF FindProcess
  <2>7. FindProcess(new)' # {}
    BY <2>2, <2>3 DEF FindProcess
  <2>8. PidsFresh'
    <3> SUFFICES ASSUME NEW i \in UsedProcs'
                 PROVE  procs'[i].pid \in 1 .. nextPid' - 1 /\ procs'[i].address_space = procs'[i].pid
      BY DEF PidsFresh
    <3>1. i \in ProcSlots
      BY DEF UsedProcs
    <3>2. CASE i = slot
      BY <1>2, <2>1, <2>3, <3>2
    <3>3. CASE i # slot
      BY <1>2, <2>3, <2>4, <3>1, <3>3 DEF IInv, PidsFresh
    <3> QED
      BY <3>2, <3>3
  <2>9. ASSUME NEW i \in UsedProcs', NEW j \in UsedProcs', i # j
        PROVE  procs'[i].pid # procs'[j].pid
    <3>1. i \in ProcSlots /\ j \in ProcSlots
      BY DEF UsedProcs
    <3>2. CASE i # slot /\ j # slot
      <4>1. i \in UsedProcs /\ j \in UsedProcs /\ procs'[i] = procs[i] /\ procs'[j] = procs[j]
        BY <2>3, <2>4, <3>1, <3>2
      <4> QED
        BY <2>9, <4>1 DEF IInv, IdentitiesUnique
    <3>3. CASE i = slot
      BY <1>2, <2>1, <2>3, <2>4, <2>9, <3>1, <3>3 DEF IInv, PidsFresh
    <3>4. CASE j = slot
      BY <1>2, <2>1, <2>3, <2>4, <2>9, <3>1, <3>4 DEF IInv, PidsFresh
    <3> QED
      BY <3>2, <3>3, <3>4
  <2>10. ASSUME NEW i \in UsedProcs', procs'[i].parent_pid # 0
         PROVE  /\ \E j \in ProcSlots : procs'[j].used /\ procs'[j].pid = procs'[i].parent_pid
                /\ procs'[i].parent_pid < procs'[i].pid
    <3>1. PICK pp : pp = procs'[i].parent_pid
      OBVIOUS
    <3>2. FindProcess(pp) # {} /\ pp < procs'[i].pid
      <4>1. CASE i = slot
        BY <2>3, <2>5, <3>1, <4>1
      <4>2. CASE i # slot
        <5>1. i \in ProcSlots /\ i \in UsedProcs /\ procs'[i] = procs[i]
          BY <2>3, <2>4, <4>2 DEF UsedProcs
        <5> QED
          BY <2>10, <3>1, <5>1 DEF IInv, IdentitiesUnique
      <4> QED
        BY <4>1, <4>2
    <3>3. FindProcess(pp)' # {}
      BY <2>6, <3>2
    <3> QED
      BY <3>1, <3>2, <3>3 DEF FindProcess
  <2>11. ProcsSound'
    BY <2>8, <2>9, <2>10 DEF ProcsSound, FindProcess
  <2> QED
    BY <1>1, <1>5, <2>1, <2>6, <2>7, <2>11, StartTaskInv
<1> QED
  BY <1>3, <1>4, <1>5 DEF CreateProcess

\* Every step keeps the inductive invariant.
LEMMA IInvNext == ScanFinds /\ IInv /\ [Next]_vars => IInv'
<1> SUFFICES ASSUME ScanFinds, IInv, [Next]_vars PROVE IInv'
  OBVIOUS
<1>1. TypeOK'
  BY TypeNext DEF IInv
<1>2. CASE EnableInterrupts
  <2>1. HaltedIsExited'
    BY <1>2 DEF EnableInterrupts, tables, IInv, HaltedIsExited
  <2> QED
    BY <1>1, <1>2, <2>1, QuietStep DEF EnableInterrupts, tables, counters
<1>3. CASE UNCHANGED vars
  <2>1. HaltedIsExited'
    BY <1>3 DEF vars, IInv, HaltedIsExited
  <2> QED
    BY <1>1, <1>3, <2>1, QuietStep DEF vars, machine
<1> QED
  BY <1>2, <1>3, IInvCreateKernelTask, IInvCreateProcess, IInvSleep, IInvExit, IInvTimer
     DEF Next, CreateProcessTask, CreateRing3Task

=============================================================================
