-------------------------- MODULE SchedulerProofs --------------------------
(***************************************************************************)
(* The scheduler's safety properties, for any number of tasks, processes   *)
(* and ticks, from the inductive invariant of SchedulerSteps: how long a   *)
(* sleep lasts, what g_thread_count counts, and the theorems.              *)
(***************************************************************************)
EXTENDS SchedulerSteps, SleepTiming

USE SchedulerAssumption

\* g_ticks changes with every interrupt, also when it wraps.
LEMMA NextTickDiffers ==
    ASSUME NEW t \in 0 .. TickMod - 1
    PROVE  (t + 1) % TickMod # t
<1>1. CASE t + 1 < TickMod
  BY <1>1
<1>2. CASE t + 1 = TickMod
  BY <1>2
<1> QED
  BY <1>1, <1>2

-----------------------------------------------------------------------------
(* How long a sleep lasts (SleepTiming).  WokenOnTime is not inductive: it *)
(* needs that, as long as the tick counter has not wrapped, the wake tick  *)
(* a task has sampled or stored is as many ticks ahead as are left of its  *)
(* sleep, and that a task which no tick has caught between the two stores  *)
(* of sleep_current is woken by its own wake tick only.                    *)

HistoryType ==
    /\ left \in [Slots -> Nat]
    /\ crossed \in [Slots -> BOOLEAN]
    /\ torn \in [Slots -> BOOLEAN]

\* The wake tick is as far ahead as left says.
OnTrack(s, wake) == IF left[s] > 0 THEN ticks + left[s] = wake ELSE ticks >= wake

SleepOnTrack(s) ==
    /\ call[s].at \in {"sampled", "marked"} /\ ~crossed[s] =>
         call[s].now + call[s].n < TickMod /\ OnTrack(s, call[s].now + call[s].n)
    /\ call[s].at = "marked" /\ ~torn[s] => tasks[s].state = "Sleeping"
    /\ call[s].at = "wait" /\ ~crossed[s] /\ tasks[s].state = "Sleeping" =>
         OnTrack(s, tasks[s].wake_tick)
    /\ call[s].at = "wait" /\ ~crossed[s] /\ ~torn[s] /\ tasks[s].state # "Sleeping" =>
         left[s] = 0

TimingInv == TypeOK /\ HistoryType /\ (\A s \in Slots : SleepOnTrack(s)) /\ WokenOnTime

\* wake_sleeping_tasks wakes exactly the sleepers whose tick has come, and the
\* dispatch that may follow leaves states and wake ticks alone.
LEMMA TimerSlot ==
    ASSUME TypeOK, TimerInterrupt, NEW s \in Slots
    PROVE  /\ ticks' = (ticks + 1) % TickMod /\ call' = call
           /\ IF tasks[s].state = "Sleeping" /\ ticks' >= tasks[s].wake_tick
              THEN tasks'[s].state = "Runnable"
              ELSE tasks'[s].state = tasks[s].state /\ tasks'[s].wake_tick = tasks[s].wake_tick
<1> DEFINE saved == [tasks EXCEPT ![current].saved_esp = <<cpu, "frame">>]
           now == (ticks + 1) % TickMod
<1>1. ticks' = now /\ call' = call
  BY DEF TimerInterrupt
<1>2. tasks[s] \in Task /\ tasks \in [Slots -> Task] /\ Woken \in [Slots -> Task]
  BY WokenType DEF TypeOK
<1>3. saved[s].state = tasks[s].state /\ saved[s].wake_tick = tasks[s].wake_tick
  BY <1>2 DEF Task
<1>4. tasks'[s].state = Woken[s].state /\ tasks'[s].wake_tick = Woken[s].wake_tick
  <2>1. tasks' = Woken \/ \E n : tasks' = [Woken EXCEPT ![n].user_started = TRUE]
    BY DEF TimerInterrupt, Dispatch, Woken
  <2> QED
    BY <1>2, <2>1 DEF Task
<1>5. Woken[s] = IF saved[s].state = "Sleeping" /\ now >= saved[s].wake_tick
                 THEN NoLongerAsleep(saved[s], "Runnable") ELSE saved[s]
  BY Zenon DEF Woken, WakeSleepingTasks
<1>6. saved[s] \in Task
  <2>1. <<cpu, "frame">> \in Pointers
    BY DEF TypeOK, Pointers
  <2> QED
    BY Zenon, <1>2, <2>1, TaskUpdateType
<1> HIDE DEF saved, now
<1>7. NoLongerAsleep(saved[s], "Runnable").state = "Runnable"
  BY <1>6, NoLongerAsleepFields
<1>8. ticks' = (ticks + 1) % TickMod
  BY <1>1 DEF now
<1> QED
  BY <1>1, <1>3, <1>4, <1>5, <1>7, <1>8

\* What a creation does to the task table: nothing, or one slot that held no live
\* task is cleared (the stack could not be allocated) or filled and counted.
LEMMA Creates ==
    ASSUME \/ \E heapOk \in BOOLEAN : CreateKernelTask(heapOk)
           \/ \E ring, cloneOk, heapOk : CreateProcess(ring, cloneOk, heapOk)
    PROVE  /\ MayCreate /\ UNCHANGED <<ticks, intr, machine>>
           /\ \/ UNCHANGED <<tasks, call, threadCount>>
              \/ /\ FreeTaskSlots # {}
                 /\ call' = [call EXCEPT ![First(FreeTaskSlots)] = Running]
                 /\ \/ /\ tasks' = [tasks EXCEPT ![First(FreeTaskSlots)] = ClearTask]
                       /\ threadCount' = threadCount
                    \/ /\ \E pid, ring : tasks' = [tasks EXCEPT ![First(FreeTaskSlots)] = NewTask(pid, ring)]
                       /\ threadCount' = threadCount + 1
BY DEF CreateKernelTask, CreateProcess, StartTask, FailTask, tables

\* Only the current task's own steps of sleep_current touch its sleep between
\* ticks; a slot that a creation takes begins outside any call.
LEMMA QuietSlot ==
    ASSUME TypeOK, Next, ticks' = ticks, NEW s \in Slots
    PROVE  /\ current' = current
           /\ \/ call'[s].at \notin {"sampled", "marked", "wait"}
              \/ /\ call'[s] = call[s] /\ tasks'[s].state = tasks[s].state
                 /\ tasks'[s].wake_tick = tasks[s].wake_tick
              \/ s = current /\ \/ \E n \in SleepTicks \cup {1}, waits \in BOOLEAN : SleepSample(n, waits)
                                \/ SleepMark \/ SleepStore
<1> USE DEF tables, counters, machine, At, TypeOK
<1>1. ~TimerInterrupt
  BY NextTickDiffers DEF TimerInterrupt
<1>2. CASE (\E heapOk \in BOOLEAN : CreateKernelTask(heapOk))
           \/ \E ring, cloneOk, heapOk : CreateProcess(ring, cloneOk, heapOk)
  <2>1. \/ UNCHANGED <<tasks, call>>
        \/ \E slot, t : tasks' = [tasks EXCEPT ![slot] = t] /\ call' = [call EXCEPT ![slot] = Running]
    BY <1>2, Creates
  <2> QED
    BY <1>2, <2>1, Creates DEF Running, InCall
<1>3. CASE EnableInterrupts
  BY <1>3 DEF EnableInterrupts
<1>4. CASE SleepReturn
  BY <1>4 DEF SleepReturn, Goto, Call
<1>5. CASE ExitLoadLive \/ ExitStoreLive \/ ExitStoreCount \/ ExitDone
  BY <1>5 DEF ExitLoadLive, ExitStoreLive, ExitStoreCount, ExitDone, Exiting, InCall, Goto, Call
<1>6. CASE \E n \in SleepTicks \cup {1}, waits \in BOOLEAN : SleepSample(n, waits)
  BY <1>6 DEF SleepSample
<1>7. CASE SleepMark
  BY <1>7 DEF SleepMark, Goto
<1>8. CASE SleepStore
  BY <1>8 DEF SleepStore
<1> QED
  BY <1>1, <1>2, <1>3, <1>4, <1>5, <1>6, <1>7, <1>8
     DEF Next, CreateProcessTask, CreateRing3Task

\* The types of what SleepTiming relates, field by field.
LEMMA SleepFields ==
    ASSUME TypeOK, HistoryType, NEW s \in Slots
    PROVE  /\ ticks \in 0 .. TickMod - 1 /\ tasks[s].wake_tick \in 0 .. TickMod - 1
           /\ call[s].now \in Nat /\ call[s].n \in Nat
           /\ left[s] \in Nat /\ crossed[s] \in BOOLEAN /\ torn[s] \in BOOLEAN
<1>1. tasks[s] \in Task /\ call[s] \in Call
  BY DEF TypeOK
<1>2. tasks[s].wake_tick \in 0 .. TickMod - 1
  BY <1>1 DEF Task
<1>3. call[s].now \in 0 .. TickMod - 1 /\ call[s].n \in SleepTicks \cup {0, 1}
  BY <1>1 DEF Call
<1>4. ticks \in 0 .. TickMod - 1
  BY DEF TypeOK
<1>5. left[s] \in Nat
  BY DEF HistoryType
<1>6. crossed[s] \in BOOLEAN /\ torn[s] \in BOOLEAN
  BY Zenon DEF HistoryType
<1>7. call[s].now \in Nat /\ call[s].n \in Nat
  <2>1. SleepTicks \cup {0, 1} \subseteq Nat /\ 0 .. TickMod - 1 \subseteq Nat
    OBVIOUS
  <2> QED
    BY Zenon, <1>3, <2>1
<1> QED
  BY Zenon, <1>2, <1>4, <1>5, <1>6, <1>7

\* A tick brings every wake tick one nearer, and wakes who has none left to wait.
LEMMA TimingTick ==
    ASSUME TimingInv, TimerInterrupt, Elapse, NEW s \in Slots
    PROVE  /\ SleepOnTrack(s)'
           /\ call'[s].at = "wait" /\ tasks'[s].state = "Sleeping" /\ ~crossed'[s] => left'[s] > 0
<1> DEFINE wake == tasks[s].wake_tick
           asked == call[s].now + call[s].n
           Later(w) == IF left'[s] > 0 THEN ticks' + left'[s] = w ELSE ticks' >= w
<1>1. /\ ticks \in 0 .. TickMod - 1 /\ wake \in 0 .. TickMod - 1 /\ asked \in Nat
      /\ left[s] \in Nat /\ crossed[s] \in BOOLEAN
  BY SleepFields DEF TimingInv
<1>2. /\ call' = call
      /\ IF tasks[s].state = "Sleeping" /\ ticks' >= wake
         THEN tasks'[s].state = "Runnable"
         ELSE tasks'[s].state = tasks[s].state /\ tasks'[s].wake_tick = wake
  BY TimerSlot DEF TimingInv
<1>3. /\ left'[s] = Dec(left[s])
      /\ crossed'[s] = (crossed[s] \/ ticks' < ticks)
      /\ torn'[s] = (torn[s] \/ call[s].at = "marked")
  BY DEF Elapse
<1>4. SleepOnTrack(s)
  BY DEF TimingInv
<1> SUFFICES ASSUME ~crossed'[s]
             PROVE  /\ SleepOnTrack(s)'
                    /\ call'[s].at = "wait" /\ tasks'[s].state = "Sleeping" => left'[s] > 0
  BY <1>2, <1>3 DEF SleepOnTrack
<1>5. ~crossed[s] /\ ticks' = ticks + 1
  <2>1. ~crossed[s] /\ ~(ticks' < ticks)
    BY Zenon, <1>3
  <2>2. ticks' = (ticks + 1) % TickMod
    BY TimerSlot DEF TimingInv
  <2> QED
    BY <1>1, <2>1, <2>2
<1>6. ASSUME NEW w \in Nat, OnTrack(s, w)
      PROVE  Later(w) /\ (ticks' >= w <=> left'[s] = 0)
  BY <1>1, <1>3, <1>5, <1>6 DEF OnTrack, Dec
<1>7. call[s].at \in {"sampled", "marked"} => asked < TickMod /\ Later(asked)
  BY <1>1, <1>4, <1>5, <1>6 DEF SleepOnTrack
<1>8. call[s].at = "wait" /\ tasks[s].state = "Sleeping" =>
         (ticks' >= wake <=> left'[s] = 0) /\ Later(wake)
  BY <1>1, <1>4, <1>5, <1>6 DEF SleepOnTrack
<1>9. call[s].at = "wait" /\ ~torn[s] /\ tasks[s].state # "Sleeping" => left'[s] = 0
  BY <1>3, <1>4, <1>5 DEF SleepOnTrack, Dec
<1>10. left'[s] \in Nat
  BY <1>1, <1>3 DEF Dec
<1>11. call'[s].at = "marked" => torn'[s]
  BY <1>2, <1>3
<1>12. call'[s].at = "wait" /\ ~torn'[s] => ~torn[s]
  BY Zenon, <1>3
<1>13. call'[s].at \in {"sampled", "marked"} =>
         call'[s].now + call'[s].n < TickMod /\ Later(call'[s].now + call'[s].n)
  BY Zenon, <1>2, <1>7
<1>14. call'[s].at = "wait" /\ tasks'[s].state = "Sleeping" =>
         Later(tasks'[s].wake_tick) /\ left'[s] > 0
  <2> SUFFICES ASSUME call'[s].at = "wait", tasks'[s].state = "Sleeping"
               PROVE  Later(tasks'[s].wake_tick) /\ left'[s] > 0
    OBVIOUS
  <2>1. tasks[s].state = "Sleeping" /\ tasks'[s].wake_tick = wake /\ ~(ticks' >= wake)
    BY <1>2
  <2> HIDE DEF Later, wake
  <2> QED
    BY <1>2, <1>8, <1>10, <2>1
<1>15. call'[s].at = "wait" /\ ~torn'[s] /\ tasks'[s].state # "Sleeping" => left'[s] = 0
  <2> HIDE DEF Later, wake
  <2> QED
    BY <1>2, <1>8, <1>9, <1>12
<1> QED
  BY <1>11, <1>13, <1>14, <1>15 DEF SleepOnTrack, OnTrack

\* Between ticks nothing changes what is left of a sleep but its own beginning.
LEMMA TimingQuiet ==
    ASSUME TimingInv, TimingNext, ticks' = ticks, NEW s \in Slots
    PROVE  /\ SleepOnTrack(s)'
           /\ s # current => \/ call'[s].at # "wait"
                             \/ /\ call'[s] = call[s] /\ tasks'[s].state = tasks[s].state
                                /\ UNCHANGED <<left[s], crossed[s]>>
<1> USE DEF TimingInv
<1>1. SleepOnTrack(s) /\ current \in Slots /\ s \in Slots
  BY DEF TypeOK
<1>2. HistoryType
  OBVIOUS
<1>3. CASE call'[s].at \notin {"sampled", "marked", "wait"}
  BY <1>3 DEF SleepOnTrack
<1>4. CASE /\ call'[s] = call[s] /\ tasks'[s].state = tasks[s].state
           /\ tasks'[s].wake_tick = tasks[s].wake_tick
  <2>1. left'[s] = left[s] /\ crossed'[s] = crossed[s] /\ torn'[s] = torn[s]
    BY <1>2, <1>4 DEF TimingNext, Request, HistoryType, history
  <2> QED
    BY <1>1, <1>4, <2>1 DEF SleepOnTrack, OnTrack
<1>5. CASE s = current /\ \E n \in SleepTicks \cup {1}, waits \in BOOLEAN : SleepSample(n, waits)
  <2>1. PICK n \in SleepTicks \cup {1}, waits \in BOOLEAN : SleepSample(n, waits)
    BY <1>5
  <2>2. call'[s].at = "sampled" /\ call[s].at = "run" /\ call'[s].now = ticks /\ call'[s].n = n
    BY <1>5, <2>1 DEF SleepSample, At, InCall, TypeOK
  <2>3. left'[s] = n /\ crossed'[s] = (ticks + n >= TickMod)
    BY <1>2, <1>5, <2>2 DEF TimingNext, Request, HistoryType
  <2>4. n \in Nat \ {0} /\ ticks \in Nat
    BY DEF TypeOK
  <2>5. ~crossed'[s] => ticks + n < TickMod
    <3>1. ~crossed'[s] => ~(ticks + n >= TickMod)
      BY Zenon, <2>3
    <3> QED
      BY <2>4, <3>1
  <2> QED
    BY <2>2, <2>3, <2>4, <2>5 DEF SleepOnTrack, OnTrack
<1>6. CASE s = current /\ SleepMark
  <2>1. /\ call[s].at = "sampled" /\ call'[s].at = "marked"
        /\ call'[s].now = call[s].now /\ call'[s].n = call[s].n
        /\ tasks'[s].state = "Sleeping"
    BY <1>6 DEF SleepMark, At, Goto, TypeOK, Call, Task
  <2>2. left'[s] = left[s] /\ crossed'[s] = crossed[s]
    BY <1>6, <2>1 DEF TimingNext, history
  <2> QED
    BY <1>1, <2>1, <2>2 DEF SleepOnTrack, OnTrack
<1>7. CASE s = current /\ SleepStore
  <2>1. call[s].at = "marked" /\ call'[s].at \in {"wait", "run"}
    BY <1>7 DEF SleepStore, At, InCall, Running, TypeOK, Call
  <2>2. left'[s] = left[s] /\ crossed'[s] = crossed[s] /\ torn'[s] = torn[s]
    BY <1>7, <2>1 DEF TimingNext, history
  <2>3. /\ tasks'[s].state = tasks[s].state
        /\ tasks'[s].wake_tick = (call[s].now + call[s].n) % TickMod
    BY <1>7 DEF SleepStore, At, TypeOK, Task
  <2>4. call[s].now \in Nat /\ call[s].n \in Nat /\ torn[s] \in BOOLEAN
    BY <1>2, SleepFields
  <2>5. ~crossed[s] => tasks'[s].wake_tick = call[s].now + call[s].n
    <3>1. ~crossed[s] => call[s].now + call[s].n < TickMod
      BY Zenon, <1>1, <2>1 DEF SleepOnTrack
    <3>2. ASSUME NEW x \in Nat, x < TickMod PROVE x % TickMod = x
      BY <3>2
    <3>3. call[s].now + call[s].n \in Nat
      BY <2>4
    <3> QED
      BY Zenon, <2>3, <3>1, <3>2, <3>3
  <2>6. ~crossed[s] => OnTrack(s, call[s].now + call[s].n)
    BY <1>1, <2>1 DEF SleepOnTrack
  <2>7. ~torn[s] => tasks'[s].state = "Sleeping"
    BY <1>1, <2>1, <2>3 DEF SleepOnTrack
  <2>8. ~crossed'[s] => (OnTrack(s, tasks[s].wake_tick))'
    BY <2>2, <2>5, <2>6 DEF OnTrack
  <2> QED
    BY <1>7, <2>1, <2>2, <2>7, <2>8 DEF SleepOnTrack
<1>8. s # current => \/ call'[s].at # "wait"
                     \/ /\ call'[s] = call[s] /\ tasks'[s].state = tasks[s].state
                        /\ UNCHANGED <<left[s], crossed[s]>>
  <2>1. s # current => UNCHANGED <<left[s], crossed[s]>>
    BY <1>2 DEF TimingNext, Request, HistoryType, history
  <2> QED
    BY <2>1, QuietSlot DEF TimingNext
<1> QED
  BY <1>3, <1>4, <1>5, <1>6, <1>7, <1>8, QuietSlot DEF TimingNext

LEMMA HistoryTypeNext ==
    ASSUME TypeOK, HistoryType, TimingNext, call'[current].n \in Nat, call'[current].now \in Nat
    PROVE  HistoryType'
<1>1. CASE ticks' # ticks
  <2>1. \A s \in Slots : left[s] \in Nat
    BY DEF HistoryType
  <2>2. left' \in [Slots -> Nat]
    BY <1>1, <2>1 DEF TimingNext, Elapse, Dec
  <2>3. crossed' = [s \in Slots |-> crossed[s] \/ ticks' < ticks]
    BY <1>1 DEF TimingNext, Elapse
  <2>4. torn' = [s \in Slots |-> torn[s] \/ call[s].at = "marked"]
    BY <1>1 DEF TimingNext, Elapse
  <2>5. crossed' \in [Slots -> BOOLEAN] /\ torn' \in [Slots -> BOOLEAN]
    BY Zenon, <2>3, <2>4
  <2> QED
    BY <2>2, <2>5 DEF HistoryType
<1>2. CASE ticks' = ticks /\ Request
  <2>1. left' \in [Slots -> Nat]
    BY <1>2 DEF Request, HistoryType
  <2>2. PICK wraps \in BOOLEAN : crossed' = [crossed EXCEPT ![current] = wraps]
    <3> DEFINE wrap == call'[current].now + call'[current].n >= TickMod
    <3>1. crossed' = [crossed EXCEPT ![current] = wrap]
      BY <1>2 DEF Request
    <3>2. wrap \in BOOLEAN
      OBVIOUS
    <3> HIDE DEF wrap
    <3> QED
      BY Zenon, <3>1, <3>2
  <2>3. torn' = [torn EXCEPT ![current] = FALSE]
    BY <1>2 DEF Request
  <2>4. crossed' \in [Slots -> BOOLEAN] /\ torn' \in [Slots -> BOOLEAN]
    BY <2>2, <2>3 DEF HistoryType
  <2> QED
    BY <2>1, <2>4 DEF HistoryType
<1>3. CASE UNCHANGED history
  BY <1>3 DEF history, HistoryType
<1> QED
  BY <1>1, <1>2, <1>3 DEF TimingNext

\* Every step of the scheduler keeps the sleeps on track.
LEMMA TimingInvNext == ScanFinds /\ TimingInv /\ [TimingNext]_timingVars => TimingInv'
<1> SUFFICES ASSUME ScanFinds, TimingInv, [TimingNext]_timingVars PROVE TimingInv'
  OBVIOUS
<1>1. CASE UNCHANGED timingVars
  BY <1>1 DEF TimingInv, timingVars, vars, tables, counters, machine, history, TypeOK, HistoryType, SleepOnTrack, OnTrack, WokenOnTime
<1>2. CASE TimingNext
  <2>1. TypeOK'
    BY <1>2, TypeNext DEF TimingInv, TimingNext
  <2>2. call'[current].n \in Nat /\ call'[current].now \in Nat
    <3>1. call'[current] \in Call
      BY <2>1 DEF TypeOK, TimingInv
    <3>2. call'[current].n \in SleepTicks \cup {0, 1} /\ call'[current].now \in 0 .. TickMod - 1
      BY <3>1 DEF Call
    <3>3. SleepTicks \cup {0, 1} \subseteq Nat /\ 0 .. TickMod - 1 \subseteq Nat
      OBVIOUS
    <3> QED
      BY Zenon, <3>2, <3>3
  <2>3. HistoryType'
    BY <1>2, <2>2, HistoryTypeNext DEF TimingInv
  <2>4. CASE ticks' # ticks
    <3>1. TimerInterrupt
      BY <1>2, <2>4 DEF TimingNext, Next, CreateKernelTask, CreateProcessTask, CreateRing3Task, CreateProcess,
         EnableInterrupts, SleepSample, SleepMark, SleepStore, SleepReturn, ExitLoadLive,
         ExitStoreLive, ExitStoreCount, ExitDone
    <3>2. Elapse
      BY <1>2, <2>4 DEF TimingNext
    <3> QED
      BY <2>1, <2>3, <3>1, <3>2, TimingTick DEF TimingInv, WokenOnTime
  <2>5. CASE ticks' = ticks
    <3>1. \A s \in Slots : SleepOnTrack(s)'
      BY <1>2, <2>5, TimingQuiet
    <3>2. current' = current
      BY <1>2, <2>5, QuietSlot DEF TimingInv, TimingNext, TypeOK
    <3>3. WokenOnTime'
      BY <1>2, <2>5, <3>2, TimingQuiet DEF WokenOnTime, TimingInv
    <3> QED
      BY <2>1, <2>3, <3>1, <3>3 DEF TimingInv
  <2> QED
    BY <2>4, <2>5
<1> QED
  BY <1>1, <1>2

\* A sleeper leaves its wait only by its own return, or by its slot's reuse.
LEMMA LeavesWait ==
    ASSUME ScanFinds, TypeOK, Next, NEW s \in Slots, call[s].at = "wait", call'[s].at = "run"
    PROVE  s \in FreeTaskSlots \/ (s = current /\ SleepReturn)
<1> USE DEF tables, counters, machine, At, TypeOK
<1>1. CASE \/ \E heapOk \in BOOLEAN : CreateKernelTask(heapOk)
           \/ \E ring, cloneOk, heapOk : CreateProcess(ring, cloneOk, heapOk)
  <2>1. \/ call' = call
        \/ FreeTaskSlots # {} /\ call' = [call EXCEPT ![First(FreeTaskSlots)] = Running]
    BY <1>1, Creates
  <2>2. FreeTaskSlots # {} /\ s = First(FreeTaskSlots)
    BY <2>1
  <2>3. FreeTaskSlots \in SUBSET Nat
    BY DEF FreeTaskSlots, Slots
  <2> QED
    BY <2>2, <2>3 DEF ScanFinds
<1>2. CASE EnableInterrupts \/ TimerInterrupt
  BY <1>2 DEF EnableInterrupts, TimerInterrupt
<1>3. CASE SleepReturn
  BY <1>3 DEF SleepReturn, Goto, Call
<1>4. CASE ExitLoadLive \/ ExitStoreLive \/ ExitStoreCount \/ ExitDone
  BY <1>4 DEF ExitLoadLive, ExitStoreLive, ExitStoreCount, ExitDone, Exiting, InCall, Goto, Call
<1>5. CASE \E n \in SleepTicks \cup {1}, waits \in BOOLEAN : SleepSample(n, waits)
  BY <1>5 DEF SleepSample
<1>6. CASE SleepMark \/ SleepStore
  BY <1>6 DEF SleepMark, SleepStore, Goto
<1> QED
  BY <1>1, <1>2, <1>3, <1>4, <1>5, <1>6 DEF Next, CreateProcessTask, CreateRing3Task

-----------------------------------------------------------------------------
(* g_thread_count, which an exiting task loads in one step and stores in a *)
(* later one.  The bound on the counter is inductive only together with    *)
(* the same bound on every value loaded and not yet stored back.           *)

Counting ==
    /\ threadCount >= Cardinality(Uncounted)
    /\ ~intr => \A s \in Slots : call[s].at = "run"
    /\ \A s \in Slots : call[s].at = "exit2" =>
         Live(s) /\ call[s].reg >= Cardinality(Uncounted)

CountInv == IInv /\ (~LateCreate => Counting)

\* Counting slots, as the steps below need it: SlotCountsHold proves it.
SlotCounts ==
    \A S \in SUBSET Slots :
      /\ Cardinality(S) \in Nat
      /\ \A T \in SUBSET S : Cardinality(T) <= Cardinality(S)
      /\ \A x \in Slots \ S : Cardinality(S \cup {x}) = Cardinality(S) + 1
      /\ \A x \in S : Cardinality(S \ {x}) = Cardinality(S) - 1

\* A step that adds no task to those to be counted and loads no value but the
\* counter's own.
LEMMA CountKept ==
    ASSUME SlotCounts, TypeOK, Counting, Uncounted' \subseteq Uncounted, threadCount' = threadCount,
           intr', \A s \in Slots : call'[s].at = "exit2" =>
                    /\ Live(s)'
                    /\ \/ call'[s].reg = threadCount
                       \/ call[s].at = "exit2" /\ call'[s].reg = call[s].reg
    PROVE  Counting'
<1>1. Uncounted \in SUBSET Slots /\ Uncounted' \in SUBSET Slots
  BY DEF Uncounted
<1>2. /\ Cardinality(Uncounted') <= Cardinality(Uncounted)
      /\ Cardinality(Uncounted') \in Nat /\ Cardinality(Uncounted) \in Nat
  BY <1>1 DEF SlotCounts
<1>3. threadCount \in Nat /\ \A s \in Slots : call[s].reg \in Nat
  BY DEF TypeOK, Call
<1> QED
  BY <1>2, <1>3 DEF Counting

\* The running task is alive unless it has halted.
LEMMA CurrentLive ==
    ASSUME IInv, call[current].at # "halted"
    PROVE  current \in Slots /\ Live(current)
<1>1. tasks[current] \in Task /\ current \in Slots
  BY DEF IInv, TypeOK
<1>2. tasks[current].state \in TaskStates
  BY <1>1 DEF Task
<1> QED
  BY <1>1, <1>2 DEF IInv, StacksNotMixed, HaltedIsExited, Named, Live, TaskStates

\* No step of a sleep makes a task uncounted that was not.
LEMMA CountSleep ==
    ASSUME SlotCounts, IInv, Counting,
           \/ \E n \in SleepTicks \cup {1}, waits \in BOOLEAN : SleepSample(n, waits)
           \/ SleepMark \/ SleepStore \/ SleepReturn
    PROVE  Counting'
<1> USE DEF IInv
<1>1. intr /\ call[current].at \in {"run", "sampled", "marked", "wait"} /\ current \in Slots
  BY DEF SleepSample, SleepMark, SleepStore, SleepReturn, At, TypeOK
<1>2. Live(current)
  BY <1>1, CurrentLive
<1>3. intr' /\ threadCount' = threadCount
  BY <1>1 DEF SleepSample, SleepMark, SleepStore, SleepReturn, counters
<1>4. \A s \in Slots \ {current} : call'[s] = call[s] /\ tasks'[s] = tasks[s]
  BY DEF SleepSample, SleepMark, SleepStore, SleepReturn, Goto, tables, TypeOK
<1>5. call'[current].at \in {"run", "sampled", "marked", "wait"}
  <2>1. call \in [Slots -> Call]
    BY DEF TypeOK
  <2>2. CASE SleepMark \/ SleepReturn
    BY <1>1, <2>1, <2>2 DEF SleepMark, SleepReturn, Goto, Call
  <2>3. CASE \E n \in SleepTicks \cup {1}, waits \in BOOLEAN : SleepSample(n, waits)
    BY <1>1, <2>1, <2>3 DEF SleepSample, InCall
  <2>4. CASE SleepStore
    BY <1>1, <2>1, <2>4 DEF SleepStore, InCall
  <2> QED
    BY <2>2, <2>3, <2>4
<1>6. Uncounted' \subseteq Uncounted
  BY <1>1, <1>2, <1>4 DEF Uncounted, Live
<1>7. \A s \in Slots : call'[s].at = "exit2" => Live(s)' /\ call[s].at = "exit2" /\ call'[s].reg = call[s].reg
  BY <1>4, <1>5 DEF Counting, Live
<1> QED
  BY Zenon, <1>3, <1>6, <1>7, CountKept

\* Two exits may both load the counter before either stores it: it then stays
\* too high.  An exit that stores takes one task, itself, off both.
LEMMA CountExit ==
    ASSUME SlotCounts, IInv, Counting, ExitLoadLive \/ ExitStoreLive \/ ExitStoreCount \/ ExitDone
    PROVE  Counting'
<1> USE DEF IInv
<1>1. intr /\ call[current].at \in {"run", "exit1", "exit2", "exit3"} /\ current \in Slots
  BY DEF ExitLoadLive, ExitStoreLive, ExitStoreCount, ExitDone, At, TypeOK
<1>2. Live(current)
  BY <1>1, CurrentLive
<1>3. intr'
  BY <1>1 DEF ExitLoadLive, ExitStoreLive, ExitStoreCount, ExitDone
<1>4. \A s \in Slots \ {current} : call'[s] = call[s] /\ tasks'[s] = tasks[s]
  BY DEF ExitLoadLive, ExitStoreLive, ExitStoreCount, ExitDone, Goto, tables, TypeOK
<1>5. CASE ExitLoadLive \/ ExitStoreLive \/ ExitDone
  <2>1. threadCount' = threadCount
    BY <1>5 DEF ExitLoadLive, ExitStoreLive, ExitDone, counters
  <2>2. /\ \/ call'[current].at \in {"exit1", "exit2"} /\ call[current].at \in {"run", "exit1"}
                /\ tasks' = tasks
           \/ call'[current].at = "halted" /\ tasks'[current].state = "Exited"
        /\ call'[current].at = "exit2" => call'[current].reg = threadCount
    <3>1. call \in [Slots -> Call] /\ tasks \in [Slots -> Task]
      BY DEF TypeOK
    <3>2. CASE ExitLoadLive
      BY <1>1, <3>1, <3>2 DEF ExitLoadLive, At, Exiting, InCall, tables
    <3>3. CASE ExitStoreLive
      BY <1>1, <3>1, <3>3 DEF ExitStoreLive, At, Exiting, InCall
    <3>4. CASE ExitDone
      <4>1. tasks[current] \in Task /\ call[current] \in Call
        BY <1>1, <3>1
      <4>2. NoLongerAsleep(tasks[current], "Exited").state = "Exited"
        BY <4>1, NoLongerAsleepFields
      <4>3. call'[current].at = "halted"
        BY <1>1, <3>1, <3>4 DEF ExitDone, Goto, Call
      <4>4. tasks'[current] = NoLongerAsleep(tasks[current], "Exited")
        BY <1>1, <3>1, <3>4 DEF ExitDone
      <4> QED
        BY <4>2, <4>3, <4>4
    <3> QED
      BY <1>5, <3>2, <3>3, <3>4
  <2>4. Uncounted' \subseteq Uncounted
    BY <1>2, <1>4, <2>2 DEF Uncounted, Live
  <2>5. \A s \in Slots : call'[s].at = "exit2" =>
          /\ Live(s)'
          /\ call'[s].reg = threadCount \/ (call[s].at = "exit2" /\ call'[s].reg = call[s].reg)
    BY <1>2, <1>4, <2>2 DEF Counting, Live
  <2> QED
    BY Zenon, <1>3, <2>1, <2>4, <2>5, CountKept
<1>6. CASE ExitStoreCount
  <2> DEFINE n == Cardinality(Uncounted)
  <2>1. /\ call[current].at = "exit2" /\ threadCount' = Dec(call[current].reg)
        /\ call'[current].at = "exit3" /\ tasks' = tasks
    BY <1>6 DEF ExitStoreCount, At, Exiting, InCall, tables, TypeOK
  <2>2. current \in Uncounted /\ Uncounted' = Uncounted \ {current}
    BY <1>1, <1>2, <1>4, <2>1 DEF Uncounted, Live
  <2>3. n \in Nat /\ Cardinality(Uncounted') = n - 1 /\ Cardinality(Uncounted') \in Nat
    <3>1. Uncounted \in SUBSET Slots /\ Uncounted' \in SUBSET Slots
      BY DEF Uncounted
    <3> QED
      BY <2>2, <3>1 DEF SlotCounts
  <2>4. call[current].reg >= n /\ \A s \in Slots : call[s].reg \in Nat
    BY <1>1, <2>1 DEF Counting, TypeOK, Call
  <2>5. n > 0
    BY <2>3
  <2> HIDE DEF n
  <2>6. threadCount' >= n - 1
    BY <1>1, <2>1, <2>3, <2>4, <2>5 DEF Dec
  <2>7. \A s \in Slots : call'[s].at = "exit2" => Live(s)' /\ call'[s].reg >= n - 1
    <3>1. \A s \in Slots : call'[s].at = "exit2" => s # current
      BY <2>1
    <3>2. \A s \in Slots : call[s].at = "exit2" => Live(s) /\ call[s].reg >= n
      BY DEF Counting, n
    <3> QED
      BY <1>4, <2>3, <2>4, <3>1, <3>2 DEF Live
  <2> QED
    BY <1>3, <2>3, <2>6, <2>7 DEF Counting
<1> QED
  BY <1>5, <1>6

\* A new task is counted in the step that creates it.
LEMMA CountCreate ==
    ASSUME ScanFinds, SlotCounts, IInv, Counting, ~LateCreate,
           \/ \E heapOk \in BOOLEAN : CreateKernelTask(heapOk)
           \/ \E ring, cloneOk, heapOk : CreateProcess(ring, cloneOk, heapOk)
    PROVE  Counting'
<1> DEFINE slot == First(FreeTaskSlots)
<1>1. ~intr /\ ~intr'
  BY Creates DEF MayCreate
<1>2. \A s \in Slots : call[s].at = "run"
  BY <1>1 DEF Counting
<1>3. tasks \in [Slots -> Task] /\ call \in [Slots -> Call] /\ threadCount \in Nat
  BY DEF IInv, TypeOK
<1>4. CASE UNCHANGED <<tasks, call, threadCount>>
  BY <1>1, <1>4 DEF Counting, Uncounted, Live
<1>5. CASE FreeTaskSlots # {} /\ call' = [call EXCEPT ![slot] = Running]
  <2>1. slot \in FreeTaskSlots
    <3>1. FreeTaskSlots \in SUBSET Nat
      BY DEF FreeTaskSlots, Slots
    <3> QED
      BY <1>5, <3>1 DEF ScanFinds
  <2>2. slot \in Slots /\ slot \notin Uncounted
    BY <2>1 DEF FreeTaskSlots, Uncounted, Live
  <2> HIDE DEF slot
  <2>3. \A s \in Slots : call'[s].at = "run"
    BY <1>2, <1>3, <1>5 DEF Running, InCall
  <2>4. \A s \in Slots \ {slot} : tasks'[s] = tasks[s]
    BY <1>3, Creates DEF slot
  <2>5. Uncounted' \in SUBSET (Uncounted \cup {slot})
    BY <1>2, <2>4 DEF Uncounted, Live
  <2>6. Uncounted \in SUBSET Slots /\ Uncounted \cup {slot} \in SUBSET Slots /\ Uncounted' \in SUBSET Slots
    BY <2>2 DEF Uncounted
  <2>7. /\ Cardinality(Uncounted') <= Cardinality(Uncounted) + 1
        /\ Cardinality(Uncounted') \in Nat /\ Cardinality(Uncounted) \in Nat
    BY <2>2, <2>5, <2>6 DEF SlotCounts
  <2>8. CASE threadCount' = threadCount + 1
    BY <1>3, <2>3, <2>7, <2>8 DEF Counting
  <2>9. CASE tasks'[slot].state = "Unused" /\ threadCount' = threadCount
    <3>1. Uncounted' \in SUBSET Uncounted
      BY <2>5, <2>9 DEF Uncounted, Live
    <3>2. Cardinality(Uncounted') <= Cardinality(Uncounted)
      BY <2>6, <3>1 DEF SlotCounts
    <3> QED
      BY <1>3, <2>3, <2>7, <2>9, <3>2 DEF Counting
  <2>10. CASE UNCHANGED <<tasks, call, threadCount>>
    BY <1>4, <2>10
  <2>11. \/ UNCHANGED <<tasks, call, threadCount>>
         \/ threadCount' = threadCount + 1
         \/ tasks'[slot].state = "Unused" /\ threadCount' = threadCount
    BY <1>3, <2>2, Creates DEF slot, ClearTask
  <2> QED
    BY <2>8, <2>9, <2>10, <2>11
<1> QED
  BY <1>4, <1>5, Creates

\* A tick wakes and switches: no task becomes live or stops being so.
LEMMA CountTimer ==
    ASSUME SlotCounts, IInv, Counting, TimerInterrupt
    PROVE  Counting'
<1>1. intr' /\ threadCount' = threadCount /\ call' = call
  BY DEF TimerInterrupt, counters
<1>2. \A s \in Slots : Live(s)' <=> Live(s)
  BY TimerSlot DEF IInv, Live
<1>3. Uncounted' = Uncounted
  BY <1>1, <1>2 DEF Uncounted
<1> QED
  BY <1>1, <1>2, <1>3, CountKept DEF IInv, Counting

\* After scheduler::init the boot task is the only one, and it is counted.
LEMMA CountInit ==
    ASSUME Init
    PROVE  Uncounted = {0} /\ threadCount = 1 /\ \A s \in Slots : call[s].at = "run"
<1>1. \A s \in Slots : call[s].at = "run"
  BY DEF Init, Running, InCall
<1>2. 0 \in Slots /\ tasks[0].state = "Runnable"
  BY DEF Init, Slots
<1>3. \A s \in Slots \ {0} : tasks[s].state = "Unused"
  BY DEF Init, ClearTask
<1>4. threadCount = 1
  BY DEF Init
<1> QED
  BY <1>1, <1>2, <1>3, <1>4 DEF Uncounted, Live

-----------------------------------------------------------------------------
(* The theorems, with the library's facts on well-founded relations and on *)
(* finite sets.                                                            *)
INSTANCE FiniteSetTheorems

\* A scan that stops at the first match returns a match, and no earlier index
\* matches.
LEMMA FirstIsLeast ==
    ASSUME NEW S \in SUBSET Nat, S # {}
    PROVE  First(S) \in S /\ \A j \in S : First(S) <= j
<1> DEFINE R == OpToRel(<, Nat)
<1>1. \A x, y \in Nat : y < x => <<y, x>> \in R
  BY Zenon DEF OpToRel
<1>2. IsWellFoundedOn(R, Nat)
  BY Zenon, NatLessThanWellFounded
<1> HIDE DEF R
<1>3. PICK x \in S : \A y \in S : ~(<<y, x>> \in R)
  BY Zenon, <1>2, WFMin
<1>4. \A y \in S : x <= y
  <2> SUFFICES ASSUME NEW y \in S PROVE x <= y
    OBVIOUS
  <2>1. ~(y < x)
    BY Zenon, <1>1, <1>3
  <2> QED
    BY <2>1
<1> QED
  BY Zenon, <1>4 DEF First

\* The scans of the scheduler's tables return what they look for.
LEMMA ScanAlwaysFinds == ScanFinds
BY FirstIsLeast DEF ScanFinds

\* Types are preserved by every step of the scheduler.
THEOREM TypeCorrect == Spec => []TypeOK
BY TypeInit, TypeNext, ScanAlwaysFinds, PTL DEF Spec

\* The inductive invariant holds in every reachable state of the scheduler.
THEOREM Inductive == Spec => []IInv
BY IInvInit, IInvNext, ScanAlwaysFinds, PTL DEF Spec

\* However many tasks and processes are created, exit and have their slots used
\* again, no two tasks share a tid, no two processes a pid, and no task or
\* process refers to one that does not exist.
THEOREM IdentitiesAlwaysUnique == Spec => []IdentitiesUnique
<1>1. IInv => IdentitiesUnique
  BY DEF IInv
<1> QED
  BY <1>1, Inductive, PTL

\* on_timer_interrupt never runs one task on another's stack: its fallback for a
\* task without a saved frame is dead code.
THEOREM StacksNeverMixed == Spec => []StacksNotMixed
<1>1. IInv => StacksNotMixed
  BY DEF IInv
<1> QED
  BY <1>1, Inductive, PTL

\* Comparing the pids of the two tasks is enough to keep cr3 right.
THEOREM AddressSpaceAlwaysFollows == Spec => []AddressSpaceFollowsTask
BY Inductive, IInvImplies, PTL

\* TSS.esp0 is right whenever a ring-3 task runs, although it is set only on
\* dispatch.
THEOREM Ring3AlwaysEntersOwnStack == Spec => []Ring3EntersOwnKernelStack
<1>1. IInv => Ring3EntersOwnKernelStack
  BY DEF IInv
<1> QED
  BY <1>1, Inductive, PTL

\* No step but the timer interrupt changes g_current_task or g_ticks.
LEMMA OnlyTimerSwitches ==
    ASSUME TypeOK, [Next]_vars, current' # current
    PROVE  TimerInterrupt /\ Dispatch(Woken) /\ QuantumOver((ticks + 1) % TickMod)
<1>1. TimerInterrupt
  BY Zenon DEF Next, vars, machine, CreateKernelTask, CreateProcessTask, CreateRing3Task, CreateProcess,
     EnableInterrupts, SleepSample, SleepMark, SleepStore, SleepReturn, ExitLoadLive,
     ExitStoreLive, ExitStoreCount, ExitDone
<1> QED
  BY <1>1 DEF TimerInterrupt, Woken, machine

\* A task loses the CPU only to a tick that ends a quantum.
THEOREM AlwaysSwitchAtQuantum == Spec => SwitchOnlyAtQuantum
<1>1. ASSUME TypeOK, [Next]_vars
      PROVE  [current' # current => ticks' # ticks /\ ticks' % QuantumTicks = 0]_vars
  <2> SUFFICES ASSUME current' # current
               PROVE  ticks' # ticks /\ ticks' % QuantumTicks = 0
    OBVIOUS
  <2>1. TimerInterrupt /\ QuantumOver((ticks + 1) % TickMod)
    BY <1>1, OnlyTimerSwitches
  <2>2. ticks' = (ticks + 1) % TickMod
    BY <2>1 DEF TimerInterrupt
  <2> QED
    BY <1>1, <2>1, <2>2, NextTickDiffers DEF QuantumOver, TypeOK
<1> QED
  BY <1>1, TypeCorrect, PTL DEF Spec, SwitchOnlyAtQuantum

\* An exited task that has lost the CPU is never dispatched again.
THEOREM ExitedAlwaysGone == Spec => ExitedNeverResumes
<1>1. ASSUME TypeOK, [Next]_vars
      PROVE  [\A s \in Slots : tasks[s].state = "Exited" /\ current' = s => current = s]_vars
  <2> SUFFICES ASSUME NEW s \in Slots, tasks[s].state = "Exited", current' = s, current # s
               PROVE  FALSE
    OBVIOUS
  <2>1. Dispatch(Woken)
    BY <1>1, OnlyTimerSwitches
  <2>2. current' = PickNextRunnable(Woken, current)
    BY <2>1 DEF Dispatch
  <2>3. Woken[s].state = "Runnable"
    BY <1>1, <2>2, PickedIsRunnable, ScanAlwaysFinds DEF TypeOK
  <2> QED
    BY <1>1, <2>3, WokenFields
<1> QED
  BY <1>1, TypeCorrect, PTL DEF Spec, ExitedNeverResumes

\* In every reachable state, for every sleep length and wherever a tick falls,
\* the sleeps are on track.
THEOREM SleepsAlwaysOnTrack == TimingSpec => []TimingInv
<1>1. TimingInit => TimingInv
  <2> SUFFICES ASSUME TimingInit PROVE TimingInv
    OBVIOUS
  <2>1. TypeOK
    BY TypeInit DEF TimingInit
  <2>2. HistoryType
    BY DEF TimingInit, HistoryType
  <2>3. \A s \in Slots : call[s].at = "run"
    BY DEF TimingInit, Init, Running, InCall
  <2> QED
    BY <2>1, <2>2, <2>3 DEF TimingInv, SleepOnTrack, WokenOnTime
<1> QED
  BY <1>1, TimingInvNext, ScanAlwaysFinds, PTL DEF TimingSpec

\* wake_sleeping_tasks never leaves a preempted sleeper asleep past its tick.
THEOREM AlwaysWokenOnTime == TimingSpec => []WokenOnTime
<1>1. TimingInv => WokenOnTime
  BY DEF TimingInv
<1> QED
  BY <1>1, SleepsAlwaysOnTrack, PTL

\* sys_sleep never returns before the requested ticks have passed, however it is
\* preempted on the way, unless the tick counter wraps or a tick falls between
\* sleep_current's two stores.
THEOREM NeverEarly == TimingSpec => NeverReturnsEarly
<1>1. ASSUME TimingInv, [TimingNext]_timingVars
      PROVE  [\A s \in Slots : call[s].at = "wait" /\ call'[s].at = "run" /\ ~crossed[s] /\ ~torn[s]
                => left[s] = 0]_timingVars
  <2> SUFFICES ASSUME NEW s \in Slots, TimingNext, call[s].at = "wait", call'[s].at = "run",
                      ~crossed[s], ~torn[s], tasks[s].state = "Sleeping"
               PROVE  left[s] = 0
    BY <1>1 DEF TimingInv, SleepOnTrack
  <2>1. OnTrack(s, tasks[s].wake_tick)
    BY <1>1 DEF TimingInv, SleepOnTrack
  <2>2. s = current /\ ~IsCurrentSleeping(ticks)
    BY <1>1, LeavesWait, ScanAlwaysFinds DEF TimingInv, TimingNext, FreeTaskSlots, SleepReturn
  <2>3. ticks \in Nat /\ tasks[s].wake_tick \in Nat /\ left[s] \in Nat
    BY <1>1, SleepFields DEF TimingInv
  <2> QED
    BY <2>1, <2>2, <2>3 DEF OnTrack, IsCurrentSleeping
<1> QED
  BY <1>1, SleepsAlwaysOnTrack, PTL DEF TimingSpec, NeverReturnsEarly

\* The library's facts on cardinalities, for sets of task slots.
LEMMA SlotCountsHold == SlotCounts
<1> SUFFICES ASSUME NEW S \in SUBSET Slots
             PROVE  /\ Cardinality(S) \in Nat
                    /\ \A T \in SUBSET S : Cardinality(T) <= Cardinality(S)
                    /\ \A x \in Slots \ S : Cardinality(S \cup {x}) = Cardinality(S) + 1
                    /\ \A x \in S : Cardinality(S \ {x}) = Cardinality(S) - 1
  BY DEF SlotCounts
<1>1. IsFiniteSet(Slots)
  BY FS_Interval DEF Slots
<1>2. IsFiniteSet(S)
  BY Zenon, <1>1, FS_Subset
<1> QED
  BY Zenon, <1>2, FS_Subset, FS_CardinalityType, FS_AddElement, FS_RemoveElement

\* While tasks are created only before interrupts are enabled, as kmain does, no
\* interleaving of exits makes g_thread_count fall below the number of live
\* tasks that have yet to leave it.
THEOREM ThreadCountAlwaysCovers == Spec => []ThreadCountCoversLive
<1>1. Init => CountInv
  <2> SUFFICES ASSUME Init PROVE CountInv
    OBVIOUS
  <2>1. Uncounted = {0} /\ threadCount = 1 /\ \A s \in Slots : call[s].at = "run"
    BY CountInit
  <2>2. Cardinality({0}) = 1
    BY FS_Singleton
  <2> QED
    BY <2>1, <2>2, IInvInit DEF CountInv, Counting
<1>2. CountInv /\ [Next]_vars => CountInv'
  <2> SUFFICES ASSUME CountInv, [Next]_vars, ~LateCreate PROVE Counting'
    BY IInvNext, ScanAlwaysFinds DEF CountInv
  <2>1. IInv /\ Counting
    BY DEF CountInv
  <2>2. CASE EnableInterrupts
    BY <2>1, <2>2 DEF EnableInterrupts, Counting, Uncounted, Live, tables, counters
  <2>3. CASE UNCHANGED vars
    BY <2>1, <2>3 DEF vars, Counting, Uncounted, Live, tables, counters
  <2> QED
    BY <2>1, <2>2, <2>3, CountSleep, CountExit, CountCreate, CountTimer, ScanAlwaysFinds, SlotCountsHold
       DEF Next, CreateProcessTask, CreateRing3Task
<1>3. CountInv => ThreadCountCoversLive
  BY DEF CountInv, Counting, ThreadCountCoversLive
<1> QED
  BY <1>1, <1>2, <1>3, PTL DEF Spec

=============================================================================
