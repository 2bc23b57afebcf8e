---------------------------- MODULE SleepTiming ----------------------------
(***************************************************************************)
(* How long a sleep really lasts.  The specification is Scheduler's, with  *)
(* three history variables that no action reads.  left counts down, in     *)
(* true elapsed ticks, from the moment a caller of sleep_current sampled   *)
(* the clock; crossed records whether the 32-bit tick counter wrapped      *)
(* between that moment and the wake tick, and torn whether a tick fell     *)
(* between the two stores of sleep_current.                                *)
(***************************************************************************)
EXTENDS Scheduler

VARIABLES left, crossed, torn

history == <<left, crossed, torn>>
timingVars == <<vars, history>>

TimingInit ==
    /\ Init
    /\ left = [s \in Slots |-> 0]
    /\ crossed = [s \in Slots |-> FALSE]
    /\ torn = [s \in Slots |-> FALSE]

\* The request of the task that samples the clock in this step.
Request ==
    LET asked == call'[current]
    IN /\ left' = [left EXCEPT ![current] = asked.n]
       /\ crossed' = [crossed EXCEPT ![current] = asked.now + asked.n >= TickMod]
       /\ torn' = [torn EXCEPT ![current] = FALSE]

Elapse ==
    /\ left' = [s \in Slots |-> Dec(left[s])]
    /\ crossed' = [s \in Slots |-> crossed[s] \/ ticks' < ticks]
    /\ torn' = [s \in Slots |-> torn[s] \/ call[s].at = "marked"]

TimingNext ==
    /\ Next
    /\ IF ticks' # ticks THEN Elapse
       ELSE IF call'[current].at = "sampled" /\ call[current].at = "run" THEN Request
       ELSE UNCHANGED history

TimingSpec == TimingInit /\ [][TimingNext]_timingVars

-----------------------------------------------------------------------------
\* A task that finished storing its wake tick and lost the CPU is runnable
\* again at the tick it asked for: wake_sleeping_tasks never leaves it asleep
\* longer (away from a wrap of the tick counter).
WokenOnTime ==
    \A s \in Slots :
      /\ tasks[s].state = "Sleeping" /\ call[s].at = "wait"
      /\ current # s /\ ~crossed[s]
      => left[s] > 0

\* sys_sleep never returns before the requested ticks have passed, wherever it
\* was preempted on the way, provided the tick counter does not wrap and no
\* tick falls between the two stores of sleep_current.
NeverReturnsEarly ==
    [][\A s \in Slots :
         call[s].at = "wait" /\ call'[s].at = "run" /\ ~crossed[s] /\ ~torn[s]
           => left[s] = 0]_timingVars

\* build.md: sys_sleep blocks the current task and wakes it.  Whatever point of
\* sleep_current the preemption hits, a task that lost the CPU is runnable again
\* at the tick it asked for.
WokenOnTimeIfPreempted ==
    \A s \in Slots :
      tasks[s].state = "Sleeping" /\ current # s /\ ~crossed[s] => left[s] > 0
=============================================================================
