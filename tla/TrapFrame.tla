------------------------------ MODULE TrapFrame ------------------------------
(***************************************************************************)
(* Interrupt entry and exit at the level of the words on the stack:        *)
(* boot/interrupts.S with the handlers it calls, and the frames that the   *)
(* scheduler builds by hand for tasks that have not run yet.               *)
(*                                                                         *)
(* Each kernel task has a stack that grows down; a word is a tuple naming  *)
(* where it comes from, so that a word restored into the wrong place       *)
(* shows.  Interrupt gates keep interrupts off, so a whole interrupt is    *)
(* one step; int 0x80 is a trap gate, and the timer may interrupt it.      *)
(* The processor (pusha, popa, iret) is external.                          *)
(***************************************************************************)
EXTENDS Integers, Sequences

CONSTANTS
    Tasks,      \* task slots
    Boot,       \* the task that is running when interrupts are turned on
    StackSize,  \* words of a stack
    Locals      \* numbers of words code keeps on the stack

\* What the constants have to be.  A stack has room for the locals of a task, a
\* system call with its own, and an interrupt: 11 words of a frame and 5 of the
\* call of syscall_dispatch, 11 of a frame and 1 of the call of irq0_handler.
TrapFrameConstants ==
    /\ Boot \in Tasks
    /\ StackSize \in Nat /\ Locals \subseteq Nat
    /\ \A m, n \in Locals \cup {0} : m + 16 + n + 12 <= StackSize

Regs == {"eax", "ecx", "edx", "ebx", "ebp", "esi", "edi"}
Zero == <<"zero">>
CS == <<"kernel cs">>
Flags == <<"interrupts on">>

VARIABLES
    mem,        \* the words of each task's stack
    cpu,        \* registers, eip, cs, flags and esp of the processor
    current,    \* g_current_task
    saved,      \* saved_esp of each task
    inCall,     \* where the frame of a task's system call lies, or StackSize
    program     \* history: what each task must see, its callers below it

vars == <<mem, cpu, current, saved, inCall, program>>

-----------------------------------------------------------------------------
\* Words pushed one after the other from sp down.
Push(stack, sp, words) ==
    [a \in DOMAIN stack |-> IF a < sp /\ a >= sp - Len(words) THEN words[sp - a] ELSE stack[a]]

\* Nobody reads what lies below a stack pointer: those words count as cleared.
Live(stack, sp) == [a \in DOMAIN stack |-> IF a < sp THEN Zero ELSE stack[a]]

IntFrame(c) == <<c.flags, c.cs, c.eip>>

Pusha(r, sp) ==
    <<r.eax, r.ecx, r.edx, r.ebx, <<"esp", sp>>, r.ebp, r.esi, r.edi>>

\* The frame of an interrupt in kernel mode: the processor's part and pusha's.
Frame(c) == IntFrame(c) \o Pusha(c.regs, c.esp - 3)

\* popa and iret from sp, to ring 0.
Resume(stack, sp) ==
    LET ret == sp + 8
    IN [regs |-> [r \in Regs |-> stack[sp + CASE r = "edi" -> 0 [] r = "esi" -> 1
                                              [] r = "ebp" -> 2 [] r = "ebx" -> 4
                                              [] r = "edx" -> 5 [] r = "ecx" -> 6
                                              [] r = "eax" -> 7]],
        eip |-> stack[ret], cs |-> stack[ret + 1], flags |-> stack[ret + 2],
        esp |-> ret + 3]

\* The registers of code of task t: its own or those of a system call.
RegsOf(t, code, turn) == [r \in Regs |-> <<t, code, turn, r>>]

\* Mutant: the registers go where popa does not look for them.
SetupInitialTaskStackSwapped(t) ==
    <<<<t, "trampoline">>, CS, Flags, Zero, Zero, Zero, Zero, Zero, Zero, Zero, Zero>>

\* setup_initial_task_stack, from the top of the stack down.
SetupInitialTaskStack(t) ==
    <<Flags, CS, <<t, "trampoline">>, Zero, Zero, Zero, Zero, Zero, Zero, Zero, Zero>>

\* A task's first instruction.
Start(t) ==
    [regs |-> [r \in Regs |-> Zero], flags |-> Flags, esp |-> StackSize,
     eip |-> <<t, "trampoline">>, cs |-> CS]

\* The boot thread runs; the other tasks have been created.
Init ==
    /\ mem = [t \in Tasks |->
                LET empty == [a \in 0 .. StackSize - 1 |-> Zero]
                IN IF t = Boot THEN empty
                   ELSE Push(empty, StackSize, SetupInitialTaskStack(t))]
    /\ saved = [t \in Tasks |-> IF t = Boot THEN StackSize
                                ELSE StackSize - Len(SetupInitialTaskStack(t))]
    /\ cpu = Start(Boot)
    /\ current = Boot
    /\ inCall = [t \in Tasks |-> StackSize]
    /\ program = [t \in Tasks |-> <<Start(t)>>]

\* Code runs on: cs and the flags stay.
RunsOn(c, regs, eip, esp) ==
    [regs |-> regs, eip |-> eip, cs |-> c.cs, flags |-> c.flags, esp |-> esp]

Put(t, c) == program' = [program EXCEPT ![t] = <<c>> \o Tail(@)]

\* Code runs for a while: other registers, another place, other locals.
Work(turn, n) ==
    LET t == current
        code == IF inCall[t] = StackSize THEN "task" ELSE "call"
        c == RunsOn(cpu, RegsOf(t, code, turn), <<t, code, turn>>, inCall[t] - n)
    IN /\ cpu' = c
       /\ Put(t, c)
       /\ UNCHANGED <<mem, current, saved, inCall>>

\* irq0_stub and irq0_handler: on_timer_interrupt keeps esp of the task it
\* leaves and returns that of the task it picks, maybe the same.  The argument
\* of the call lies below the frame.
Irq0(next) ==
    LET t == current
        sp == cpu.esp - Len(Frame(cpu))
        stack == [mem EXCEPT ![t] = Push(@, cpu.esp, Frame(cpu) \o <<<<"esp", sp>>>>)]
    IN /\ saved' = [saved EXCEPT ![t] = sp]
       /\ current' = next
       /\ cpu' = Resume(stack[next], saved'[next])
       /\ mem' = [u \in Tasks |-> Live(stack[u], IF u = next THEN cpu'.esp ELSE saved'[u])]
       /\ UNCHANGED <<inCall, program>>

\* Mutant: ecx and edx are exchanged.
SyscallArgsSwapped(stack, sp) == <<stack[sp + 7], stack[sp + 4], stack[sp + 5], stack[sp + 6]>>

\* The words that syscall_stub takes from the frame: 28, 16, 24 and 20(%esp).
SyscallArgs(stack, sp) == <<stack[sp + 7], stack[sp + 4], stack[sp + 6], stack[sp + 5]>>

\* syscall_stub up to syscall_dispatch: the arguments go below the frame.
Syscall ==
    LET t == current
        sp == cpu.esp - Len(Frame(cpu))
        stack == Push(mem[t], cpu.esp, Frame(cpu))
        args == SyscallArgs(stack, sp)
        c == RunsOn(cpu, RegsOf(t, "call", 0), <<t, "call", 0>>, sp - 5)
    IN /\ inCall[t] = StackSize
       /\ mem' = [mem EXCEPT ![t] = Push(stack, sp, <<args[4], args[3], args[2], args[1],
                                                      <<"return address">>>>)]
       /\ inCall' = [inCall EXCEPT ![t] = sp - 5]
       /\ cpu' = c
       /\ program' = [program EXCEPT ![t] = <<c>> \o @]
       /\ UNCHANGED <<current, saved>>

\* syscall_stub from there on: the callee has left esp at the arguments; the
\* result replaces the saved eax.
SyscallReturn ==
    LET t == current
        sp == inCall[t] + 5
        result == <<t, "result">>
        caller == [program[t][2] EXCEPT !.regs.eax = result]
        stack == [mem[t] EXCEPT ![sp + 7] = result]
    IN /\ inCall[t] # StackSize
       /\ cpu' = Resume(stack, sp)
       /\ mem' = [mem EXCEPT ![t] = Live(stack, cpu'.esp)]
       /\ inCall' = [inCall EXCEPT ![t] = StackSize]
       /\ program' = [program EXCEPT ![t] = <<caller>> \o Tail(Tail(@))]
       /\ UNCHANGED <<current, saved>>

Next ==
    \/ \E turn \in {0, 1}, n \in Locals : Work(turn, n)
    \/ \E next \in Tasks : Irq0(next)
    \/ Syscall
    \/ SyscallReturn

Spec == Init /\ [][Next]_vars

\* irq1_stub to irq15_stub with irq_generic_handler: the vector is pushed
\* before esp is, and the handler returns the esp it was given.
IrqGeneric ==
    LET t == current
        sp == cpu.esp - Len(Frame(cpu)) - 1
        stack == Push(mem[t], cpu.esp, Frame(cpu) \o <<<<"vector">>, <<"esp", sp>>>>)
    IN /\ mem' = [mem EXCEPT ![t] = stack]
       /\ cpu' = Resume(stack, sp)
       /\ UNCHANGED <<current, saved, inCall, program>>

SpecLines == Init /\ [][Next \/ IrqGeneric]_vars

-----------------------------------------------------------------------------
\* Every variable keeps its type.
TypeOK ==
    /\ current \in Tasks
    /\ saved \in [Tasks -> 0 .. StackSize]
    /\ inCall \in [Tasks -> 0 .. StackSize]
    /\ \A t \in Tasks : DOMAIN mem[t] = 0 .. StackSize - 1 /\ Len(program[t]) \in 1 .. 2
    /\ cpu.esp \in 0 .. StackSize

\* An interrupt is invisible to the code it interrupts: whenever a task runs,
\* in its own code or in a system call, and however often the timer has taken
\* the processor from it in between, it finds its registers, its place, its
\* flags and its stack pointer as it left them; a task that runs for the first
\* time finds itself at the trampoline; a caller finds the result in eax.
InterruptsInvisible == TypeOK /\ cpu = program[current][1]

\* A system call gets eax, ebx, ecx and edx of its caller as its arguments.
ArgumentsArrive ==
    \A t \in Tasks : inCall[t] # StackSize =>
      LET regs == program[t][2].regs
      IN \A i \in 1 .. 4 : mem[t][inCall[t] + i] = <<regs.eax, regs.ebx, regs.ecx, regs.edx>>[i]
=============================================================================
