-------------------------- MODULE PreemptionProofs --------------------------
(***************************************************************************)
(* Preemption disturbs neither the spin lock of the file system nor the    *)
(* code it interrupts, for any number of tasks, stack size and locals.     *)
(***************************************************************************)
EXTENDS MCPreemption, Sequences, TLAPS

-----------------------------------------------------------------------------
(* The spin lock excludes, for any number of tasks.  MutualExclusion alone *)
(* is not inductive: a task may enter only because m_state is 0 when       *)
(* nobody is inside, which Held adds; and OperationsAtomic needs both.     *)

Held == \A t \in Tasks : Inside(t) => state = 1

IInv == TypeOK /\ Held /\ MutualExclusion /\ OperationsAtomic

\* The timer's step from one task to the next stays within the tasks.
LEMMA NextTask ==
    ASSUME NEW i \in Tasks
    PROVE  (i + 1) % N \in Tasks
<1>1. N \in Nat \ {0} BY SpinLockAssumption
<1>2. CASE i + 1 < N
  <2>1. (i + 1) % N = i + 1 BY <1>1, <1>2 DEF Tasks
  <2> QED BY <2>1, <1>2, <1>1 DEF Tasks
<1>3. CASE i + 1 = N
  <2>1. (i + 1) % N = 0 BY <1>1, <1>3
  <2> QED BY <2>1, <1>1 DEF Tasks
<1> QED BY <1>1, <1>2, <1>3 DEF Tasks

\* No task is inside when the kernel starts.
LEMMA IInvInit == Init => IInv
BY SpinLockAssumption DEF Init, IInv, TypeOK, Held, MutualExclusion, OperationsAtomic, Inside, Tasks

\* Every step of a task, and of the timer, keeps the invariant.
LEMMA IInvNext == IInv /\ [Next]_vars => IInv'
<1> SUFFICES ASSUME IInv, [Next]_vars PROVE IInv'
  OBVIOUS
<1> USE DEF IInv, TypeOK, Held, MutualExclusion, OperationsAtomic, Inside, Goto
<1>1. CASE Preempt
  <2>1. current' \in Tasks BY <1>1, NextTask DEF Preempt
  <2> QED BY <1>1, <2>1 DEF Preempt
<1>2. ASSUME NEW t \in Tasks, Call(t) PROVE IInv'
  BY <1>2, SpinLockAssumption DEF Call
<1>3. ASSUME NEW t \in Tasks, TryLock(t) PROVE IInv'
  BY <1>3 DEF TryLock
<1>4. ASSUME NEW t \in Tasks, ReadTables(t) PROVE IInv'
  BY <1>4 DEF ReadTables
<1>5. ASSUME NEW t \in Tasks, WriteTables(t) PROVE IInv'
  BY <1>5 DEF WriteTables
<1>6. ASSUME NEW t \in Tasks, Unlock(t) PROVE IInv'
  BY <1>6 DEF Unlock
<1>7. CASE UNCHANGED vars
  BY <1>7 DEF vars
<1> QED BY <1>1, <1>2, <1>3, <1>4, <1>5, <1>6, <1>7 DEF Next, Step

\* No two tasks are ever inside operations of the file system, for any number
\* of tasks and wherever the timer interrupts them.
THEOREM AlwaysExclusive == Spec => []MutualExclusion
<1>1. IInv => MutualExclusion BY DEF IInv
<1> QED BY IInvInit, IInvNext, <1>1, PTL DEF Spec

\* What an operation has read of the tables is still so when it writes them.
THEOREM AlwaysAtomic == Spec => []OperationsAtomic
<1>1. IInv => OperationsAtomic BY DEF IInv
<1> QED BY IInvInit, IInvNext, <1>1, PTL DEF Spec

-----------------------------------------------------------------------------
(* Interrupts are invisible.  That the running task sees what it must is   *)
(* not inductive: every other task has to find its context in the frame at *)
(* its saved_esp, every caller in the frame of its system call, and no     *)
(* push of the running task may reach those words.                         *)

\* A stack has room for a task, a system call of it, and an interrupt of that.
LEMMA Room ==
    ASSUME NEW m \in Locals \cup {0}, NEW n \in Locals \cup {0}
    PROVE  m \in Nat /\ n \in Nat /\ m + n + 28 <= StackSize
<1>1. m \in Nat /\ n \in Nat /\ m + 16 + n + 12 <= StackSize /\ StackSize \in Nat
  BY PreemptionAssumption DEF T!TrapFrameConstants
<1> QED
  BY <1>1

\* A stack has a size.
LEMMA Size == StackSize \in Nat /\ StackSize >= 28
<1>1. StackSize \in Nat
  BY PreemptionAssumption DEF T!TrapFrameConstants
<1>2. 0 \in Locals \cup {0}
  OBVIOUS
<1> QED
  BY <1>1, <1>2, Room

USE Size

\* The processor's state as an interrupt saves it and Resume puts it together.
IsContext(c) ==
    c = [regs |-> [r \in T!Regs |-> c.regs[r]],
         eip |-> c.eip, cs |-> c.cs, flags |-> c.flags, esp |-> c.esp]

\* Code whose locals begin below base.
Runs(c, base) == IsContext(c) /\ c.esp \in Nat /\ base - c.esp \in Locals \cup {0}

IsStack(stack) == stack = [a \in 0 .. StackSize - 1 |-> stack[a]]

IsSeq(s) == s \in Seq({s[i] : i \in DOMAIN s})

\* A system call of t lies above the code it runs: the frame that leads back to
\* the caller, and the arguments below it.
CallSound(t) ==
    /\ Len(program[t]) = 2
    /\ Runs(program[t][2], StackSize)
    /\ inCall[t] = program[t][2].esp - 16
    /\ T!Resume(mem[t], inCall[t] + 5) = program[t][2]
    /\ mem[t][inCall[t] + 1] = program[t][2].regs["eax"]
    /\ mem[t][inCall[t] + 2] = program[t][2].regs["ebx"]
    /\ mem[t][inCall[t] + 3] = program[t][2].regs["ecx"]
    /\ mem[t][inCall[t] + 4] = program[t][2].regs["edx"]

\* What t must see is in the processor, or in the frame at saved_esp.
TaskSound(t) ==
    /\ IsStack(mem[t])
    /\ IsSeq(program[t])
    /\ IF inCall[t] = StackSize THEN Len(program[t]) = 1 ELSE CallSound(t)
    /\ Runs(program[t][1], inCall[t])
    /\ IF t = thread THEN cpu = program[t][1]
       ELSE saved[t] = program[t][1].esp - 11 /\ T!Resume(mem[t], saved[t]) = program[t][1]

TrapInv ==
    /\ thread \in Threads
    /\ saved \in [Threads -> 0 .. StackSize]
    /\ inCall \in [Threads -> 0 .. StackSize]
    /\ mem = [t \in Threads |-> mem[t]]
    /\ program = [t \in Threads |-> program[t]]
    /\ \A t \in Threads : TaskSound(t)

-----------------------------------------------------------------------------
\* A sequence is one over its own elements.
LEMMA OwnElements ==
    ASSUME NEW S, NEW s \in Seq(S)
    PROVE  IsSeq(s)
BY DEF IsSeq

\* Put replaces what a task must see and keeps its caller.
LEMMA PutKeeps ==
    ASSUME NEW p, IsSeq(p), Len(p) \in 1 .. 2, NEW c
    PROVE  LET q == <<c>> \o Tail(p)
           IN IsSeq(q) /\ Len(q) = Len(p) /\ q[1] = c /\ (Len(p) = 2 => q[2] = p[2])
<1> DEFINE S == {p[i] : i \in DOMAIN p} \cup {c}
           q == <<c>> \o Tail(p)
<1>1. p \in Seq(S)
  BY DEF IsSeq
<1>2. Tail(p) \in Seq(S) /\ Len(Tail(p)) = Len(p) - 1
  BY <1>1
<1>3. <<c>> \in Seq(S) /\ Len(<<c>>) = 1
  OBVIOUS
<1>4. q \in Seq(S) /\ Len(q) = Len(p)
  BY <1>2, <1>3
<1>5. q[1] = c
  BY <1>2, <1>3
<1>6. Len(p) = 2 => q[2] = p[2]
  BY <1>1, <1>2, <1>3
<1> QED
  BY <1>4, <1>5, <1>6, OwnElements

\* The words of a frame, from the flags down to edi.
LEMMA FrameWords ==
    ASSUME NEW c
    PROVE  LET f == T!Frame(c)
           IN /\ IsSeq(f) /\ Len(f) = 11
              /\ f[1] = c.flags /\ f[2] = c.cs /\ f[3] = c.eip
              /\ f[4] = c.regs.eax /\ f[5] = c.regs.ecx /\ f[6] = c.regs.edx /\ f[7] = c.regs.ebx
              /\ f[9] = c.regs.ebp /\ f[10] = c.regs.esi /\ f[11] = c.regs.edi
<1> DEFINE i == T!IntFrame(c)
           p == T!Pusha(c.regs, c.esp - 3)
           S == {i[1], i[2], i[3], p[1], p[2], p[3], p[4], p[5], p[6], p[7], p[8]}
           f == i \o p
<1>1. i \in Seq(S) /\ Len(i) = 3
  BY DEF T!IntFrame
<1>2. p \in Seq(S) /\ Len(p) = 8
  BY DEF T!Pusha
<1>3. i[1] = c.flags /\ i[2] = c.cs /\ i[3] = c.eip
  BY DEF T!IntFrame
<1>4. /\ p[1] = c.regs.eax /\ p[2] = c.regs.ecx /\ p[3] = c.regs.edx /\ p[4] = c.regs.ebx
      /\ p[6] = c.regs.ebp /\ p[7] = c.regs.esi /\ p[8] = c.regs.edi
  BY DEF T!Pusha
<1>5. T!Frame(c) = i \o p
  BY DEF T!Frame
<1> HIDE DEF i, p, S
<1>6. /\ f \in Seq(S) /\ Len(f) = Len(i) + Len(p)
      /\ \A k \in 1 .. Len(i) : f[k] = i[k]
      /\ \A k \in 1 .. Len(p) : f[k + Len(i)] = p[k]
  <2>1. i \in Seq(S) /\ p \in Seq(S)
    BY <1>1, <1>2
  <2>2. i \o p \in Seq(S)
    BY <2>1
  <2>3. Len(i \o p) = Len(i) + Len(p)
    BY <2>1
  <2>4. \A k \in 1 .. Len(i) : (i \o p)[k] = i[k]
    BY <2>1
  <2>5. \A k \in 1 .. Len(p) : (i \o p)[k + Len(i)] = p[k]
    BY <2>1
  <2> QED
    BY <2>2, <2>3, <2>4, <2>5
<1> HIDE DEF f
<1>7. f[1] = i[1] /\ f[2] = i[2] /\ f[3] = i[3]
  BY <1>1, <1>6
<1>8. /\ f[4] = p[1] /\ f[5] = p[2] /\ f[6] = p[3] /\ f[7] = p[4]
      /\ f[9] = p[6] /\ f[10] = p[7] /\ f[11] = p[8]
  BY <1>1, <1>2, <1>6
<1>9. IsSeq(f)
  BY <1>6, OwnElements
<1> QED
  BY <1>1, <1>2, <1>3, <1>4, <1>5, <1>6, <1>7, <1>8, <1>9 DEF f

\* Two stacks that agree on a frame resume the same.
LEMMA ResumeAgrees ==
    ASSUME NEW s, NEW u, NEW sp \in Int, \A a \in sp .. sp + 10 : s[a] = u[a]
    PROVE  T!Resume(s, sp) = T!Resume(u, sp)
BY DEF T!Resume, T!Regs

\* A stack with the frame of a context below esp resumes it.
LEMMA FrameResumes ==
    ASSUME NEW u, NEW c, IsContext(c), c.esp \in Nat,
           \A k \in 1 .. 11 : u[c.esp - k] = T!Frame(c)[k]
    PROVE  T!Resume(u, c.esp - 11) = c
<1> DEFINE f == T!Frame(c)
           sp == c.esp - 11
<1>1. /\ f[1] = c.flags /\ f[2] = c.cs /\ f[3] = c.eip
      /\ f[4] = c.regs.eax /\ f[5] = c.regs.ecx /\ f[6] = c.regs.edx /\ f[7] = c.regs.ebx
      /\ f[9] = c.regs.ebp /\ f[10] = c.regs.esi /\ f[11] = c.regs.edi
  BY Zenon, FrameWords
<1>2. \A k \in 1 .. 11 : u[c.esp - k] = f[k]
  OBVIOUS
<1> HIDE DEF f
<1>3. /\ u[sp + 10] = f[1] /\ u[sp + 9] = f[2] /\ u[sp + 8] = f[3] /\ u[sp + 7] = f[4]
      /\ u[sp + 6] = f[5] /\ u[sp + 5] = f[6] /\ u[sp + 4] = f[7]
      /\ u[sp + 2] = f[9] /\ u[sp + 1] = f[10] /\ u[sp] = f[11]
  BY <1>2
<1>4. sp \in Int /\ sp = c.esp - 11
  OBVIOUS
<1> HIDE DEF sp
<1>5. /\ u[sp + 10] = c.flags /\ u[sp + 9] = c.cs /\ u[sp + 8] = c.eip
      /\ u[sp + 7] = c.regs.eax /\ u[sp + 6] = c.regs.ecx /\ u[sp + 5] = c.regs.edx
      /\ u[sp + 4] = c.regs.ebx /\ u[sp + 2] = c.regs.ebp /\ u[sp + 1] = c.regs.esi
      /\ u[sp] = c.regs.edi
  BY Zenon, <1>1, <1>3
<1>6. T!Resume(u, sp) = c
  BY <1>4, <1>5 DEF T!Resume, T!Regs, IsContext
<1> QED
  BY Zenon, <1>6 DEF sp

\* Words that begin with a frame, and stacks that agree from sp up.
BeginsWith(w, f) == \A k \in 1 .. 11 : w[k] = f[k]
AgreeFrom(sp, s, u) == \A a \in 0 .. StackSize - 1 : a >= sp => u[a] = s[a]

\* A frame pushed from esp down resumes what it was made of, whatever is pushed
\* below it, and nothing above esp changes.
LEMMA PushedFrame ==
    ASSUME NEW s, IsStack(s), NEW c, IsContext(c), NEW esp \in 0 .. StackSize, c.esp = esp,
           NEW w, NEW n \in 11 .. esp, Len(w) = n, BeginsWith(w, T!Frame(c))
    PROVE  /\ IsStack(T!Push(s, esp, w))
           /\ T!Resume(T!Push(s, esp, w), esp - 11) = c
           /\ AgreeFrom(esp, s, T!Push(s, esp, w))
<1> DEFINE u == T!Push(s, esp, w)
<1>1. u = [a \in 0 .. StackSize - 1 |-> IF a < esp /\ a >= esp - n THEN w[esp - a] ELSE s[a]]
  <2>1. DOMAIN s = 0 .. StackSize - 1
    BY DEF IsStack
  <2> QED
    BY Zenon, <2>1 DEF T!Push
<1> HIDE DEF u
<1>2. AgreeFrom(esp, s, u)
  BY <1>1 DEF AgreeFrom
<1>3. IsStack(u)
  BY Zenon, <1>1 DEF IsStack
<1>4. ASSUME NEW k \in 1 .. 11 PROVE u[esp - k] = T!Frame(c)[k]
  <2>1. esp - k \in 0 .. StackSize - 1 /\ esp - (esp - k) = k /\ esp - k < esp /\ esp - k >= esp - n
    OBVIOUS
  <2>2. u[esp - k] = w[esp - (esp - k)]
    BY <1>1, <2>1
  <2> QED
    BY <2>1, <2>2 DEF BeginsWith
<1>5. T!Resume(u, esp - 11) = c
  <2>1. esp \in Nat /\ c.esp \in Nat
    OBVIOUS
  <2>2. \A k \in 1 .. 11 : u[c.esp - k] = T!Frame(c)[k]
    BY <1>4
  <2>3. T!Resume(u, c.esp - 11) = c
    BY Zenon, <2>1, <2>2, FrameResumes
  <2> QED
    BY Zenon, <2>3
<1> QED
  BY Zenon, <1>2, <1>3, <1>5 DEF u

\* Where the stack pointer and the system call of a task lie.
LEMMA Bounds ==
    ASSUME NEW t \in Threads, TaskSound(t), inCall[t] \in 0 .. StackSize
    PROVE  /\ program[t][1].esp \in 12 .. inCall[t]
           /\ IsContext(program[t][1])
           /\ inCall[t] # StackSize => inCall[t] \in 12 .. StackSize - 16
           /\ inCall[t] = StackSize => program[t][1].esp >= 28
           /\ Len(program[t]) \in 1 .. 2
<1>1. program[t][1].esp \in Nat /\ IsContext(program[t][1])
  BY DEF TaskSound, Runs
<1>2. PICK n \in Locals \cup {0} : n = inCall[t] - program[t][1].esp
  BY DEF TaskSound, Runs
<1>3. n \in Nat /\ n + 28 <= StackSize
  <2>1. n \in Nat /\ n + n + 28 <= StackSize
    BY Zenon, Room
  <2> QED
    BY <2>1
<1>4. CASE inCall[t] = StackSize
  BY <1>1, <1>2, <1>3, <1>4 DEF TaskSound
<1>5. CASE inCall[t] # StackSize
  <2>1. program[t][2].esp \in Nat /\ inCall[t] = program[t][2].esp - 16 /\ Len(program[t]) = 2
    BY <1>5 DEF TaskSound, CallSound, Runs
  <2>2. PICK m \in Locals \cup {0} : m = StackSize - program[t][2].esp
    BY <1>5 DEF TaskSound, CallSound, Runs
  <2>3. m \in Nat /\ m + n + 28 <= StackSize
    BY Zenon, Room
  <2> QED
    BY <1>1, <1>2, <1>3, <1>5, <2>1, <2>2, <2>3
<1> QED
  BY <1>4, <1>5

-----------------------------------------------------------------------------
(* The steps of TrapFrame keep the invariant.                              *)

\* A system call stays as it is when the words from it up are kept.
LEMMA CallKept ==
    ASSUME NEW u \in Threads, CallSound(u), inCall[u] \in Nat,
           AgreeFrom(inCall[u], mem[u], mem'[u]),
           inCall'[u] = inCall[u], program'[u] = program[u]
    PROVE  CallSound(u)'
<1>1. program[u][2].esp \in Nat /\ program[u][2].esp <= StackSize /\ inCall[u] = program[u][2].esp - 16
  <2>1. PICK m \in Locals \cup {0} : m = StackSize - program[u][2].esp
    BY DEF CallSound, Runs
  <2>2. m \in Nat
    BY Zenon, Room
  <2> QED
    BY <2>1, <2>2 DEF CallSound, Runs
<1>2. \A a \in inCall[u] .. inCall[u] + 15 : mem[u][a] = mem'[u][a]
  BY <1>1 DEF AgreeFrom
<1>3. T!Resume(mem[u], inCall[u] + 5) = T!Resume(mem'[u], inCall[u] + 5)
  BY <1>2, ResumeAgrees
<1>4. /\ mem'[u][inCall[u] + 1] = mem[u][inCall[u] + 1]
      /\ mem'[u][inCall[u] + 2] = mem[u][inCall[u] + 2]
      /\ mem'[u][inCall[u] + 3] = mem[u][inCall[u] + 3]
      /\ mem'[u][inCall[u] + 4] = mem[u][inCall[u] + 4]
  BY <1>2
<1> QED
  BY Zenon, <1>3, <1>4 DEF CallSound

\* So does a task whose context is found where it will be looked for.
LEMMA SoundAfter ==
    ASSUME NEW u \in Threads, TaskSound(u), inCall[u] \in Nat,
           IsStack(mem'[u]), AgreeFrom(inCall[u], mem[u], mem'[u]),
           inCall'[u] = inCall[u], program'[u] = program[u],
           IF u = thread' THEN cpu' = program[u][1]
           ELSE saved'[u] = program[u][1].esp - 11 /\ T!Resume(mem'[u], saved'[u]) = program[u][1]
    PROVE  TaskSound(u)'
<1>1. CASE inCall[u] = StackSize
  BY <1>1 DEF TaskSound
<1>2. CASE inCall[u] # StackSize
  <2>1. CallSound(u)'
    BY <1>2, CallKept DEF TaskSound
  <2> QED
    BY <1>2, <2>1 DEF TaskSound
<1> QED
  BY <1>1, <1>2

\* A step of another task that touches nothing of u's.
LEMMA AsleepKept ==
    ASSUME TrapInv, NEW u \in Threads, u # thread, u # thread',
           mem'[u] = mem[u], saved'[u] = saved[u], inCall'[u] = inCall[u], program'[u] = program[u]
    PROVE  TaskSound(u)'
BY DEF TrapInv, TaskSound, CallSound

\* What Work and Syscall put into the processor.
LEMMA RunsOnIsContext ==
    ASSUME NEW c, NEW t, NEW code, NEW turn, NEW eip, NEW esp
    PROVE  /\ IsContext(T!RunsOn(c, T!RegsOf(t, code, turn), eip, esp))
           /\ T!RunsOn(c, T!RegsOf(t, code, turn), eip, esp).esp = esp
<1> DEFINE regs == T!RegsOf(t, code, turn)
           d == T!RunsOn(c, regs, eip, esp)
<1>1. regs = [r \in T!Regs |-> regs[r]]
  BY Zenon DEF T!RegsOf
<1> HIDE DEF regs
<1>2. d = [regs |-> regs, eip |-> eip, cs |-> c.cs, flags |-> c.flags, esp |-> esp]
  BY DEF T!RunsOn
<1> HIDE DEF d
<1>3. d.regs = regs /\ d.eip = eip /\ d.cs = c.cs /\ d.flags = c.flags /\ d.esp = esp
  BY <1>2
<1>4. IsContext(d)
  BY Zenon, <1>1, <1>2, <1>3 DEF IsContext
<1> QED
  BY <1>3, <1>4 DEF d, regs

\* Code that runs changes registers, place and stack pointer within its locals.
LEMMA WorkKeeps ==
    ASSUME TrapInv, NEW turn \in {0, 1}, NEW n \in Locals, T!Work(turn, n)
    PROVE  TrapInv'
<1> DEFINE t == thread
           code == IF inCall[t] = StackSize THEN "task" ELSE "call"
           c == T!RunsOn(cpu, T!RegsOf(t, code, turn), <<t, code, turn>>, inCall[t] - n)
<1>1. /\ t \in Threads /\ TaskSound(t) /\ cpu = program[t][1]
      /\ inCall[t] \in 0 .. StackSize
  BY DEF TrapInv, TaskSound
<1>2. /\ cpu' = c /\ program' = [program EXCEPT ![t] = <<c>> \o Tail(program[t])]
      /\ UNCHANGED <<mem, thread, saved, inCall>>
  BY DEF T!Work, T!Put
<1> HIDE DEF code
<1>3. IsContext(c) /\ c.esp = inCall[t] - n
  BY RunsOnIsContext
<1> HIDE DEF c
<1>4. Len(program[t]) \in 1 .. 2 /\ IsSeq(program[t])
  BY <1>1, Bounds DEF TaskSound
<1>5. program'[t] = <<c>> \o Tail(program[t]) /\ \A u \in Threads \ {t} : program'[u] = program[u]
  BY <1>1, <1>2 DEF TrapInv
<1>6. /\ IsSeq(program'[t]) /\ Len(program'[t]) = Len(program[t])
      /\ program'[t][1] = c /\ (Len(program[t]) = 2 => program'[t][2] = program[t][2])
  BY <1>4, <1>5, PutKeeps
<1>7. Runs(c, inCall[t])
  <2>1. n \in Nat /\ inCall[t] - n \in Nat
    <3>1. n \in Nat /\ n + 28 <= StackSize
      <4>1. n \in Nat /\ n + n + 28 <= StackSize
        BY Zenon, Room
      <4> QED
        BY <4>1
    <3>2. CASE inCall[t] = StackSize
      BY <3>1, <3>2
    <3>3. CASE inCall[t] # StackSize
      <4>1. PICK m \in Locals \cup {0} : m = StackSize - program[t][2].esp
        BY <1>1, <3>3 DEF TaskSound, CallSound, Runs
      <4>2. program[t][2].esp \in Nat /\ inCall[t] = program[t][2].esp - 16
        BY <1>1, <3>3 DEF TaskSound, CallSound, Runs
      <4>3. m \in Nat /\ m + n + 28 <= StackSize
        BY Zenon, Room
      <4> QED
        BY <3>1, <4>1, <4>2, <4>3
    <3> QED
      BY <3>1, <3>2, <3>3
  <2> QED
    BY <1>1, <1>3, <2>1 DEF Runs
<1>8. TaskSound(t)'
  <2>1. mem'[t] = mem[t] /\ inCall'[t] = inCall[t] /\ thread' = t /\ cpu' = c /\ IsStack(mem'[t])
    BY <1>1, <1>2 DEF TaskSound
  <2>2. CASE inCall[t] = StackSize
    <3>1. Len(program[t]) = 1
      BY <1>1, <2>2 DEF TaskSound
    <3> QED
      BY Zenon, <1>6, <1>7, <2>1, <2>2, <3>1 DEF TaskSound
  <2>3. CASE inCall[t] # StackSize
    <3>1. CallSound(t)
      BY <1>1, <2>3 DEF TaskSound
    <3>2. Len(program[t]) = 2
      BY <3>1 DEF CallSound
    <3>3. CallSound(t)'
      BY Zenon, <1>6, <2>1, <3>1, <3>2 DEF CallSound
    <3> QED
      BY Zenon, <1>6, <1>7, <2>1, <2>3, <3>3 DEF TaskSound
  <2> QED
    BY <2>2, <2>3
<1>9. ASSUME NEW u \in Threads, u # t PROVE TaskSound(u)'
  BY <1>2, <1>5, <1>9, AsleepKept DEF TrapInv, TaskSound
<1> QED
  BY <1>1, <1>2, <1>8, <1>9 DEF TrapInv

\* A stack with the words below sp cleared.
LEMMA LiveKeeps ==
    ASSUME NEW s, IsStack(s), NEW sp \in Int
    PROVE  /\ IsStack(T!Live(s, sp))
           /\ AgreeFrom(sp, s, T!Live(s, sp))
<1>1. T!Live(s, sp) = [a \in 0 .. StackSize - 1 |-> IF a < sp THEN T!Zero ELSE s[a]]
  BY DEF T!Live, IsStack
<1>2. IsStack(T!Live(s, sp))
  BY Zenon, <1>1 DEF IsStack
<1>3. AgreeFrom(sp, s, T!Live(s, sp))
  BY <1>1 DEF AgreeFrom
<1> QED
  BY <1>2, <1>3

\* The timer's frame with the argument of irq0_handler below it.
LEMMA Irq0Pushed ==
    ASSUME TrapInv, NEW x
    PROVE  LET t == thread
               u == T!Push(mem[t], cpu.esp, T!Frame(cpu) \o <<x>>)
           IN /\ IsStack(u)
              /\ T!Resume(u, cpu.esp - 11) = cpu
              /\ AgreeFrom(cpu.esp, mem[t], u)
<1> DEFINE t == thread
           f == T!Frame(cpu)
           g == <<x>>
           S == {f[i] : i \in DOMAIN f} \cup {x}
           w == f \o g
<1>1. /\ t \in Threads /\ TaskSound(t) /\ cpu = program[t][1] /\ inCall[t] \in 0 .. StackSize
      /\ IsStack(mem[t])
  BY DEF TrapInv, TaskSound
<1>2. IsContext(cpu) /\ cpu.esp \in 12 .. StackSize
  BY <1>1, Bounds
<1>3. IsSeq(f) /\ Len(f) = 11
  BY FrameWords
<1> HIDE DEF f
<1>4. f \in Seq(S) /\ g \in Seq(S) /\ Len(g) = 1
  BY <1>3 DEF IsSeq
<1> HIDE DEF S, g
<1>5. Len(w) = 12
  <2>1. f \in Seq(S) /\ g \in Seq(S)
    BY <1>4
  <2>2. Len(f \o g) = Len(f) + Len(g)
    BY <2>1
  <2> QED
    BY <1>3, <1>4, <2>2
<1>6. BeginsWith(w, T!Frame(cpu))
  <2>1. \A k \in 1 .. Len(f) : (f \o g)[k] = f[k]
    BY <1>4
  <2> QED
    BY Zenon, <1>3, <2>1 DEF f, BeginsWith
<1> HIDE DEF w
<1> DEFINE esp == cpu.esp
           n == 12
<1>7. esp \in 0 .. StackSize /\ n \in 11 .. esp /\ Len(w) = n /\ cpu.esp = esp
  BY <1>2, <1>5
<1> HIDE DEF esp, n
<1>8. /\ IsStack(T!Push(mem[t], esp, w))
      /\ T!Resume(T!Push(mem[t], esp, w), esp - 11) = cpu
      /\ AgreeFrom(esp, mem[t], T!Push(mem[t], esp, w))
  <2>1. IsStack(mem[t]) /\ IsContext(cpu)
    BY <1>1, <1>2
  <2> QED
    BY <1>6, <1>7, <2>1, PushedFrame
<1> QED
  BY <1>8 DEF esp, w, f, g

\* The timer saves one task on its own stack and takes up another, or the same.
LEMMA Irq0Keeps ==
    ASSUME TrapInv, NEW next \in Threads, T!Irq0(next)
    PROVE  TrapInv'
<1> DEFINE t == thread
           sp == cpu.esp - 11
           stack == [mem EXCEPT ![t] = T!Push(mem[t], cpu.esp, T!Frame(cpu) \o <<<<"esp", sp>>>>)]
           low(u) == IF u = next THEN cpu'.esp ELSE saved'[u]
<1>1. /\ t \in Threads /\ cpu = program[t][1] /\ cpu.esp \in 12 .. inCall[t]
      /\ inCall[t] \in 0 .. StackSize /\ DOMAIN mem = Threads
  BY Bounds DEF TrapInv, TaskSound
<1>2. /\ saved' = [saved EXCEPT ![t] = sp] /\ thread' = next
      /\ cpu' = T!Resume(stack[next], saved'[next])
      /\ mem' = [u \in Threads |-> T!Live(stack[u], low(u))]
      /\ UNCHANGED <<inCall, program>>
  <2>1. Len(T!Frame(cpu)) = 11
    BY FrameWords
  <2> QED
    BY <2>1 DEF T!Irq0
<1>3. /\ IsStack(stack[t]) /\ T!Resume(stack[t], sp) = cpu
      /\ AgreeFrom(cpu.esp, mem[t], stack[t])
  BY <1>1, Irq0Pushed
<1>4. \A u \in Threads \ {t} : stack[u] = mem[u]
  BY <1>1
<1> HIDE DEF stack
<1>5. \A u \in Threads : /\ saved'[u] = program[u][1].esp - 11 /\ T!Resume(stack[u], saved'[u]) = program[u][1]
                         /\ program[u][1].esp \in 12 .. inCall[u] /\ inCall[u] \in 0 .. StackSize
                         /\ IsStack(stack[u]) /\ AgreeFrom(inCall[u], mem[u], stack[u])
  <2> SUFFICES ASSUME NEW u \in Threads
               PROVE  /\ saved'[u] = program[u][1].esp - 11 /\ T!Resume(stack[u], saved'[u]) = program[u][1]
                      /\ program[u][1].esp \in 12 .. inCall[u] /\ inCall[u] \in 0 .. StackSize
                      /\ IsStack(stack[u]) /\ AgreeFrom(inCall[u], mem[u], stack[u])
    OBVIOUS
  <2>1. TaskSound(u) /\ inCall[u] \in 0 .. StackSize /\ saved \in [Threads -> 0 .. StackSize]
    BY DEF TrapInv
  <2>2. program[u][1].esp \in 12 .. inCall[u]
    BY <2>1, Bounds
  <2>3. CASE u = t
    <3>1. saved'[u] = sp
      BY <1>2, <2>1, <2>3
    <3>2. AgreeFrom(inCall[u], mem[u], stack[u])
      BY <1>1, <1>3, <2>3 DEF AgreeFrom
    <3> QED
      BY <1>1, <1>3, <2>1, <2>2, <2>3, <3>1, <3>2
  <2>4. CASE u # t
    <3>1. saved'[u] = saved[u] /\ stack[u] = mem[u]
      BY <1>2, <1>4, <2>1, <2>4
    <3> QED
      BY <2>1, <2>2, <2>4, <3>1 DEF TaskSound, AgreeFrom
  <2> QED
    BY <2>3, <2>4
<1>6. cpu' = program[next][1]
  BY <1>2, <1>5
<1>7. ASSUME NEW u \in Threads PROVE TaskSound(u)'
  <2>1. low(u) \in Int /\ low(u) <= program[u][1].esp /\ low(u) <= inCall[u]
    BY <1>5, <1>6
  <2>2. mem'[u] = T!Live(stack[u], low(u))
    BY <1>2
  <2> DEFINE b == low(u)
  <2> HIDE DEF b
  <2>3. IsStack(mem'[u]) /\ AgreeFrom(b, stack[u], mem'[u])
    BY <1>5, <2>1, <2>2, LiveKeeps DEF b
  <2>4. AgreeFrom(inCall[u], mem[u], mem'[u])
    BY <1>5, <2>1, <2>3 DEF AgreeFrom, b
  <2>5. CASE u = next
    BY <1>2, <1>5, <1>6, <2>3, <2>4, <2>5, SoundAfter DEF TrapInv
  <2>6. CASE u # next
    <3>1. T!Resume(mem'[u], saved'[u]) = T!Resume(stack[u], saved'[u])
      <4>1. \A a \in saved'[u] .. saved'[u] + 10 : mem'[u][a] = stack[u][a]
        BY <1>5, <2>3, <2>6 DEF AgreeFrom, b
      <4> QED
        BY <1>5, <4>1, ResumeAgrees
    <3> QED
      BY <1>2, <1>5, <2>3, <2>4, <2>6, <3>1, SoundAfter DEF TrapInv
  <2> QED
    BY <2>5, <2>6
<1>8. saved' \in [Threads -> 0 .. StackSize]
  BY <1>1, <1>2 DEF TrapInv
<1> QED
  BY <1>2, <1>7, <1>8 DEF TrapInv

\* The words that syscall_stub takes for eax, ebx, ecx and edx.
LEMMA ResumedRegs ==
    ASSUME NEW s, NEW sp \in Int
    PROVE  /\ T!Resume(s, sp).regs["eax"] = s[sp + 7] /\ T!Resume(s, sp).regs["ebx"] = s[sp + 4]
           /\ T!Resume(s, sp).regs["ecx"] = s[sp + 6] /\ T!Resume(s, sp).regs["edx"] = s[sp + 5]
<1> DEFINE f == [r \in T!Regs |-> s[sp + CASE r = "edi" -> 0 [] r = "esi" -> 1
                                             [] r = "ebp" -> 2 [] r = "ebx" -> 4
                                             [] r = "edx" -> 5 [] r = "ecx" -> 6
                                             [] r = "eax" -> 7]]
<1>1. f["eax"] = s[sp + 7] /\ f["ebx"] = s[sp + 4]
  BY DEF T!Regs
<1>2. f["ecx"] = s[sp + 6] /\ f["edx"] = s[sp + 5]
  BY DEF T!Regs
<1>3. T!Resume(s, sp).regs = f
  BY DEF T!Resume
<1> HIDE DEF f
<1> QED
  BY Zenon, <1>1, <1>2, <1>3

\* int 0x80 leaves the caller's frame and its arguments above the code of the call.
LEMMA SyscallKeeps ==
    ASSUME TrapInv, T!Syscall
    PROVE  TrapInv'
<1> DEFINE t == thread
           sp == cpu.esp - 11
           stack == T!Push(mem[t], cpu.esp, T!Frame(cpu))
           words == <<stack[sp + 5], stack[sp + 6], stack[sp + 4], stack[sp + 7], <<"return address">>>>
           c == T!RunsOn(cpu, T!RegsOf(t, "call", 0), <<t, "call", 0>>, sp - 5)
<1>1. /\ t \in Threads /\ cpu = program[t][1] /\ inCall[t] = StackSize
      /\ IsContext(cpu) /\ Runs(cpu, StackSize)
      /\ IsStack(mem[t]) /\ IsSeq(program[t]) /\ Len(program[t]) = 1
      /\ DOMAIN mem = Threads /\ DOMAIN program = Threads
      /\ inCall \in [Threads -> 0 .. StackSize]
  <2>1. t \in Threads /\ TaskSound(t) /\ inCall[t] = StackSize
    BY DEF TrapInv, T!Syscall
  <2>2. DOMAIN mem = Threads /\ DOMAIN program = Threads /\ inCall \in [Threads -> 0 .. StackSize]
    BY DEF TrapInv
  <2> QED
    BY <2>1, <2>2 DEF TaskSound, Runs
<1>0. cpu.esp \in 28 .. StackSize /\ sp \in 17 .. StackSize - 11
  <2>1. t \in Threads /\ TaskSound(t) /\ inCall[t] \in 0 .. StackSize
    BY DEF TrapInv
  <2> QED
    BY <1>1, <2>1, Bounds
<1>2. Len(T!Frame(cpu)) = 11
  BY FrameWords
<1>3. /\ mem' = [mem EXCEPT ![t] = T!Push(stack, sp, words)]
      /\ inCall' = [inCall EXCEPT ![t] = sp - 5]
      /\ cpu' = c
      /\ program' = [program EXCEPT ![t] = <<c>> \o program[t]]
      /\ UNCHANGED <<thread, saved>>
  BY <1>2 DEF T!Syscall, T!SyscallArgs
<1>4. IsContext(c) /\ c.esp = sp - 5
  BY RunsOnIsContext
<1>5. /\ IsStack(stack) /\ T!Resume(stack, sp) = cpu
  <2> DEFINE esp == cpu.esp
             n == 11
             w == T!Frame(cpu)
  <2>1. esp \in 0 .. StackSize /\ n \in 11 .. esp /\ cpu.esp = esp /\ Len(w) = n
    BY <1>0, <1>2
  <2>2. BeginsWith(w, T!Frame(cpu))
    BY Zenon DEF BeginsWith
  <2> HIDE DEF esp, n, w
  <2>3. IsStack(T!Push(mem[t], esp, w)) /\ T!Resume(T!Push(mem[t], esp, w), esp - 11) = cpu
    <3>1. IsStack(mem[t]) /\ IsContext(cpu)
      BY <1>1
    <3> QED
      BY <2>1, <2>2, <3>1, PushedFrame
  <2> QED
    BY <2>3 DEF esp, w
<1>6. /\ stack[sp + 7] = cpu.regs["eax"] /\ stack[sp + 4] = cpu.regs["ebx"]
      /\ stack[sp + 6] = cpu.regs["ecx"] /\ stack[sp + 5] = cpu.regs["edx"]
  <2> HIDE DEF stack
  <2> QED
    BY <1>0, <1>5, ResumedRegs
<1> HIDE DEF stack, c
<1>7. /\ IsStack(mem'[t]) /\ AgreeFrom(sp, stack, mem'[t])
      /\ mem'[t][sp - 1] = stack[sp + 5] /\ mem'[t][sp - 2] = stack[sp + 6]
      /\ mem'[t][sp - 3] = stack[sp + 4] /\ mem'[t][sp - 4] = stack[sp + 7]
  <2>1. Len(words) = 5 /\ sp \in 17 .. StackSize - 11
    BY <1>0
  <2>2. /\ words[1] = stack[sp + 5] /\ words[2] = stack[sp + 6] /\ words[3] = stack[sp + 4]
        /\ words[4] = stack[sp + 7]
    OBVIOUS
  <2> HIDE DEF words
  <2>3. mem'[t] = T!Push(stack, sp, words)
    BY <1>1, <1>3
  <2> HIDE DEF sp
  <2>4. mem'[t] = [a \in 0 .. StackSize - 1 |-> IF a < sp /\ a >= sp - 5 THEN words[sp - a] ELSE stack[a]]
    <3>1. DOMAIN stack = 0 .. StackSize - 1
      BY <1>5 DEF IsStack
    <3> QED
      BY Zenon, <2>1, <2>3, <3>1 DEF T!Push
  <2>5. IsStack(mem'[t])
    BY Zenon, <2>4 DEF IsStack
  <2>6. AgreeFrom(sp, stack, mem'[t])
    BY <2>1, <2>4 DEF AgreeFrom
  <2>7. /\ mem'[t][sp - 1] = words[1] /\ mem'[t][sp - 2] = words[2]
        /\ mem'[t][sp - 3] = words[3] /\ mem'[t][sp - 4] = words[4]
    BY <2>1, <2>4
  <2> QED
    BY <2>2, <2>5, <2>6, <2>7
<1>8. T!Resume(mem'[t], sp) = cpu
  <2>1. \A a \in sp .. sp + 10 : mem'[t][a] = stack[a]
    BY <1>0, <1>7 DEF AgreeFrom
  <2> QED
    BY <1>0, <1>5, <2>1, ResumeAgrees
<1>9. /\ IsSeq(program'[t]) /\ Len(program'[t]) = 2
      /\ program'[t][1] = c /\ program'[t][2] = cpu
  <2> DEFINE p == program[t]
             g == <<c>>
             S == {p[i] : i \in DOMAIN p} \cup {c}
  <2>1. program'[t] = g \o p
    BY <1>1, <1>3
  <2>2. p \in Seq(S) /\ Len(p) = 1 /\ p[1] = cpu
    BY <1>1 DEF IsSeq
  <2>3. g \in Seq(S) /\ Len(g) = 1 /\ g[1] = c
    OBVIOUS
  <2> HIDE DEF p, g, S
  <2>4. p \in Seq(S) /\ g \in Seq(S)
    BY <2>2, <2>3
  <2>5. g \o p \in Seq(S) /\ Len(g \o p) = Len(g) + Len(p)
    BY <2>4
  <2>6. /\ \A k \in 1 .. Len(g) : (g \o p)[k] = g[k]
        /\ \A k \in 1 .. Len(p) : (g \o p)[k + Len(g)] = p[k]
    BY <2>4
  <2>7. IsSeq(g \o p)
    BY <2>5, OwnElements
  <2>8. (g \o p)[1] = c /\ (g \o p)[2] = cpu /\ Len(g \o p) = 2
    BY <2>2, <2>3, <2>5, <2>6
  <2> QED
    BY Zenon, <2>1, <2>7, <2>8
<1>10. CallSound(t)'
  <2>0. inCall'[t] = sp - 5
    BY <1>1, <1>3
  <2>1. inCall'[t] = cpu.esp - 16 /\ inCall'[t] + 5 = sp
    BY <1>0, <2>0
  <2>2. /\ mem'[t][inCall'[t] + 1] = stack[sp + 7] /\ mem'[t][inCall'[t] + 2] = stack[sp + 4]
        /\ mem'[t][inCall'[t] + 3] = stack[sp + 6] /\ mem'[t][inCall'[t] + 4] = stack[sp + 5]
    <3>1. /\ inCall'[t] + 1 = sp - 4 /\ inCall'[t] + 2 = sp - 3
          /\ inCall'[t] + 3 = sp - 2 /\ inCall'[t] + 4 = sp - 1
      BY <1>0, <2>0
    <3> QED
      BY Zenon, <1>7, <3>1
  <2>3. /\ mem'[t][inCall'[t] + 1] = cpu.regs["eax"] /\ mem'[t][inCall'[t] + 2] = cpu.regs["ebx"]
        /\ mem'[t][inCall'[t] + 3] = cpu.regs["ecx"] /\ mem'[t][inCall'[t] + 4] = cpu.regs["edx"]
    BY Zenon, <1>6, <2>2
  <2>4. Runs(cpu, StackSize) /\ T!Resume(mem'[t], inCall'[t] + 5) = cpu /\ thread' = t
    BY <1>1, <1>3, <1>8, <2>1
  <2> QED
    BY <1>9, <2>1, <2>3, <2>4 DEF CallSound
<1>11. TaskSound(t)'
  <2>0. inCall'[t] = sp - 5
    BY <1>1, <1>3
  <2>1. Runs(c, inCall'[t]) /\ inCall'[t] # StackSize
    BY <1>0, <1>4, <2>0 DEF Runs
  <2> QED
    BY <1>3, <1>7, <1>9, <1>10, <2>1 DEF TaskSound
<1>12. ASSUME NEW u \in Threads, u # t PROVE TaskSound(u)'
  BY <1>1, <1>3, <1>12, AsleepKept
<1>13. inCall' \in [Threads -> 0 .. StackSize]
  <2>1. sp - 5 \in 0 .. StackSize
    BY <1>0
  <2> HIDE DEF sp
  <2> QED
    BY <1>1, <1>3, <2>1
<1> QED
  BY <1>1, <1>3, <1>11, <1>12, <1>13 DEF TrapInv

\* The context of a caller with the result in place of its eax.
LEMMA ResultInEax ==
    ASSUME NEW c, IsContext(c), NEW x
    PROVE  LET d == [c EXCEPT !.regs.eax = x]
           IN /\ IsContext(d) /\ d.esp = c.esp /\ d.regs = [c.regs EXCEPT !["eax"] = x]
              /\ d.eip = c.eip /\ d.cs = c.cs /\ d.flags = c.flags
<1> DEFINE d == [c EXCEPT !.regs.eax = x]
           f == [r \in T!Regs |-> c.regs[r]]
           g == [f EXCEPT !["eax"] = x]
<1>1. g = [r \in T!Regs |-> g[r]] /\ f = c.regs
  BY DEF IsContext
<1>2. c = [regs |-> f, eip |-> c.eip, cs |-> c.cs, flags |-> c.flags, esp |-> c.esp]
  BY Zenon DEF IsContext
<1> HIDE DEF f
<1>3. d = [regs |-> g, eip |-> c.eip, cs |-> c.cs, flags |-> c.flags, esp |-> c.esp]
  BY <1>2
<1> HIDE DEF d, g
<1>4. d.regs = g /\ d.eip = c.eip /\ d.cs = c.cs /\ d.flags = c.flags /\ d.esp = c.esp
  BY <1>3
<1>5. IsContext(d)
  BY Zenon, <1>1, <1>3, <1>4 DEF IsContext
<1> QED
  BY Zenon, <1>1, <1>4, <1>5 DEF d, g

\* The return of syscall_stub finds the caller's frame, with the result in eax.
LEMMA SyscallReturnKeeps ==
    ASSUME TrapInv, T!SyscallReturn
    PROVE  TrapInv'
<1> DEFINE t == thread
           sp == inCall[t] + 5
           result == <<t, "result">>
           old == program[t][2]
           caller == [old EXCEPT !.regs.eax = result]
           stack == [mem[t] EXCEPT ![sp + 7] = result]
<1>1. /\ t \in Threads /\ inCall[t] # StackSize /\ IsStack(mem[t]) /\ IsSeq(program[t])
      /\ DOMAIN mem = Threads /\ DOMAIN program = Threads
      /\ inCall \in [Threads -> 0 .. StackSize] /\ CallSound(t)
  <2>1. t \in Threads /\ TaskSound(t) /\ inCall[t] # StackSize
    BY DEF TrapInv, T!SyscallReturn
  <2>2. DOMAIN mem = Threads /\ DOMAIN program = Threads /\ inCall \in [Threads -> 0 .. StackSize]
    BY DEF TrapInv
  <2> QED
    BY <2>1, <2>2 DEF TaskSound
<1>2. /\ IsContext(old) /\ old.esp = sp + 11 /\ sp \in 17 .. StackSize - 11
      /\ Runs(old, StackSize) /\ T!Resume(mem[t], sp) = old /\ Len(program[t]) = 2
  <2>1. t \in Threads /\ TaskSound(t) /\ inCall[t] \in 0 .. StackSize
    BY DEF TrapInv
  <2>2. inCall[t] \in 12 .. StackSize - 16
    BY <1>1, <2>1, Bounds
  <2> QED
    BY <1>1, <2>2 DEF CallSound, Runs
<1>3. /\ cpu' = T!Resume(stack, sp)
      /\ mem' = [mem EXCEPT ![t] = T!Live(stack, cpu'.esp)]
      /\ inCall' = [inCall EXCEPT ![t] = StackSize]
      /\ program' = [program EXCEPT ![t] = <<caller>> \o Tail(Tail(program[t]))]
      /\ UNCHANGED <<thread, saved>>
  BY DEF T!SyscallReturn
<1>4. IsStack(stack) /\ stack[sp + 7] = result /\ \A a \in sp .. sp + 10 : a # sp + 7 => stack[a] = mem[t][a]
  <2>1. DOMAIN mem[t] = 0 .. StackSize - 1
    BY <1>1 DEF IsStack
  <2>2. stack = [a \in 0 .. StackSize - 1 |-> IF a = sp + 7 THEN result ELSE mem[t][a]]
    BY Zenon, <2>1
  <2> HIDE DEF stack, result
  <2>3. IsStack(stack)
    BY Zenon, <2>2 DEF IsStack
  <2>4. sp + 7 \in 0 .. StackSize - 1 /\ sp .. sp + 10 \subseteq 0 .. StackSize - 1
    BY <1>2
  <2> HIDE DEF sp
  <2> QED
    BY Zenon, <2>2, <2>3, <2>4
<1>5. /\ IsContext(caller) /\ caller.esp = old.esp /\ caller.regs = [old.regs EXCEPT !["eax"] = result]
      /\ caller.eip = old.eip /\ caller.cs = old.cs /\ caller.flags = old.flags
  BY Zenon, <1>2, ResultInEax
<1> HIDE DEF stack, caller
<1>6. T!Resume(stack, sp) = caller
  BY <1>2, <1>4, <1>5 DEF T!Resume, T!Regs, IsContext
<1>7. IsStack(mem'[t])
  <2>1. mem'[t] = T!Live(stack, cpu'.esp)
    BY <1>1, <1>3
  <2>2. cpu'.esp \in Int
    BY <1>2, <1>3, <1>5, <1>6
  <2> QED
    BY <1>4, <2>1, <2>2, LiveKeeps
<1>8. IsSeq(program'[t]) /\ Len(program'[t]) = 1 /\ program'[t][1] = caller
  <2> DEFINE p == program[t]
             r == Tail(p)
             q == Tail(r)
             g == <<caller>>
             S == {p[i] : i \in DOMAIN p} \cup {caller}
  <2>1. program'[t] = g \o q
    BY <1>1, <1>3
  <2>2. p \in Seq(S) /\ Len(p) = 2
    BY <1>1, <1>2 DEF IsSeq
  <2>3. g \in Seq(S) /\ Len(g) = 1 /\ g[1] = caller
    OBVIOUS
  <2> HIDE DEF p, g, S
  <2>4. r \in Seq(S) /\ Len(r) = 1
    BY <2>2
  <2> HIDE DEF r
  <2>5. q \in Seq(S) /\ Len(q) = 0
    BY <2>4
  <2> HIDE DEF q
  <2>6. g \in Seq(S) /\ q \in Seq(S)
    BY <2>3, <2>5
  <2>7. /\ g \o q \in Seq(S) /\ Len(g \o q) = Len(g) + Len(q)
        /\ \A k \in 1 .. Len(g) : (g \o q)[k] = g[k]
    BY <2>6
  <2>8. IsSeq(g \o q)
    BY <2>7, OwnElements
  <2>9. (g \o q)[1] = caller /\ Len(g \o q) = 1
    BY <2>3, <2>5, <2>7
  <2> QED
    BY Zenon, <2>1, <2>8, <2>9
<1>9. TaskSound(t)'
  <2>1. Runs(caller, StackSize)
    BY <1>2, <1>5 DEF Runs
  <2>2. inCall'[t] = StackSize
    BY <1>1, <1>3
  <2> QED
    BY <1>3, <1>6, <1>7, <1>8, <2>1, <2>2 DEF TaskSound
<1>10. ASSUME NEW u \in Threads, u # t PROVE TaskSound(u)'
  BY <1>1, <1>3, <1>10, AsleepKept
<1>11. inCall' \in [Threads -> 0 .. StackSize]
  BY <1>1, <1>3
<1> QED
  BY <1>1, <1>3, <1>9, <1>10, <1>11 DEF TrapInv

\* The frame that setup_initial_task_stack builds resumes at the trampoline.
LEMMA StartResumes ==
    ASSUME NEW t
    PROVE  LET u == T!Push([a \in 0 .. StackSize - 1 |-> T!Zero], StackSize, T!SetupInitialTaskStack(t))
           IN IsStack(u) /\ T!Resume(u, StackSize - 11) = T!Start(t)
<1> DEFINE w == T!SetupInitialTaskStack(t)
           e == [a \in 0 .. StackSize - 1 |-> T!Zero]
           u == T!Push(e, StackSize, w)
           sp == StackSize - 11
<1>1. /\ Len(w) = 11 /\ w[1] = T!Flags /\ w[2] = T!CS /\ w[3] = <<t, "trampoline">>
      /\ \A k \in 4 .. 11 : w[k] = T!Zero
  BY DEF T!SetupInitialTaskStack
<1>2. DOMAIN e = 0 .. StackSize - 1
  OBVIOUS
<1> HIDE DEF w, e
<1>3. u = [a \in 0 .. StackSize - 1 |->
             IF a < StackSize /\ a >= StackSize - 11 THEN w[StackSize - a] ELSE e[a]]
  BY Zenon, <1>1, <1>2 DEF T!Push
<1> HIDE DEF u
<1>4. IsStack(u)
  BY Zenon, <1>3 DEF IsStack
<1>5. \A k \in 1 .. 11 : u[StackSize - k] = w[k]
  <2> SUFFICES ASSUME NEW k \in 1 .. 11 PROVE u[StackSize - k] = w[k]
    OBVIOUS
  <2>1. /\ StackSize - k \in 0 .. StackSize - 1 /\ StackSize - k < StackSize
        /\ StackSize - k >= StackSize - 11 /\ StackSize - (StackSize - k) = k
    BY <1>2
  <2> QED
    BY Zenon, <1>3, <2>1
<1>6. /\ u[sp + 10] = T!Flags /\ u[sp + 9] = T!CS /\ u[sp + 8] = <<t, "trampoline">>
      /\ \A k \in 0 .. 7 : u[sp + k] = T!Zero
  <2>1. u[sp + 10] = w[1] /\ u[sp + 9] = w[2] /\ u[sp + 8] = w[3]
    BY <1>2, <1>5
  <2>2. \A k \in 0 .. 7 : 11 - k \in 4 .. 11 /\ StackSize - (11 - k) = sp + k
    BY <1>2
  <2>3. \A k \in 0 .. 7 : u[sp + k] = T!Zero
    BY <1>1, <1>5, <2>2
  <2> QED
    BY <1>1, <2>1, <2>3
<1>7. T!Resume(u, sp) = T!Start(t)
  <2>1. sp \in Int /\ sp + 8 + 3 = StackSize /\ sp + 8 + 1 = sp + 9 /\ sp + 8 + 2 = sp + 10
    BY <1>2
  <2>2. \A r \in T!Regs : u[sp + CASE r = "edi" -> 0 [] r = "esi" -> 1 [] r = "ebp" -> 2
                                   [] r = "ebx" -> 4 [] r = "edx" -> 5 [] r = "ecx" -> 6
                                   [] r = "eax" -> 7] = T!Zero
    BY <1>6 DEF T!Regs
  <2> HIDE DEF sp
  <2> QED
    BY <1>6, <2>1, <2>2 DEF T!Resume, T!Start
<1> QED
  BY <1>4, <1>7 DEF u, e, w

\* When interrupts are turned on every task has its context in place.
LEMMA TrapInit == T!Init => TrapInv
<1> SUFFICES ASSUME T!Init PROVE TrapInv
  OBVIOUS
<1>1. Boot \in Threads
  BY PreemptionAssumption DEF T!TrapFrameConstants
<1>2. ASSUME NEW t \in Threads PROVE TaskSound(t)
  <2>1. program[t] = <<T!Start(t)>> /\ inCall[t] = StackSize
    BY <1>2 DEF T!Init
  <2>2. IsSeq(program[t]) /\ Len(program[t]) = 1 /\ program[t][1] = T!Start(t)
    BY <2>1 DEF IsSeq
  <2>3. Runs(T!Start(t), StackSize) /\ T!Start(t).esp = StackSize
    BY <1>1 DEF Runs, IsContext, T!Start
  <2>4. CASE t = Boot
    <3>1. mem[t] = [a \in 0 .. StackSize - 1 |-> T!Zero] /\ cpu = T!Start(t) /\ thread = t
      BY <2>4 DEF T!Init
    <3>2. IsStack(mem[t])
      BY Zenon, <3>1 DEF IsStack
    <3> QED
      BY <2>1, <2>2, <2>3, <3>1, <3>2 DEF TaskSound
  <2>5. CASE t # Boot
    <3>1. /\ mem[t] = T!Push([a \in 0 .. StackSize - 1 |-> T!Zero], StackSize, T!SetupInitialTaskStack(t))
          /\ saved[t] = StackSize - Len(T!SetupInitialTaskStack(t)) /\ thread # t
      BY <2>5 DEF T!Init
    <3>2. Len(T!SetupInitialTaskStack(t)) = 11
      BY DEF T!SetupInitialTaskStack
    <3>3. IsStack(mem[t]) /\ T!Resume(mem[t], StackSize - 11) = T!Start(t)
      BY <3>1, StartResumes
    <3> QED
      BY <2>1, <2>2, <2>3, <3>1, <3>2, <3>3 DEF TaskSound
  <2> QED
    BY <2>4, <2>5
<1>3. /\ thread \in Threads /\ inCall \in [Threads -> 0 .. StackSize]
      /\ mem = [t \in Threads |-> mem[t]] /\ program = [t \in Threads |-> program[t]]
  BY <1>1 DEF T!Init
<1>4. saved \in [Threads -> 0 .. StackSize]
  <2>1. \A t \in Threads : Len(T!SetupInitialTaskStack(t)) = 11
    BY DEF T!SetupInitialTaskStack
  <2>2. saved = [t \in Threads |-> IF t = Boot THEN StackSize
                                   ELSE StackSize - Len(T!SetupInitialTaskStack(t))]
    BY DEF T!Init
  <2>3. saved = [t \in Threads |-> IF t = Boot THEN StackSize ELSE StackSize - 11]
    BY Zenon, <2>1, <2>2
  <2> QED
    BY <1>1, <2>3
<1> QED
  BY <1>2, <1>3, <1>4 DEF TrapInv

\* Every step of the composed system keeps it.
LEMMA TrapNext == TrapInv /\ [MCNext]_allVars => TrapInv'
<1> SUFFICES ASSUME TrapInv, [MCNext]_allVars PROVE TrapInv'
  OBVIOUS
<1>1. CASE UNCHANGED trapVars
  BY <1>1 DEF trapVars, TrapInv, TaskSound, CallSound
<1>2. CASE T!Next
  BY <1>2, WorkKeeps, Irq0Keeps, SyscallKeeps, SyscallReturnKeeps DEF T!Next
<1> QED
  BY <1>1, <1>2 DEF MCNext, Locking, allVars

\* However often the timer takes the processor from a task, in its own code or
\* in a system call, and whatever the others do, the task finds its registers,
\* its place, its flags and its stack pointer as it left them.
THEOREM AlwaysInvisible == MCSpec => []InterruptsInvisible
<1>1. TrapInv => InterruptsInvisible
  <2> SUFFICES ASSUME TrapInv PROVE InterruptsInvisible
    OBVIOUS
  <2>1. ASSUME NEW t \in Threads
        PROVE  DOMAIN mem[t] = 0 .. StackSize - 1 /\ Len(program[t]) \in 1 .. 2
    BY <2>1, Bounds DEF TrapInv, TaskSound, IsStack
  <2>2. thread \in Threads /\ cpu = program[thread][1] /\ cpu.esp \in 0 .. StackSize
    BY Bounds DEF TrapInv, TaskSound
  <2> QED
    BY <2>1, <2>2 DEF TrapInv, InterruptsInvisible, T!InterruptsInvisible, T!TypeOK
<1> QED
  BY TrapInit, TrapNext, <1>1, PTL DEF MCSpec, MCInit

\* A system call finds eax, ebx, ecx and edx of its caller as its arguments, also
\* after other tasks have run and made calls of their own.
THEOREM ArgumentsAlwaysArrive == MCSpec => []ArgumentsArrive
<1>1. TrapInv => ArgumentsArrive
  <2> SUFFICES ASSUME TrapInv, NEW t \in Threads, inCall[t] # StackSize, NEW i \in 1 .. 4
               PROVE  mem[t][inCall[t] + i] =
                        <<program[t][2].regs.eax, program[t][2].regs.ebx,
                          program[t][2].regs.ecx, program[t][2].regs.edx>>[i]
    BY DEF ArgumentsArrive, T!ArgumentsArrive
  <2> QED
    BY DEF TrapInv, TaskSound, CallSound
<1> QED
  BY TrapInit, TrapNext, <1>1, PTL DEF MCSpec, MCInit

=============================================================================
