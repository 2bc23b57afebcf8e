------------------------------ MODULE Keyboard ------------------------------
(***************************************************************************)
(* The keyboard of the 64-bit kernel: kernel/input/keyboard.cpp, filled by *)
(* the console's polling and by the interrupt handler                      *)
(* (arch/x86_64/irq_handlers.cpp), and emptied by the console loop of      *)
(* kmain64.cpp, which also reads the port itself when the ring is empty.   *)
(* The kernel is built without optimisation, and the interrupt may come    *)
(* between any two steps of the polling.                                   *)
(*                                                                         *)
(* The controller and the PIC are external.  A byte that comes to the port *)
(* raises the interrupt, which the processor takes some time later; the    *)
(* port gives the same byte again when it is read again.  The handler      *)
(* acknowledges to the local APIC only, so the PIC holds every later       *)
(* interrupt back.                                                         *)
(***************************************************************************)
EXTENDS Integers, Sequences, SequencesExt

CONSTANTS
    RingSize,   \* sizeof(g_kbuf)
    MaxKeys     \* bound of the model: codes that the keyboard sends

VARIABLES
    port,       \* the controller's byte: [full, code]
    queue,      \* codes that wait behind it
    pending,    \* the interrupt is raised
    served,     \* and is in service
    kbuf, head, tail,   \* g_kbuf, g_head, g_tail
    at,         \* where the console loop is
    code, next, \* scancode and n of the polling's enqueue_from_isr
    typed,      \* history: the codes sent
    taken,      \* history: the keys the console has got
    dropped,    \* history: the ring was full
    raced       \* history: the interrupt came in the middle of a poll or after it

keyVars == <<port, queue, pending, served, kbuf, head, tail, at, code, next, typed, taken, dropped, raced>>

\* The n-th code, of a key that has a character or not (a release, say).
Code(n, char) == [n |-> n, char |-> char]
NoCode == Code(0, FALSE)

KeyInit ==
    /\ \E left \in BOOLEAN :    \* a key from before the kernel's start
         /\ port = [full |-> left, code |-> IF left THEN Code(1, TRUE) ELSE NoCode]
         /\ typed = IF left THEN <<Code(1, TRUE)>> ELSE <<>>
    /\ queue = <<>> /\ pending = FALSE /\ served = FALSE
    /\ kbuf = [i \in 0 .. RingSize - 1 |-> NoCode] /\ head = 0 /\ tail = 0
    /\ at = "drain" /\ code = NoCode /\ next = 0
    /\ taken = <<>> /\ dropped = FALSE /\ raced = FALSE

NextIndex(i) == (i + 1) % RingSize

RingFull == NextIndex(head) = tail

-----------------------------------------------------------------------------
Type(char) ==
    /\ Len(typed) < MaxKeys
    /\ typed' = Append(typed, Code(Len(typed) + 1, char))
    /\ queue' = Append(queue, Last(typed'))
    /\ UNCHANGED <<port, pending, served, kbuf, head, tail, at, code, next, taken, dropped, raced>>

\* The next code comes to the port, and with it the interrupt unless one is in
\* service.
Arrive ==
    /\ ~port.full /\ queue # <<>>
    /\ port' = [full |-> TRUE, code |-> Head(queue)]
    /\ queue' = Tail(queue)
    /\ pending' = (pending \/ ~served)
    /\ UNCHANGED <<served, kbuf, head, tail, at, code, next, typed, taken, dropped, raced>>

\* irq1_handler64 reads the port, whether or not the byte is still to be read,
\* and puts it in the ring with enqueue_from_isr.
Irq1Handler64 ==
    /\ pending
    /\ pending' = FALSE /\ served' = TRUE
    /\ port' = [port EXCEPT !.full = FALSE]
    /\ IF port.code.char /\ ~RingFull
       THEN kbuf' = [kbuf EXCEPT ![head] = port.code] /\ head' = NextIndex(head)
       ELSE UNCHANGED <<kbuf, head>>
    /\ dropped' = (dropped \/ (port.code.char /\ RingFull))
    /\ raced' = (raced \/ ~port.full \/ at \in {"read", "enqueue", "store", "advance", "status", "port"})
    /\ UNCHANGED <<queue, tail, at, code, next, typed, taken>>

-----------------------------------------------------------------------------
(* drain_poll, with enqueue_from_isr step by step.                         *)

DrainStatus ==
    /\ at = "drain"
    /\ at' = IF port.full THEN "read" ELSE "serial"
    /\ UNCHANGED <<port, queue, pending, served, kbuf, head, tail, code, next, typed, taken, dropped, raced>>

DrainRead ==
    /\ at = "read"
    /\ port' = [port EXCEPT !.full = FALSE]
    /\ code' = port.code
    /\ at' = IF port.code.char THEN "enqueue" ELSE "drain"
    /\ UNCHANGED <<queue, pending, served, kbuf, head, tail, next, typed, taken, dropped, raced>>

Enqueue ==
    /\ at = "enqueue"
    /\ next' = NextIndex(head)
    /\ at' = IF RingFull THEN "drain" ELSE "store"
    /\ dropped' = (dropped \/ RingFull)
    /\ UNCHANGED <<port, queue, pending, served, kbuf, head, tail, code, typed, taken, raced>>

Store ==
    /\ at = "store"
    /\ kbuf' = [kbuf EXCEPT ![head] = code]
    /\ at' = "advance"
    /\ UNCHANGED <<port, queue, pending, served, head, tail, code, next, typed, taken, dropped, raced>>

Advance ==
    /\ at = "advance"
    /\ head' = next
    /\ at' = "drain"
    /\ UNCHANGED <<port, queue, pending, served, kbuf, tail, code, next, typed, taken, dropped, raced>>

-----------------------------------------------------------------------------
(* The rest of console_loop: a character from the serial line, or else one *)
(* of the keyboard.                                                        *)

Serial ==
    /\ at = "serial"
    /\ at' \in {"drain", "dequeue"}
    /\ UNCHANGED <<port, queue, pending, served, kbuf, head, tail, code, next, typed, taken, dropped, raced>>

\* Mutant: g_tail is moved before the entry is read.
DequeueCharLate ==
    /\ at = "dequeue"
    /\ IF head = tail THEN at' = "status" /\ UNCHANGED <<tail, taken>>
       ELSE /\ tail' = NextIndex(tail)
            /\ taken' = Append(taken, kbuf[tail'])
            /\ at' = "drain"
    /\ UNCHANGED <<port, queue, pending, served, kbuf, head, code, next, typed, dropped, raced>>

DequeueChar ==
    /\ at = "dequeue"
    /\ IF head = tail THEN at' = "status" /\ UNCHANGED <<tail, taken>>
       ELSE /\ taken' = Append(taken, kbuf[tail])
            /\ tail' = NextIndex(tail)
            /\ at' = "drain"
    /\ UNCHANGED <<port, queue, pending, served, kbuf, head, code, next, typed, dropped, raced>>

\* The fallback of keyboard_read_char_nonblocking.
PortStatus ==
    /\ at = "status"
    /\ at' = IF port.full THEN "port" ELSE "drain"
    /\ UNCHANGED <<port, queue, pending, served, kbuf, head, tail, code, next, typed, taken, dropped, raced>>

PortRead ==
    /\ at = "port"
    /\ port' = [port EXCEPT !.full = FALSE]
    /\ taken' = IF port.code.char THEN Append(taken, port.code) ELSE taken
    /\ at' = "drain"
    /\ UNCHANGED <<queue, pending, served, kbuf, head, tail, code, next, typed, dropped, raced>>

KeyNext ==
    \/ (\E char \in BOOLEAN : Type(char)) \/ Arrive \/ Irq1Handler64
    \/ DrainStatus \/ DrainRead \/ Enqueue \/ Store \/ Advance
    \/ Serial \/ DequeueChar \/ PortStatus \/ PortRead

KeySpec == KeyInit /\ [][KeyNext]_keyVars

-----------------------------------------------------------------------------
KeysOf(codes) == SelectSeq(codes, LAMBDA c : c.char)
InRing == [i \in 1 .. (head - tail) % RingSize |-> kbuf[(tail + i - 1) % RingSize]]
InHand == IF at \in {"enqueue", "store", "advance"} THEN <<code>> ELSE <<>>
InPort == KeysOf((IF port.full THEN <<port.code>> ELSE <<>>) \o queue)

InOrder == taken \o InRing \o InHand \o InPort
Without(keys) == {keys} \cup {RemoveAt(keys, i) : i \in DOMAIN keys}

\* Every key goes from the controller through the ring to the console, once, in
\* the order in which keys were typed and none lost while there is room in the
\* ring, whichever of the three readers of the port takes it, unless the
\* interrupt comes between two steps of a poll that has a key in hand or looks
\* for one, or after the poll took its byte.  It comes once, and then it costs one
\* key: but for one key that is lost, comes twice or is overtaken, the order is
\* kept; and also when the ring was full.
KeysInOrder ==
    /\ ~raced /\ ~dropped => InOrder = KeysOf(typed)
    /\ ~dropped => Without(InOrder) \cap Without(KeysOf(typed)) # {}
    /\ \E kept \in Without(InOrder) : \A i, j \in DOMAIN kept : i < j => kept[i].n < kept[j].n
=============================================================================
