-------------------------------- MODULE Xhci --------------------------------
(***************************************************************************)
(* The rings of the USB host controller driver: kernel/xhci.cpp.  TRBs are *)
(* put on rings that end in a link back to the start, the cycle bit of a   *)
(* TRB tells the controller whether it is of this lap, and events come     *)
(* back on a ring read in the same way.  Completions wait in a table until *)
(* the caller that waits for that TRB takes them.  The controller is       *)
(* external.                                                               *)
(***************************************************************************)
EXTENDS Integers, Sequences, FiniteSets

CONSTANTS
    RingSize,       \* kRingSize: TRBs of a ring, the link among them
    EventSize,      \* kRingSize: entries of the event ring
    TableSize,      \* entries of g_completions
    Handler,        \* handle_irq is also an interrupt handler (32-bit build)
    MaxGiveUps      \* bound: waits that end in a time-out

Rings == {"cmd", "ep0", "in", "out"}
Link == RingSize - 1
NoWait == [ptr |-> <<"none", 0>>]
Empty == [ptr |-> <<"none", 0>>, code |-> 0]
NoTrb == [cycle |-> 0, ioc |-> FALSE, body |-> <<>>]
NoEvent == [cycle |-> 0, ptr |-> <<"none", 0>>, code |-> 0]

VARIABLES
    ring,       \* the driver's rings: [index, cycle, trbs]
    events,     \* g_ctrl.evt_trbs
    evtIndex, evtCycle,
    done,       \* g_completions
    wait,       \* the TRB that wait_for_event looks for
    hc,         \* the controller: where it is on each ring, and on the event ring
    giveUps,
    raced       \* an interrupt has come between event_ready and next_event

xhciVars == <<ring, events, evtIndex, evtCycle, done, wait, hc, giveUps, raced>>

-----------------------------------------------------------------------------
(* The driver.                                                             *)

\* ring_init
RingInit == [index |-> 0, cycle |-> 1,
             trbs |-> [i \in 0 .. Link |-> IF i = Link THEN [NoTrb EXCEPT !.cycle = 1] ELSE NoTrb]]

\* Mutant: the cycle bit is the same on every lap.
RingAllocSameCycle(r) ==
    IF r.index < Link THEN r ELSE [r EXCEPT !.trbs[Link].cycle = r.cycle, !.index = 0]

\* ring_alloc_trb, up to the TRB: past the last one the link is given the
\* cycle bit of the lap that ends.
RingAlloc(r) ==
    IF r.index < Link THEN r
    ELSE [r EXCEPT !.trbs[Link].cycle = r.cycle, !.index = 0, !.cycle = 1 - r.cycle]

\* The TRB is filled in with the ring's cycle bit.
Queue(r, ioc, body) ==
    LET here == RingAlloc(r)
    IN [here EXCEPT !.trbs[here.index] = [cycle |-> here.cycle, ioc |-> ioc, body |-> body],
                    !.index = here.index + 1]

\* The TRBs of one request; the last asks for an event.
RECURSIVE QueueAll(_, _)
QueueAll(r, bodies) ==
    IF Len(bodies) = 1 THEN Queue(r, TRUE, Head(bodies))
    ELSE QueueAll(Queue(r, FALSE, Head(bodies)), Tail(bodies))

\* submit_command, submit_transfer: the doorbell, and the TRB to wait for.
Submit(r, bodies) ==
    /\ wait = NoWait
    /\ ring' = [ring EXCEPT ![r] = QueueAll(@, bodies)]
    /\ wait' = [ptr |-> <<r, ring'[r].index - 1>>]
    /\ hc' = [hc EXCEPT !.bell = @ \cup {r}]
    /\ UNCHANGED <<events, evtIndex, evtCycle, done, giveUps, raced>>

Free(table) == {i \in DOMAIN table : table[i].ptr = Empty.ptr}
FirstOf(S) == CHOOSE i \in S : \A j \in S : i <= j

\* The first free entry takes the completion; without one it is dropped.
Recorded(table, e) ==
    IF Free(table) = {} THEN table
    ELSE [table EXCEPT ![FirstOf(Free(table))] = [ptr |-> e.ptr, code |-> e.code]]

\* next_event: the entry and the place after it.
Passed(index, cycle) ==
    [index |-> (index + 1) % EventSize, cycle |-> IF index + 1 = EventSize THEN 1 - cycle ELSE cycle]

\* handle_irq: event_ready and next_event until the ring is empty.
RECURSIVE HandleIrq(_, _, _)
HandleIrq(table, index, cycle) ==
    IF events[index].cycle # cycle THEN [table |-> table, index |-> index, cycle |-> cycle]
    ELSE HandleIrq(Recorded(table, events[index]), Passed(index, cycle).index, Passed(index, cycle).cycle)

Drained == HandleIrq(done, evtIndex, evtCycle)
Drain ==
    /\ done' = Drained.table /\ evtIndex' = Drained.index /\ evtCycle' = Drained.cycle
    /\ UNCHANGED events

Matching == {i \in DOMAIN done : done[i].ptr = wait.ptr}

\* A turn of wait_for_event that finds nothing in the table.
Poll ==
    /\ wait # NoWait /\ Matching = {}
    /\ events[evtIndex].cycle = evtCycle
    /\ Drain
    /\ UNCHANGED <<ring, wait, hc, giveUps, raced>>

\* The same turn when the interrupt handler takes the events after event_ready
\* saw one: next_event then takes whatever is in the entry after them.
PollRaced ==
    /\ Handler
    /\ wait # NoWait /\ Matching = {}
    /\ events[evtIndex].cycle = evtCycle
    /\ done' = Recorded(Drained.table, events[Drained.index])
    /\ evtIndex' = Passed(Drained.index, Drained.cycle).index
    /\ evtCycle' = Passed(Drained.index, Drained.cycle).cycle
    /\ raced' = TRUE
    /\ UNCHANGED <<events, ring, wait, hc, giveUps>>

\* The interrupt handler while nothing is waited for.
Interrupt ==
    /\ Handler /\ wait = NoWait
    /\ events[evtIndex].cycle = evtCycle
    /\ Drain
    /\ UNCHANGED <<ring, wait, hc, giveUps, raced>>

\* The first entry for the TRB is taken; the call ends with its code.
Take ==
    /\ wait # NoWait /\ Matching # {}
    /\ done' = [done EXCEPT ![FirstOf(Matching)] = Empty]
    /\ wait' = NoWait
    /\ UNCHANGED <<ring, events, evtIndex, evtCycle, hc, giveUps, raced>>

Code == done[FirstOf(Matching)].code

\* The spins run out after one more handle_irq, whose completions stay.
GiveUp ==
    /\ wait # NoWait /\ Matching = {} /\ giveUps < MaxGiveUps
    /\ Drain
    /\ wait' = NoWait /\ giveUps' = giveUps + 1
    /\ UNCHANGED <<ring, hc, raced>>

-----------------------------------------------------------------------------
(* The controller.                                                         *)

\* Where it is on a ring, through the link if the driver's last lap includes
\* it, and the TRB there, if it is of the controller's lap.
At(r) ==
    LET at == hc.at[r]
    IN IF at.deq = Link /\ ring[r].trbs[Link].cycle = at.cycle
       THEN [deq |-> 0, cycle |-> 1 - at.cycle] ELSE at
Here(r) == ring[r].trbs[At(r).deq]
Live(r) ==
    /\ r \in hc.bell /\ r \notin hc.halted
    /\ At(r).deq # Link /\ Here(r).cycle = At(r).cycle

\* The event ring has room up to the driver's read pointer.
Room == (hc.enq + 1) % EventSize # evtIndex

Posted(state, ptr, code) ==
    [state EXCEPT !.enq = (@ + 1) % EventSize,
                  !.evt = IF state.enq + 1 = EventSize THEN 1 - @ ELSE @]

Post(ptr, code) == events' = [events EXCEPT ![hc.enq] = [cycle |-> hc.evt, ptr |-> ptr, code |-> code]]

\* The TRB is done: an event if it asks for one or went wrong, which also halts
\* a transfer ring.
Complete(r, code) ==
    /\ Live(r)
    /\ LET next == [hc EXCEPT !.at[r] = [At(r) EXCEPT !.deq = @ + 1],
                              !.halted = IF code \notin {1, 13} /\ r # "cmd" THEN @ \cup {r} ELSE @]
           ptr == <<r, At(r).deq>>
       IN IF Here(r).ioc \/ code # 1
          THEN Room /\ Post(ptr, code) /\ hc' = Posted(next, ptr, code)
          ELSE hc' = next /\ UNCHANGED events
    /\ UNCHANGED <<ring, evtIndex, evtCycle, done, wait, giveUps, raced>>

\* A change at a port is reported with the port in the place of the TRB.
PortEvent ==
    /\ Room
    /\ Post(<<"port", 1>>, 1) /\ hc' = Posted(hc, <<"port", 1>>, 1)

XhciInit ==
    /\ ring = [r \in Rings |-> RingInit]
    /\ events = [i \in 0 .. EventSize - 1 |-> NoEvent]
    /\ evtIndex = 0 /\ evtCycle = 1
    /\ done = [i \in 1 .. TableSize |-> Empty]
    /\ wait = NoWait /\ giveUps = 0 /\ raced = FALSE
    /\ hc = [at |-> [r \in Rings |-> [deq |-> 0, cycle |-> 1]],
             bell |-> {}, halted |-> {}, enq |-> 0, evt |-> 1]
=============================================================================
