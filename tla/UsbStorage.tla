----------------------------- MODULE UsbStorage -----------------------------
(***************************************************************************)
(* A USB disk over the rings of Xhci: finding and configuring it           *)
(* (kernel/xhci.cpp), and SCSI commands in three transfers, a command      *)
(* wrapper, the data and a status wrapper (kernel/usb_mass_storage.cpp).   *)
(* A transfer may be given up on while the disk goes on with it, so that   *)
(* later transfers meet what earlier ones left.  The disk is external.     *)
(***************************************************************************)
EXTENDS Xhci

CONSTANTS
    PciFunctions,   \* what the scan may find: sequences of [xhci, bar, starts, port]
    Blocks,         \* blocks of the disk
    Buffer,         \* blocks of the caller's memory
    Requests,       \* calls: [op, lba, buf, count]; one command moves one block
    MaxRequests     \* bound: calls made

VARIABLES
    stage,      \* how far init() and get_mass_storage_device() have come
    phase,      \* of scsi_xfer: "none", "cbw", "data" or "csw"
    tag,        \* g_tag
    request, chunk, result,
    csw,        \* the status wrapper in memory
    unseen,     \* a status wrapper of the last call had a residue
    unit,       \* the disk: [state, tag, op, lba, outcome, odd], odd
                \* when its blocks are not of 512 bytes
    disk, mem, before, requests

usbVars == <<stage, phase, tag, request, chunk, result, csw, unseen, unit, disk, mem, before, requests>>
vars == <<xhciVars, usbVars>>

Cap == Buffer           \* the cell of memory for the answer to READ CAPACITY
Junk == <<"junk", 0>>
NoCsw == [tag |-> 0, status |-> 0, residue |-> FALSE]
Idle == [op |-> "none"]

\* The requests of get_mass_storage_device in order, with their rings: three
\* TRBs for a control transfer with data, two without.
Enumeration ==
    [enable_slot |-> [ring |-> "cmd", trbs |-> 1, next |-> "address"],
     address |-> [ring |-> "cmd", trbs |-> 1, next |-> "device_desc"],
     device_desc |-> [ring |-> "ep0", trbs |-> 3, next |-> "config_header"],
     config_header |-> [ring |-> "ep0", trbs |-> 3, next |-> "config"],
     config |-> [ring |-> "ep0", trbs |-> 3, next |-> "set_config"],
     set_config |-> [ring |-> "ep0", trbs |-> 2, next |-> "configure"],
     configure |-> [ring |-> "cmd", trbs |-> 1, next |-> "capacity"]]

-----------------------------------------------------------------------------
\* init(): the first controller with registers in memory decides.
FindController(functions) ==
    LET usable == {i \in DOMAIN functions : functions[i].xhci /\ functions[i].bar}
    IN usable # {} /\ functions[FirstOf(usable)].starts

\* The first connected port, and its reset, which the controller reports.
FindPort(functions) ==
    LET usable == {i \in DOMAIN functions : functions[i].xhci /\ functions[i].bar}
    IN functions[FirstOf(usable)].port = "enabled"

Start(functions) ==
    /\ stage = "off"
    /\ IF FindController(functions) /\ FindPort(functions)
       THEN stage' = "enable_slot" /\ PortEvent
       ELSE stage' = "absent" /\ UNCHANGED <<events, hc>>
    /\ UNCHANGED <<ring, evtIndex, evtCycle, done, wait, giveUps, raced>>
    /\ UNCHANGED <<phase, tag, request, chunk, result, csw, unseen, unit, disk, mem, before, requests>>

\* The next command or control transfer.
EnumerateSubmit ==
    /\ stage \in DOMAIN Enumeration
    /\ Submit(Enumeration[stage].ring, [i \in 1 .. Enumeration[stage].trbs |-> stage])
    /\ UNCHANGED usbVars

\* What it returned: the end on a failure, or on an answer that is not that of
\* a disk; bulk rings are set up before the endpoints are configured.
EnumerateReturn ==
    /\ stage \in DOMAIN Enumeration
    /\ \/ /\ Take
          /\ \E fits \in BOOLEAN :
               stage' = IF Code = 1 /\ fits THEN Enumeration[stage].next ELSE "absent"
       \/ GiveUp /\ stage' = "absent"
    /\ phase' = IF stage' = "capacity" THEN "cbw" ELSE phase
    /\ UNCHANGED <<tag, request, chunk, result, csw, unseen, unit, disk, mem, before, requests>>

-----------------------------------------------------------------------------
(* scsi_xfer                                                               *)

Active == stage = "capacity" \/ request # Idle
Reading == stage = "capacity" \/ request.op # "write"
Cell == IF stage = "capacity" THEN Cap ELSE request.buf + chunk
Size == IF stage = "capacity" THEN "capacity" ELSE "block"
Op == IF stage = "capacity" THEN "capacity" ELSE request.op
Lba == IF stage = "capacity" THEN 0 ELSE request.lba + chunk

DataTrb == [kind |-> "data", size |-> Size, cell |-> Cell]

\* The transfer of the current phase.
SendCbw ==
    /\ Active /\ phase = "cbw"
    /\ Submit("out", <<[kind |-> "cbw", tag |-> tag, op |-> Op, lba |-> Lba]>>)
    /\ tag' = tag + 1
    /\ UNCHANGED <<stage, phase, request, chunk, result, csw, unseen, unit, disk, mem, before, requests>>

MoveData ==
    /\ Active /\ phase = "data"
    /\ Submit(IF Reading THEN "in" ELSE "out", <<DataTrb>>)
    /\ UNCHANGED usbVars

ReadCsw ==
    /\ Active /\ phase = "csw"
    /\ Submit("in", <<[kind |-> "csw"]>>)
    /\ csw' = NoCsw
    /\ UNCHANGED <<stage, phase, tag, request, chunk, result, unseen, unit, disk, mem, before, requests>>

\* Mutant: the status in the wrapper is not looked at.
CswValidAnyStatus == csw.tag = tag - 1

\* The signature is there when the wrapper was written at all; the residue, what
\* the disk did not move of the data, is not looked at.
CswValid == csw.tag = tag - 1 /\ csw.status = 0

\* scsi_xfer returned: READ CAPACITY does not matter to init(), a failed chunk
\* ends the call.
Finish(ok) ==
    IF stage = "capacity"
    THEN /\ stage' \in IF ~ok THEN {"ready"} ELSE IF csw.residue THEN {"ready", "odd"}
                      ELSE IF unit.odd THEN {"odd"} ELSE {"ready"}
         /\ phase' = "none" /\ UNCHANGED <<request, chunk, result>>
    ELSE /\ stage' = stage
         /\ IF ok /\ chunk + 1 < request.count
            THEN chunk' = chunk + 1 /\ phase' = "cbw" /\ UNCHANGED <<request, result>>
            ELSE /\ request' = Idle /\ chunk' = 0 /\ phase' = "none"
                 /\ result' = IF ok THEN "ok" ELSE "failed"

TransferReturn ==
    /\ Active
    /\ \/ Take /\ IF Code # 1 THEN Finish(FALSE)
                  ELSE IF phase = "csw" THEN Finish(CswValid)
                  ELSE /\ phase' = IF phase = "cbw" THEN "data" ELSE "csw"
                       /\ UNCHANGED <<stage, request, chunk, result>>
       \/ GiveUp /\ Finish(FALSE)
    /\ UNCHANGED <<tag, csw, unseen, unit, disk, mem, before, requests>>

\* read_sectors, which wants blocks of 512 bytes, and the write function of the block device; the read function
\* of the block device is "read0", which asks for no block whatever the call.
Request(r) ==
    /\ stage \in {"ready", "odd"} /\ request = Idle /\ requests < MaxRequests
    /\ requests' = requests + 1
    /\ IF stage = "odd" /\ r.op = "read"
       THEN result' = "failed" /\ UNCHANGED <<request, chunk, phase>>
       ELSE request' = r /\ chunk' = 0 /\ phase' = "cbw" /\ result' = "pending"
    /\ before' = [request |-> r, disk |-> disk, mem |-> mem] /\ unseen' = FALSE
    /\ UNCHANGED <<xhciVars, stage, tag, csw, unit, disk, mem>>

-----------------------------------------------------------------------------
(* The disk and the controller.                                            *)

\* Commands and control transfers succeed or not.
Enumerates(r) ==
    /\ \E code \in {1, 6} : Complete(r, code)
    /\ UNCHANGED usbVars

\* A disk that has less data than the transfer has room for may fill it up, and
\* says so in the residue.
Wants(op, outcome) ==
    CASE op \in {"read", "capacity"} -> "send" [] op = "write" -> "receive"
      [] op = "read0" /\ outcome = "short" -> "send" [] OTHER -> "status"

\* Out: a command when one is expected, data when data is, whatever it is.
TakeOut ==
    /\ Live("out")
    /\ LET body == Here("out").body
       IN \/ /\ unit.state = "command" /\ body.kind = "cbw"
             /\ \E outcome \in {"done", "failed", "short"} :
                  unit' = [unit EXCEPT !.state = Wants(body.op, outcome), !.tag = body.tag, !.op = body.op,
                                       !.lba = body.lba, !.outcome = outcome]
             /\ Complete("out", 1) /\ UNCHANGED disk
          \/ /\ unit.state = "command" /\ body.kind # "cbw"
             /\ Complete("out", 6) /\ UNCHANGED <<unit, disk>>
          \/ /\ unit.state = "receive"
             /\ unit' = [unit EXCEPT !.state = "status"]
             /\ disk' = IF unit.outcome # "done" THEN disk
                        ELSE [disk EXCEPT ![unit.lba] = IF body.kind = "data" THEN mem[body.cell] ELSE Junk]
             /\ Complete("out", 1)
    /\ UNCHANGED <<stage, phase, tag, request, chunk, result, csw, unseen, mem, before, requests>>

Content == IF unit.outcome # "done" THEN Junk ELSE IF unit.op = "capacity" THEN <<"cap", 0>> ELSE disk[unit.lba]
Sends == IF unit.op = "capacity" THEN "capacity" ELSE "block"

\* In: the data of the command, then its status; a transfer of another length
\* ends with an error or a short packet.
TakeIn ==
    /\ Live("in")
    /\ LET body == Here("in").body
       IN \/ /\ unit.state = "send" /\ body.kind = "data"
             /\ unit' = [unit EXCEPT !.state = "status"]
             /\ mem' = [mem EXCEPT ![body.cell] = IF body.size = Sends THEN Content ELSE Junk]
             /\ Complete("in", IF body.size = Sends THEN 1 ELSE IF body.size = "block" THEN 13 ELSE 3)
             /\ UNCHANGED <<csw, unseen>>
          \/ /\ unit.state = "send" /\ body.kind = "csw"
             /\ unit' = [unit EXCEPT !.state = "status"]
             /\ Complete("in", 3) /\ UNCHANGED <<mem, csw, unseen>>
          \/ /\ unit.state = "status" /\ body.kind = "csw"
             /\ unit' = [unit EXCEPT !.state = "command"]
             /\ csw' = [tag |-> unit.tag, status |-> IF unit.outcome = "failed" THEN 1 ELSE 0,
                        residue |-> unit.outcome = "short"]
             /\ unseen' = (unseen \/ unit.outcome = "short")
             /\ Complete("in", 1) /\ UNCHANGED mem
          \/ /\ unit.state = "status" /\ body.kind = "data"
             /\ unit' = [unit EXCEPT !.state = "command"]
             /\ mem' = [mem EXCEPT ![body.cell] = Junk]
             /\ Complete("in", IF body.size = "block" THEN 13 ELSE 3) /\ UNCHANGED <<csw, unseen>>
    /\ UNCHANGED <<stage, phase, tag, request, chunk, result, disk, before, requests>>

-----------------------------------------------------------------------------
Init ==
    /\ XhciInit
    /\ stage = "off" /\ phase = "none" /\ tag = 1
    /\ request = Idle /\ chunk = 0 /\ result = "none" /\ csw = NoCsw
    /\ \E odd \in BOOLEAN :
         unit = [state |-> "command", tag |-> 0, op |-> "none", lba |-> 0, outcome |-> "done", odd |-> odd]
    /\ disk = [b \in 0 .. Blocks - 1 |-> <<"disk", b>>]
    /\ mem = [a \in 0 .. Buffer |-> <<"mem", a>>]
    /\ before = [request |-> Idle, disk |-> disk, mem |-> mem]
    /\ unseen = FALSE /\ requests = 0

PollEvents == (Poll \/ PollRaced \/ Interrupt) /\ UNCHANGED usbVars

Next ==
    \/ \E f \in PciFunctions : Start(f)
    \/ EnumerateSubmit \/ EnumerateReturn
    \/ SendCbw \/ MoveData \/ ReadCsw \/ TransferReturn \/ PollEvents
    \/ \E r \in Requests : Request(r)
    \/ \E r \in {"cmd", "ep0"} : Enumerates(r)
    \/ TakeOut \/ TakeIn

Spec == Init /\ [][Next]_vars

-----------------------------------------------------------------------------
\* A call that returned success moved its own blocks: what an earlier transfer
\* left on the rings, in the completion table, in the status wrapper or in the
\* disk is never taken for it, even after time-outs; and as long as nothing
\* was given up on, nothing else is touched.  The exception is a command of which
\* the disk says in the residue that it did not move all, the block device's read
\* function among them, which asks for no block and may be handed fill.
UsbTransfersExact ==
    LET r == before.request
        part == 0 .. r.count - 1
    IN result = "ok" /\ ~unseen =>
         /\ \A n \in part : IF r.op = "write" THEN disk[r.lba + n] = mem[r.buf + n]
                            ELSE r.op = "read" /\ mem[r.buf + n] = before.disk[r.lba + n]
         /\ giveUps = 0 =>
              /\ \A a \in DOMAIN mem : mem[a] # before.mem[a] => r.op = "read" /\ a - r.buf \in part
              /\ \A b \in DOMAIN disk : disk[b] # before.disk[b] => r.op = "write" /\ b - r.lba \in part

\* Events that handle_irq has not come to.
Unread == {events[(evtIndex + k) % EventSize] : k \in 0 .. ((hc.enq - evtIndex) % EventSize) - 1}

\* The disk is ready for what the driver put on the ring.
Expected(r) ==
    CASE r = "out" -> unit.state \in {"command", "receive"}
      [] r = "in" -> unit.state \in {"send", "status"}
      [] OTHER -> TRUE

\* As long as nothing was given up on and no interrupt ran handle_irq inside
\* itself, wait_for_event never waits in vain: the completion is in the table
\* or on the event ring, or the controller sees the TRB and the disk is in the
\* phase for it, on every lap of every ring.  The exception is a control
\* transfer that fails before its last TRB, the only one that is waited for:
\* its event names another and the wait runs out.
UsbAnswerComes ==
    wait # NoWait /\ giveUps = 0 /\ ~raced =>
      \/ Matching # {}
      \/ \E e \in Unread : e.ptr = wait.ptr /\ events[evtIndex].cycle = evtCycle
      \/ Live(wait.ptr[1]) /\ Expected(wait.ptr[1])
      \/ wait.ptr[1] = "ep0" /\ "ep0" \in hc.halted
=============================================================================
