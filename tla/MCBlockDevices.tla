--------------------------- MODULE MCBlockDevices ---------------------------
(***************************************************************************)
(* The three disk drivers and the block layer as one model: a behaviour is *)
(* a behaviour of one of them.  Contents of disk and memory, the call and  *)
(* its result are the same variables for the three drivers.                *)
(***************************************************************************)
EXTENDS Integers, Sequences, TLC

CONSTANTS
    Depth, CidMod, PageCells, ListEntries, MemCells, NvmeBlocks, MaxCommands,
    IdeSectors, LbaMod, Buffer, MaxCalls,
    RingSize, EventSize, TableSize, Handler, MaxGiveUps, UsbBlocks, MaxRequests,
    DeviceTable, MaxPartitions, NameParts

VARIABLES
    part,
    call, result, disk, mem, before, unseen,
    scan, nphase, admin, io, waiting, prpList, device, made, commands,
    drive, at, s, late, calls,
    ring, events, evtIndex, evtCycle, done, wait, hc, giveUps, raced,
    stage, phase, tag, chunk, csw, unit, requests,
    devices, parts, visit, access

shared == <<call, result, disk, mem, before, unseen>>
nvme == <<scan, nphase, admin, io, waiting, prpList, device, made, commands>>
ide == <<drive, at, s, late, calls>>
usb == <<ring, events, evtIndex, evtCycle, done, wait, hc, giveUps, raced,
         stage, phase, tag, chunk, csw, unit, requests>>
block == <<devices, parts, visit, access>>
vars == <<part, shared, nvme, ide, usb, block>>

Rq(op, lba, buf, count) == [op |-> op, lba |-> lba, buf |-> buf, count |-> count]

\* Controllers that are passed over, one that may fail and one after it; one that
\* its doorbells do not reach; none.
Nv(isNvme, bar, mappable) == [nvme |-> isNvme, bar |-> bar, mappable |-> mappable, hears |-> TRUE]
Deaf == [nvme |-> TRUE, bar |-> TRUE, mappable |-> TRUE, hears |-> FALSE]
NvmeControllers ==
    {<<>>, <<Deaf>>, <<Nv(FALSE, TRUE, TRUE), Nv(TRUE, TRUE, FALSE), Nv(TRUE, FALSE, TRUE),
             Nv(TRUE, TRUE, TRUE), Nv(TRUE, TRUE, TRUE)>>}

\* Neighbouring pages lie apart.
NvmePages == [p \in 0 .. MemCells \div PageCells - 1 |-> MemCells \div PageCells - 1 - p]

\* Buffers inside a page, over two and over more, too long for the list, and
\* blocks past the end.
NvmeRequests ==
    {Rq("read", 1, 1, 1), Rq("read", 0, 1, 3), Rq("read", 0, 0, 5),
     Rq("write", 1, 1, 5), Rq("write", 5, 0, 2), Rq("write", 0, 0, 7), Rq("write", 0, 0, 0)}

\* One sector past the end of the drive, one past the numbers it is handed.
IdeRequests ==
    {Rq("present", 0, 0, 1), Rq("identify", 0, 0, 1), Rq("read", 0, 0, 2),
     Rq("read", 2, 1, 1), Rq("write", 1, 0, 2), Rq("write", 0, 1, 1),
     Rq("read", 3, 0, 1), Rq("write", 5, 0, 1)}

Fn(xhci, bar, starts, port) == [xhci |-> xhci, bar |-> bar, starts |-> starts, port |-> port]
UsbFunctions ==
    {<<>>, <<Fn(TRUE, TRUE, FALSE, "enabled")>>, <<Fn(TRUE, TRUE, TRUE, "none")>>,
     <<Fn(FALSE, TRUE, TRUE, "enabled"), Fn(TRUE, FALSE, TRUE, "enabled"), Fn(TRUE, TRUE, TRUE, "enabled")>>}

UsbRequests == {Rq("read", 0, 0, 2), Rq("write", 1, 1, 1), Rq("read0", 1, 1, 1)}

\* One disk with a partition that holds partitions itself, one of them past its
\* end; one that cannot be written and whose only partition is the disk itself;
\* one whose partition reaches past the numbers that its driver hands on.
Entry(type, start, sectors) == [type |-> type, start |-> start, sectors |-> sectors]
BlockDisks ==
    [nvme0 |-> [size |-> 6, mod |-> 64, writable |-> TRUE,
                mbr |-> 0 :> <<Entry(1, 1, 3), Entry(0, 1, 2), Entry(1, 4, 9), Entry(1, 1, 0)>>
                     @@ 1 :> <<Entry(1, 1, 9), Entry(1, 0, 2)>>],
     usbms0 |-> [size |-> 3, mod |-> 64, writable |-> FALSE, mbr |-> 0 :> <<Entry(1, 0, 2)>>],
     ide0 |-> [size |-> 3, mod |-> 4, writable |-> TRUE, mbr |-> 0 :> <<Entry(1, 2, 4)>>]]

N == INSTANCE Nvme WITH Controllers <- NvmeControllers, Blocks <- NvmeBlocks, PageOf <- NvmePages,
                        Requests <- NvmeRequests, phase <- nphase
I == INSTANCE Ide WITH Sectors <- IdeSectors, Requests <- IdeRequests
U == INSTANCE UsbStorage WITH PciFunctions <- UsbFunctions, Blocks <- UsbBlocks,
                              Requests <- UsbRequests, request <- call
B == INSTANCE Block WITH Disks <- BlockDisks, TableSize <- DeviceTable

ASSUME NvmeAssumption == N!NvmeConstants

\* A part that does not take part has no state.
NoNvme ==
    /\ scan = "off" /\ nphase = "off" /\ admin = "off" /\ io = "off"
    /\ waiting = "off" /\ prpList = "off" /\ device = "off"
    /\ made = "off" /\ commands = "off"
NoIde ==
    /\ drive = "off" /\ at = "off" /\ s = "off" /\ late = "off"
    /\ calls = "off"
NoUsb ==
    /\ ring = "off" /\ events = "off" /\ evtIndex = "off" /\ evtCycle = "off"
    /\ done = "off" /\ wait = "off" /\ hc = "off" /\ giveUps = "off"
    /\ raced = "off" /\ stage = "off" /\ phase = "off" /\ tag = "off"
    /\ chunk = "off" /\ csw = "off" /\ unit = "off" /\ requests = "off"
NoBlock ==
    /\ devices = "off" /\ parts = "off" /\ visit = "off" /\ access = "off"
NoCalls ==
    /\ call = "off" /\ result = "off" /\ disk = "off" /\ mem = "off"
    /\ before = "off" /\ unseen = "off"

Init ==
    \/ part = "nvme" /\ N!Init /\ NoIde /\ NoUsb /\ NoBlock
    \/ part = "ide" /\ I!Init /\ NoNvme /\ NoUsb /\ NoBlock
    \/ part = "usb" /\ U!Init /\ NoNvme /\ NoIde /\ NoBlock
    \/ part = "block" /\ B!Init /\ NoNvme /\ NoIde /\ NoUsb /\ NoCalls

Nvme(A) == part = "nvme" /\ A /\ UNCHANGED <<part, ide, usb, block>>

Next ==
    \/ part = "nvme" /\ N!Next /\ UNCHANGED <<part, ide, usb, block>>
    \/ part = "ide" /\ I!Next /\ UNCHANGED <<part, nvme, usb, block>>
    \/ part = "usb" /\ U!Next /\ UNCHANGED <<part, nvme, ide, block>>
    \/ part = "block" /\ B!Next /\ UNCHANGED <<part, shared, nvme, ide, usb>>

\* The NVMe driver spins until its answer comes, and a controller serves what is on
\* the rings that it knows of; the other drivers give up by themselves.
Spec ==
    /\ Init /\ [][Next]_vars
    /\ WF_vars(Nvme(N!Driver)) /\ \A q \in {"admin", "io"} : WF_vars(Nvme(N!Serve(q)))

-----------------------------------------------------------------------------
\* What a driver returned as done is done, and nothing else, but for the failures
\* of the disk that the driver does not look at.
TransfersExact ==
    /\ part = "nvme" => N!NvmeTransfersExact
    /\ part = "ide" => I!IdeTransfersExact
    /\ part = "usb" => U!UsbTransfersExact

\* wait_for_cqe of the NVMe driver, which has no time-out, ends for every
\* command of init() and of the calls that reaches the controller: across laps of
\* the rings and of the identifiers the answer is at the head, in the phase it
\* spins for.  It spins for ever when the doorbells do not reach the controller,
\* or on a ring whose creation failed with a status it took for success.
NvmeReturns ==
    (part = "nvme" /\ waiting # N!NoWait /\ N!Served(waiting.ring)) ~> (part = "nvme" /\ waiting = N!NoWait)

\* The USB driver does not wait for what cannot come.
UsbAnswerComes == part = "usb" => U!UsbAnswerComes

\* Accesses through partitions stay inside them.
PartitionsConfined == part = "block" => B!PartitionsConfined

\* Partition slots and the device table agree.
DeviceTableAgrees == part = "block" => B!DeviceTableAgrees
=============================================================================
