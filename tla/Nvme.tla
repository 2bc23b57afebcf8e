-------------------------------- MODULE Nvme --------------------------------
(***************************************************************************)
(* The NVMe driver: kernel/nvme.cpp.  Bringing up a controller, one        *)
(* command at a time through a pair of rings, and the page lists that tell *)
(* the controller where the caller's buffer is.  The controller is         *)
(* external: it takes commands in ring order, moves data through the page  *)
(* lists and posts a completion whose phase bit says which lap of the ring *)
(* it belongs to.  Its doorbells may not reach it: init() does not wait    *)
(* until it is ready (CSTS.RDY is looked at the wrong way round), and the  *)
(* 32-bit build maps its registers without the page of the doorbells.      *)
(***************************************************************************)
EXTENDS Integers, Sequences, FiniteSets

CONSTANTS
    Controllers,    \* what the PCI scan finds: sequences of [nvme, bar, mappable, hears]
    Depth,          \* entries of each ring (kQueueDepth, or what the controller allows)
    CidMod,         \* 2^16: command identifiers are 16 bits
    PageCells,      \* a page, in cells of one block each (kPageSize / g_block_size)
    ListEntries,    \* kPrpListEntries
    MemCells,       \* physical memory, in cells
    PageOf,         \* the physical page of each page of the driver's memory
    Blocks,         \* blocks of the namespace
    Requests,       \* calls of read_sectors and write_sectors: [op, lba, buf, count]
    MaxCommands     \* bound: commands a controller is given

\* What the driver needs of them.
NvmeConstants ==
    /\ Depth > 1 /\ CidMod > 2 /\ PageCells > 0
    /\ \A r \in Requests : r.buf + r.count <= MemCells
    /\ MemCells % PageCells = 0
    /\ LET pages == 0 .. MemCells \div PageCells - 1
       IN PageOf \in [pages -> pages] /\ \A p, q \in pages : PageOf[p] = PageOf[q] => p = q

VARIABLES
    scan,       \* PCI functions left for init() to look at
    phase,      \* the command of init() that is next, "ready" or "absent"
    admin, io,  \* g_admin and g_io: [sq, cq, tail, head, phase, nextCid]
    call,       \* the call being served
    result,     \* what it returned
    waiting,    \* the identifier and ring that wait_for_cqe spins on
    prpList,    \* g_prp_list
    device,     \* the controller's side of each ring: [sqHead, bell, cqTail, phase]
    disk, mem,  \* blocks of the namespace, cells of memory
    before,     \* the last call, and both when it was made
    unseen,     \* its command failed with a status that the driver takes for success
    made,       \* what the controller knows of: its doorbells, the rings created
    commands    \* commands given so far
driverVars == <<admin, io, call, result, waiting, prpList>>
nvmeVars == <<scan, phase, driverVars, device, disk, mem, before, unseen, made, commands>>

Rings == {"admin", "io"}
Ring(q) == IF q = "admin" THEN admin ELSE io
Idle == [op |-> "none"]
NoWait == [ring |-> "none", cid |-> 0]
NoEntry == [cid |-> 0, phase |-> FALSE, status |-> 0]
NoCommand == [op |-> "none", cid |-> 0]

\* queue_init
QueueInit == [sq |-> [i \in 0 .. Depth - 1 |-> NoCommand], cq |-> [i \in 0 .. Depth - 1 |-> NoEntry],
              tail |-> 0, head |-> 0, phase |-> TRUE, nextCid |-> 1]

\* The controller's view of a ring that was just created.
Fresh == [sqHead |-> 0, bell |-> 0, cqTail |-> 0, phase |-> TRUE]

-----------------------------------------------------------------------------
(* build_prps                                                              *)

\* phys_of
Phys(address) == PageOf[address \div PageCells] * PageCells + (address % PageCells)

Offset(address) == address % PageCells
Span(address) == PageCells - Offset(address)

\* The pages after the first, as the loop writes them.
Pages(buf, cells) ==
    [e \in 1 .. (cells - Span(buf) + PageCells - 1) \div PageCells |->
       Phys(buf + Span(buf) + (e - 1) * PageCells)]

Fits(buf, cells) == cells <= Span(buf) \/ Len(Pages(buf, cells)) <= ListEntries

\* Mutant: one page more is taken for a direct second pointer.
UsesListLate(buf, cells) == cells > Span(buf) + 2 * PageCells

UsesList(buf, cells) == cells > Span(buf) + PageCells

\* prp1 and prp2; the list's own address is not told apart.
Prps(buf, cells) ==
    [prp1 |-> Phys(buf),
     prp2 |-> IF cells <= Span(buf) \/ UsesList(buf, cells) THEN 0 ELSE Phys(buf + Span(buf))]

\* Entries the call does not write keep what an earlier call left there.
Listed(old, buf, cells) ==
    IF ~UsesList(buf, cells) THEN old
    ELSE [e \in DOMAIN old |-> IF e <= Len(Pages(buf, cells)) THEN Pages(buf, cells)[e] ELSE old[e]]

\* Where the controller finds cell n of a transfer.
Target(command, n) ==
    LET span == Span(command.prp1)
    IN IF n < span THEN command.prp1 + n
       ELSE IF command.count <= span + PageCells THEN command.prp2 + n - span
       ELSE prpList[(n - span) \div PageCells + 1] + ((n - span) % PageCells)

-----------------------------------------------------------------------------
(* submit_command and wait_for_cqe                                         *)

\* Identifier 0 marks an entry that was cleared.
TakeCid(ring) == IF ring.nextCid = 0 THEN 1 ELSE ring.nextCid

Submitted(ring, command) ==
    [ring EXCEPT !.nextCid = (TakeCid(ring) + 1) % CidMod,
                 !.sq[ring.tail] = [command EXCEPT !.cid = TakeCid(ring)],
                 !.tail = (ring.tail + 1) % Depth]

SubmitCommand(q, command) ==
    /\ waiting = NoWait
    /\ commands < MaxCommands /\ commands' = commands + 1
    /\ IF q = "admin" THEN admin' = Submitted(admin, command) /\ UNCHANGED io
                      ELSE io' = Submitted(io, command) /\ UNCHANGED admin
    /\ device' = [device EXCEPT ![q].bell = (Ring(q).tail + 1) % Depth]
    /\ waiting' = [ring |-> q, cid |-> TakeCid(Ring(q))]

\* The entry at the head, if it is the one that is waited for.
Answered ==
    /\ waiting # NoWait
    /\ LET ring == Ring(waiting.ring)
       IN ring.cq[ring.head].phase = ring.phase /\ ring.cq[ring.head].cid = waiting.cid

\* Mutant: the expected phase is not turned at the end of a lap.
TakenOnePhase(ring) ==
    [ring EXCEPT !.cq[ring.head] = NoEntry, !.head = (ring.head + 1) % Depth]

\* The entry is cleared and the head moves on, with the phase at a lap's end.
Taken(ring) ==
    [ring EXCEPT !.cq[ring.head] = NoEntry,
                 !.head = (ring.head + 1) % Depth,
                 !.phase = IF (ring.head + 1) % Depth = 0 THEN ~ring.phase ELSE ring.phase]

\* Bits 1 to 7 of the status field: a code is taken for success when these are 0.
StatusOk == LET ring == Ring(waiting.ring) IN ring.cq[ring.head].status % 128 = 0

TakeCompletion ==
    /\ Answered
    /\ IF waiting.ring = "admin" THEN admin' = Taken(admin) /\ UNCHANGED io
                                 ELSE io' = Taken(io) /\ UNCHANGED admin
    /\ waiting' = NoWait

-----------------------------------------------------------------------------
(* init()                                                                  *)

NextStep(step) ==
    CASE step = "identify" -> "create_cq" [] step = "create_cq" -> "create_sq" [] OTHER -> "ready"

InitCommand(step) == [op |-> step, cid |-> 0]

\* The next PCI function: passed over, or its queues set up, the controller
\* enabled and its identification asked for, at once or after a while, whether
\* the controller is ready or not.
Probe ==
    /\ phase = "probe" /\ scan # <<>> /\ commands = 0
    /\ scan' = Tail(scan)
    /\ IF Head(scan).nvme /\ Head(scan).bar /\ Head(scan).mappable
       THEN /\ phase' = "identify"
            /\ admin' = QueueInit /\ io' = QueueInit
            /\ device' = [q \in Rings |-> Fresh]
            /\ made' = IF Head(scan).hears THEN {"doorbells"} ELSE {}
       ELSE UNCHANGED <<phase, admin, io, device, made>>
    /\ UNCHANGED <<call, result, waiting, prpList, disk, mem, before, unseen, commands>>

NoController ==
    /\ phase = "probe" /\ scan = <<>>
    /\ phase' = "absent"
    /\ UNCHANGED <<scan, driverVars, device, disk, mem, before, unseen, made, commands>>

InitSubmit ==
    /\ phase \in {"identify", "create_cq", "create_sq"}
    /\ SubmitCommand("admin", InitCommand(phase))
    /\ UNCHANGED <<scan, phase, call, result, prpList, disk, mem, before, unseen, made>>

\* On to the next command, or to the next function when this one failed.
InitAnswered ==
    /\ phase \in {"identify", "create_cq", "create_sq"}
    /\ TakeCompletion
    /\ phase' = IF StatusOk THEN NextStep(phase) ELSE "probe"
    /\ commands' = IF StatusOk THEN commands ELSE 0
    /\ UNCHANGED <<scan, call, result, prpList, device, disk, mem, before, unseen, made>>

-----------------------------------------------------------------------------
(* nvme_read_sectors and nvme_write_sectors                                *)

Transfer(request) ==
    [op |-> request.op, cid |-> 0, prp1 |-> Prps(request.buf, request.count).prp1,
     prp2 |-> Prps(request.buf, request.count).prp2, lba |-> request.lba, count |-> request.count]

\* submit_io_transfer, refused when nothing is moved, the pages are too many or
\* there is no controller; too many pages fill the list all the same.
Request(request) ==
    /\ phase \in {"ready", "absent"} /\ call = Idle
    /\ before' = [request |-> request, disk |-> disk, mem |-> mem] /\ unseen' = FALSE
    /\ IF phase = "absent" \/ request.count = 0 \/ ~Fits(request.buf, request.count)
       THEN /\ result' = "failed" /\ call' = Idle /\ commands < MaxCommands /\ commands' = commands + 1
            /\ prpList' = IF phase = "absent" \/ request.count = 0 THEN prpList
                          ELSE Listed(prpList, request.buf, request.count)
            /\ UNCHANGED <<admin, io, waiting, device>>
       ELSE /\ prpList' = Listed(prpList, request.buf, request.count)
            /\ SubmitCommand("io", Transfer(request))
            /\ call' = request /\ result' = "pending"
    /\ UNCHANGED <<scan, phase, disk, mem, made>>

Return ==
    /\ phase = "ready"
    /\ TakeCompletion
    /\ result' = IF StatusOk THEN "ok" ELSE "failed"
    /\ call' = Idle
    /\ UNCHANGED <<scan, phase, prpList, device, disk, mem, before, unseen, made, commands>>

-----------------------------------------------------------------------------
(* The controller.                                                         *)

Post(q, command, status) ==
    LET side == device[q]
        entry == [cid |-> command.cid, phase |-> side.phase, status |-> status]
    IN /\ IF q = "admin" THEN admin' = [admin EXCEPT !.cq[side.cqTail] = entry] /\ UNCHANGED io
                         ELSE io' = [io EXCEPT !.cq[side.cqTail] = entry] /\ UNCHANGED admin
       /\ device' = [device EXCEPT ![q] =
                       [@ EXCEPT !.sqHead = (@ + 1) % Depth,
                                 !.cqTail = (@ + 1) % Depth,
                                 !.phase = IF (side.cqTail + 1) % Depth = 0 THEN ~@ ELSE @]]

\* Whether it serves a ring.
Served(q) == {"doorbells"} \cup (IF q = "io" THEN {"create_cq", "create_sq"} ELSE {}) \subseteq made

\* It does what it is told and reports success, or reports an error.  The status
\* 128 stands for those of which the low seven bits are 0: a write fault, a block
\* past the last one, a ring that cannot be created.
Serve(q) ==
    /\ Served(q) /\ device[q].sqHead # device[q].bell
    /\ LET command == Ring(q).sq[device[q].sqHead]
           inRange == command.lba + command.count <= Blocks
           cells == 0 .. command.count - 1
       IN \/ /\ q = "admin"
             /\ \E status \in {0, 1, 128} :
                  /\ command.op = "create_sq" /\ "create_cq" \notin made => status # 0
                  /\ Post(q, command, status)
                  /\ made' = IF status = 0 THEN made \cup {command.op} ELSE made
             /\ UNCHANGED <<disk, mem, unseen>>
          \/ /\ q = "io" /\ inRange
             /\ Post(q, command, 0) /\ UNCHANGED <<unseen, made>>
             /\ IF command.op = "read"
                THEN /\ mem' = [a \in DOMAIN mem |->
                                  IF \E n \in cells : Target(command, n) = a
                                  THEN disk[command.lba + CHOOSE n \in cells : Target(command, n) = a]
                                  ELSE mem[a]]
                     /\ UNCHANGED disk
                ELSE /\ disk' = [b \in DOMAIN disk |->
                                   IF b - command.lba \in cells THEN mem[Target(command, b - command.lba)]
                                   ELSE disk[b]]
                     /\ UNCHANGED mem
          \/ /\ q = "io"
             /\ \E status \in IF inRange THEN {1, 128} ELSE {128} :
                  Post(q, command, status) /\ unseen' = (status = 128)
             /\ UNCHANGED <<disk, mem, made>>
    /\ UNCHANGED <<scan, phase, call, result, waiting, prpList, before, commands>>

-----------------------------------------------------------------------------
Init ==
    /\ scan \in Controllers
    /\ phase = "probe"
    /\ admin = QueueInit /\ io = QueueInit
    /\ call = Idle /\ result = "none" /\ waiting = NoWait
    /\ prpList = [e \in 1 .. ListEntries |-> 0]
    /\ device = [q \in Rings |-> Fresh]
    /\ disk = [b \in 0 .. Blocks - 1 |-> <<"disk", b>>]
    /\ mem = [a \in 0 .. MemCells - 1 |-> <<"mem", a>>]
    /\ before = [request |-> Idle, disk |-> disk, mem |-> mem] /\ unseen = FALSE
    /\ made = {} /\ commands = 0

Driver ==
    \/ Probe \/ NoController \/ InitSubmit \/ InitAnswered
    \/ Return

Next ==
    \/ Driver
    \/ \E r \in Requests : Request(r)
    \/ \E q \in Rings : Serve(q)

Spec == Init /\ [][Next]_nvmeVars /\ WF_nvmeVars(Driver) /\ \A q \in Rings : WF_nvmeVars(Serve(q))

-----------------------------------------------------------------------------
\* What a call returned as done is done, whatever pages its buffer covers and
\* whatever earlier calls left in the rings and in the page list: the blocks are
\* in the buffer, or the buffer is in the blocks, and no other cell or block is
\* touched.  The exception is a failure that the controller reports with a status
\* whose low seven bits are 0, which wait_for_cqe does not tell from success.
NvmeTransfersExact ==
    LET r == before.request
        cells == 0 .. r.count - 1
        CellOf(a) == {n \in cells : Phys(r.buf + n) = a}
    IN result = "ok" /\ ~unseen =>
         /\ mem = [a \in DOMAIN mem |-> IF r.op = "read" /\ CellOf(a) # {}
                                        THEN before.disk[r.lba + CHOOSE n \in CellOf(a) : TRUE] ELSE before.mem[a]]
         /\ disk = [b \in DOMAIN disk |-> IF r.op = "write" /\ b - r.lba \in cells
                                          THEN before.mem[Phys(r.buf + b - r.lba)] ELSE before.disk[b]]
=============================================================================
