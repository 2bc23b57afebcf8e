-------------------------------- MODULE Ide --------------------------------
(***************************************************************************)
(* The IDE driver: kernel/drivers/ide.cpp.  Each sector is a command of    *)
(* its own, moved by the processor once the drive asks for it.  The drive  *)
(* is external: a command sent while it is busy is lost, one sent while it *)
(* asks for data takes the place of that data, and it may be slower than   *)
(* the driver waits.  What it reports after the data of a write, or along  *)
(* with the data of a read, the driver does not look at.                   *)
(***************************************************************************)
EXTENDS Integers

CONSTANTS
    Sectors,        \* sectors of the drive
    LbaMod,         \* 2^28: what fits the four registers
    Buffer,         \* sectors of the caller's memory
    Requests,       \* calls: [op, lba, buf, count]
    MaxCalls        \* bound: calls made

VARIABLES
    drive,      \* [state, op, lba]: what the drive is doing, and for which sector
    call,       \* the call being served, s sectors of it done
    at,         \* where the driver is: "idle", "busy", "drq"
    s,
    result,
    disk, mem,  \* contents
    before,     \* the last call, and both when it was made
    late,       \* the driver gave up on a drive that was still busy
    unseen,     \* the drive failed in the last call where the driver does not look
    calls

ideVars == <<drive, call, at, s, result, disk, mem, before, late, unseen, calls>>

Absent == [state |-> "absent", op |-> "none", lba |-> 0]
Resting == [state |-> "idle", op |-> "none", lba |-> 0]
Idle == [op |-> "none"]

Init ==
    /\ drive \in {Resting, Absent} /\ call = Idle /\ at = "idle" /\ s = 0 /\ result = "none"
    /\ disk = [b \in 0 .. Sectors - 1 |-> <<"disk", b>>]
    /\ mem = [a \in 0 .. Buffer - 1 |-> <<"mem", a>>]
    /\ before = [request |-> Idle, disk |-> disk, mem |-> mem]
    /\ late = FALSE /\ unseen = FALSE /\ calls = 0

\* The registers and the command register.
Command(op, lba) ==
    drive' = IF drive.state \in {"busy", "absent"} THEN drive
             ELSE [state |-> "busy", op |-> op, lba |-> lba % LbaMod]

\* The error bit of the status register.
Error == drive.state \in {"error", "absent"} \/ drive.op = "bad read"

\* A call begins with its first sector; IDENTIFY has no sector.
Request(r) ==
    /\ call = Idle /\ calls < MaxCalls
    /\ calls' = calls + 1
    /\ call' = r /\ s' = 0 /\ at' = "busy" /\ result' = "pending"
    /\ before' = [request |-> r, disk |-> disk, mem |-> mem]
    /\ Command(r.op, r.lba)
    /\ unseen' = FALSE
    /\ UNCHANGED <<disk, mem, late>>

\* The status register no longer says busy, or there is no drive: without one a
\* transfer goes on to wait for data.  ide_present stops here, and leaves
\* what the drive has to say unread.
NotBusy ==
    /\ at = "busy" /\ drive.state # "busy"
    /\ IF call.op = "present"
       THEN /\ result' = IF Error THEN "failed" ELSE "ok"
            /\ call' = Idle /\ at' = "idle"
       ELSE IF call.op = "identify" /\ Error
       THEN result' = "failed" /\ call' = Idle /\ at' = "idle"
       ELSE at' = "drq" /\ UNCHANGED <<result, call>>
    /\ UNCHANGED <<drive, s, disk, mem, before, late, unseen, calls>>

\* One of the two countdowns ran out.
GiveUp ==
    /\ \/ at = "busy" /\ drive.state = "busy"
       \/ at = "drq" /\ drive.state # "drq"
    /\ result' = "failed" /\ call' = Idle /\ at' = "idle"
    /\ late' = (late \/ drive.state = "busy")
    /\ UNCHANGED <<drive, s, disk, mem, before, unseen, calls>>

\* Mutant: the next sector is asked for without counting the one before.
NextSectorSame == call.lba + s

NextSector == call.lba + s + 1

\* The 256 words of a sector are read; then the next sector's command.
ReadWords ==
    /\ at = "drq" /\ drive.state = "drq" /\ call.op \in {"read", "identify"}
    /\ mem' = [mem EXCEPT ![call.buf + s] =
                 CASE drive.op \in {"identify", "present"} -> <<"id", 0>>
                   [] drive.op = "bad read" -> <<"bad", 0>>
                   [] OTHER -> disk[drive.lba]]
    /\ unseen' = (unseen \/ drive.op = "bad read")
    /\ s' = s + 1
    /\ IF s + 1 < call.count
       THEN /\ drive' = [state |-> "busy", op |-> "read", lba |-> NextSector % LbaMod]
            /\ at' = "busy" /\ UNCHANGED <<call, result>>
       ELSE /\ drive' = Resting
            /\ at' = "idle" /\ call' = Idle /\ result' = "ok"
    /\ UNCHANGED <<disk, before, late, calls>>

\* The words of a sector are written and the cache is flushed, without waiting
\* for the drive, which may yet fail to keep them; then the next sector's command.
WriteWords ==
    /\ at = "drq" /\ drive.state = "drq" /\ call.op = "write"
    /\ \E kept \in BOOLEAN :
         /\ disk' = IF kept /\ drive.op = "write" THEN [disk EXCEPT ![drive.lba] = mem[call.buf + s]] ELSE disk
         /\ drive' = [state |-> "busy", op |-> IF kept THEN "flush" ELSE "fault", lba |-> 0]
         /\ unseen' = (unseen \/ ~kept)
    /\ s' = s + 1
    /\ IF s + 1 < call.count
       THEN at' = "flushing" /\ UNCHANGED <<call, result>>
       ELSE at' = "idle" /\ call' = Idle /\ result' = "ok"
    /\ UNCHANGED <<mem, before, late, calls>>

\* The next sector's command after a flush, lost if the drive is not done.
AfterFlush ==
    /\ at = "flushing"
    /\ Command("write", call.lba + s)
    /\ at' = "busy"
    /\ UNCHANGED <<call, s, result, disk, mem, before, late, unseen, calls>>

\* The drive is done with what it does, asks for the data or has an error; it may
\* hand out a sector that it read with errors.
DriveAnswers ==
    /\ drive.state = "busy"
    /\ \/ drive.op = "flush" /\ drive' = Resting
       \/ /\ drive.op \in {"identify", "present", "read", "write"} /\ drive.lba < Sectors
          /\ drive' = [drive EXCEPT !.state = "drq"]
       \/ drive.op = "read" /\ drive.lba < Sectors /\ drive' = [drive EXCEPT !.state = "drq", !.op = "bad read"]
       \/ drive.op # "flush" /\ drive' = [drive EXCEPT !.state = "error"]
    /\ UNCHANGED <<call, at, s, result, disk, mem, before, late, unseen, calls>>

Driver == NotBusy \/ GiveUp \/ ReadWords \/ WriteWords \/ AfterFlush

Next == Driver \/ DriveAnswers \/ \E r \in Requests : Request(r)

Spec == Init /\ [][Next]_ideVars /\ WF_ideVars(Driver)

-----------------------------------------------------------------------------
\* What a call returned as done is done: the buffer or the sectors have the data,
\* and nothing else is touched, even when a command is lost to a drive that still
\* flushes its cache or takes the place of an unread identification.  There are
\* three exceptions: sector numbers of more than 28 bits, of which the driver
\* drops the rest; a failure that the drive reports after the data of a write or
\* with the data of a read; and the calls after one that gave up on a drive that
\* was still busy.
IdeTransfersExact ==
    LET r == before.request
        part == 0 .. r.count - 1
    IN result = "ok" /\ ~late /\ ~unseen /\ r.lba + r.count <= LbaMod =>
         /\ mem = [a \in DOMAIN mem |->
                     IF a - r.buf \notin part THEN before.mem[a]
                     ELSE IF r.op = "read" THEN before.disk[r.lba + a - r.buf]
                     ELSE IF r.op = "identify" THEN <<"id", 0>> ELSE before.mem[a]]
         /\ disk = [b \in DOMAIN disk |-> IF r.op = "write" /\ b - r.lba \in part
                                          THEN before.mem[r.buf + b - r.lba] ELSE before.disk[b]]
=============================================================================
