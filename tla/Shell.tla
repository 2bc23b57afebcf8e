------------------------------- MODULE Shell -------------------------------
(***************************************************************************)
(* The commands of kernel/shell.cpp on files and directories, as callers   *)
(* of a file system that keeps the promises of Vfs.  A command is carried  *)
(* out call by call; every call may fail.  Path arguments are sequences of *)
(* characters, names of the file system sequences without a slash.         *)
(***************************************************************************)
EXTENDS Vfs, SequencesExt

CONSTANTS
    MaxPath,        \* kMaxPath
    MaxSegments,    \* segments that normalize_absolute_path can hold
    Chunk,          \* kFileChunk
    LdEntries,      \* entries that ld has room for, 32 in the code
    StatEntries,    \* and stat, 16
    BufferMax,      \* what print_path_lines and grep read of a file
    Trees,          \* file systems to begin with
    Held,           \* descriptors that other programs have open
    Lines,          \* command lines: [cmd, args, text]
    MaxCommands     \* bound of the model

VARIABLES
    cwd,        \* ctx.cwd, as a path
    job,        \* the command being carried out
    shown,      \* what it printed of a file, or its answer
    failed,     \* it printed a complaint
    before,     \* history: the tree and the directory when it began
    commands    \* commands so far

shellVars == <<cwd, job, shown, failed, before, commands, tree, open, result>>

Idle == [at |-> "idle", cmd |-> "", args |-> <<>>, text |-> <<>>, path |-> <<>>, path2 |-> <<>>,
         fd |-> 0, fd2 |-> 0, buf |-> <<>>]
NoPath == <<"no path">>

-----------------------------------------------------------------------------
(* resolve_path                                                            *)

\* copy_text into a buffer of kMaxPath.
Cut(text) == SubSeq(text, 1, IF Len(text) < MaxPath THEN Len(text) ELSE MaxPath - 1)

Written(path) ==
    IF path = <<>> THEN <<"/">>
    ELSE FlattenSeq([i \in DOMAIN path |-> <<"/">> \o path[i]])

\* What is between slashes, empty pieces included.
Pieces(text) ==
    LET slashes == {i \in 1 .. Len(text) + 1 : i = Len(text) + 1 \/ text[IF i > Len(text) THEN 1 ELSE i] = "/"}
        ends == SetToSortSeq(slashes, LAMBDA i, j : i < j)
    IN [k \in DOMAIN ends |-> SubSeq(text, IF k = 1 THEN 1 ELSE ends[k - 1] + 1, ends[k] - 1)]

Push(path, piece) ==
    IF path = NoPath \/ piece \in {<<>>, <<".">>} THEN path
    ELSE IF piece = <<".", ".">> THEN (IF path = <<>> THEN path ELSE Front(path))
    ELSE IF Len(path) >= MaxSegments THEN NoPath
    ELSE Append(path, piece)

NormalizeAbsolutePath(text) == FoldLeft(Push, <<>>, Pieces(text))

Merged(text) ==
    IF text # <<>> /\ text[1] = "/" THEN text
    ELSE (IF cwd = <<>> THEN <<>> ELSE Written(cwd)) \o <<"/">> \o text

ResolvePath(text) ==
    IF (text = <<>> \/ text[IF text = <<>> THEN 0 ELSE 1] # "/") /\ cwd # <<>> /\ Len(Written(cwd)) + 1 >= MaxPath
    THEN NoPath
    ELSE NormalizeAbsolutePath(Cut(Merged(text)))

-----------------------------------------------------------------------------
(* What the commands ask of the file system.                               *)

Flag(r, w, c, t) == [read |-> r, write |-> w, create |-> c, trunc |-> t]
ForReading == Flag(TRUE, FALSE, FALSE, FALSE)
ForCreating == Flag(FALSE, TRUE, TRUE, FALSE)
ForWriting == Flag(FALSE, TRUE, TRUE, TRUE)

\* Mutant: append opens as write does.
ForAppendingTruncates == Flag(TRUE, TRUE, TRUE, TRUE)

ForAppending == Flag(TRUE, TRUE, TRUE, FALSE)

TwoFiles == {"cp", "mv", "cmp"}
Readers == {"cat", "head", "size"}

\* The job of a command whose arguments could be resolved.
JobOf(line, path, path2) ==
    [Idle EXCEPT !.at = "start", !.cmd = line.cmd, !.args = line.args, !.text = line.text,
                 !.path = path, !.path2 = path2]

Complains(yes) == failed' = (failed \/ yes)
Goes(at) == job' = [job EXCEPT !.at = at]
Starts(cmds) == job.at = "start" /\ job.cmd \in cmds
Session == <<cwd, before, commands>>

\* run(): a line is entered and its handler called, which resolves the first
\* argument (arg_to_path), for two files the second as well.  Without arguments
\* cd goes home, ld lists the current directory and the others do nothing.
\* mv resolves the source once more after cp has given up.
Enter(line) ==
    /\ job.at = "idle" /\ commands < MaxCommands
    /\ commands' = commands + 1
    /\ before' = [tree |-> tree, cwd |-> cwd, line |-> line]
    /\ shown' = <<>>
    /\ IF line.args = <<>>
       THEN /\ cwd' = IF line.cmd = "cd" THEN <<<<"r">>>> ELSE cwd
            /\ failed' = (line.cmd \notin {"cd", "ld"})
            /\ job' = IF line.cmd = "ld" THEN JobOf(line, cwd, cwd) ELSE job
       ELSE LET path == ResolvePath(line.args[1])
                path2 == IF line.cmd \in TwoFiles THEN ResolvePath(line.args[2]) ELSE path
                good == path # NoPath /\ path2 # NoPath
            IN /\ job' = IF good THEN JobOf(line, path, path2)
                         ELSE IF line.cmd = "mv" /\ path # NoPath
                         THEN [JobOf(line, path, path2) EXCEPT !.at = "unlink"]
                         ELSE Idle
               /\ failed' = ~good
               /\ UNCHANGED cwd
    /\ UNCHANGED vfsVars

-----------------------------------------------------------------------------
(* Directories and names.                                                  *)

Cd ==
    /\ Starts({"cd"})
    /\ VReaddir(job.path, 1)
    /\ cwd' = IF result' # Fail THEN job.path ELSE cwd
    /\ Complains(result' = Fail)
    /\ job' = Idle
    /\ UNCHANGED <<before, commands, shown>>

Ld ==
    /\ Starts({"ld"})
    /\ VReaddir(job.path, LdEntries)
    /\ shown' = result'
    /\ Complains(result' = Fail)
    /\ job' = Idle
    /\ UNCHANGED Session

IsDirectory ==
    /\ Starts({"isdir"})
    /\ VReaddir(job.path, 1)
    /\ shown' = <<IF result' # Fail THEN "yes" ELSE "no">>
    /\ job' = Idle
    /\ UNCHANGED <<Session, failed>>

\* What is no directory is opened as a file, to count its bytes.
Stat ==
    /\ Starts({"stat"})
    /\ VReaddir(job.path, StatEntries)
    /\ shown' = IF result' # Fail THEN result' ELSE shown
    /\ job' = IF result' # Fail THEN Idle ELSE [job EXCEPT !.cmd = "size"]
    /\ UNCHANGED <<Session, failed>>

Md ==
    /\ Starts({"md"})
    /\ VMd(job.path)
    /\ Complains(result' = Fail)
    /\ job' = Idle
    /\ UNCHANGED <<Session, shown>>

Rd ==
    /\ Starts({"rd"})
    /\ VRd(job.path)
    /\ Complains(result' = Fail)
    /\ job' = Idle
    /\ UNCHANGED <<Session, shown>>

Rm ==
    /\ Starts({"rm"})
    /\ VUnlink(job.path)
    /\ Complains(result' = Fail)
    /\ job' = Idle
    /\ UNCHANGED <<Session, shown>>

\* A command with many arguments that has dealt with one goes on to the next; one
\* that cannot be resolved ends it.
NextArgument ==
    IF Len(job.args) = 1 THEN Idle
    ELSE LET path == ResolvePath(job.args[2])
         IN IF path = NoPath THEN Idle
            ELSE [job EXCEPT !.at = "start", !.args = Tail(@), !.path = path]

RmMany ==
    /\ Starts({"rmmany"})
    /\ VUnlink(job.path)
    /\ Complains(result' = Fail \/ (Len(job.args) > 1 /\ NextArgument = Idle))
    /\ job' = NextArgument
    /\ UNCHANGED <<Session, shown>>

-----------------------------------------------------------------------------
(* Files.                                                                  *)

\* A file is opened; the command ends if that fails.
Opens(path, flags, then, else) ==
    /\ VOpen(path, flags)
    /\ Complains(result' = Fail)
    /\ job' = IF result' = Fail THEN else ELSE [job EXCEPT !.at = then, !.fd = result'[2]]
    /\ UNCHANGED <<Session, shown>>

OpenReader == Starts(Readers) /\ Opens(job.path, ForReading, "read", Idle)
Touch == Starts({"touch"}) /\ Opens(job.path, ForCreating, "close", Idle)
TouchMany == Starts({"touchmany"}) /\ Opens(job.path, ForCreating, "close", NextArgument)

\* write_file_text
OpenText ==
    \/ Starts({"write", "truncate"}) /\ Opens(job.path, ForWriting, "write", Idle)
    \/ Starts({"append"}) /\ Opens(job.path, ForAppending, "read", Idle)

\* A chunk printed as a string: up to a zero byte.
Printed(bytes) ==
    LET zero == SelectInSeq(bytes, LAMBDA b : b = 0)
    IN IF zero = 0 THEN bytes ELSE SubSeq(bytes, 1, zero - 1)

\* cat: chunks until there are no more.
ReadShown ==
    /\ job.at = "read" /\ job.cmd = "cat"
    /\ VRead(job.fd, Chunk)
    /\ shown' = shown \o Printed(result'[2])
    /\ Goes(IF result'[2] = <<>> THEN "close" ELSE "read")
    /\ UNCHANGED <<Session, failed>>

\* get_file_size
ReadSize ==
    /\ job.at = "read" /\ job.cmd = "size"
    /\ VRead(job.fd, Chunk)
    /\ shown' = <<(IF shown = <<>> THEN 0 ELSE shown[1]) + Len(result'[2])>>
    /\ Goes(IF result'[2] = <<>> THEN "close" ELSE "read")
    /\ UNCHANGED <<Session, failed>>

\* print_path_lines and grep: into a buffer, until it is full.
ReadBuffer ==
    /\ job.at = "read" /\ job.cmd = "head"
    /\ VRead(job.fd, BufferMax - Len(shown))
    /\ shown' = shown \o result'[2]
    /\ Goes(IF result'[2] = <<>> \/ Len(shown') = BufferMax THEN "close" ELSE "read")
    /\ UNCHANGED <<Session, failed>>

\* append passes over what there is.
SkipToEnd ==
    /\ job.at = "read" /\ job.cmd = "append"
    /\ VRead(job.fd, Chunk)
    /\ Goes(IF result'[2] = <<>> THEN "write" ELSE "read")
    /\ UNCHANGED <<Session, shown, failed>>

WriteText ==
    /\ job.at = "write" /\ job.cmd \in {"write", "truncate", "append"}
    /\ VWrite(job.fd, job.text)
    /\ Complains(result' = Fail)
    /\ Goes("close")
    /\ UNCHANGED <<Session, shown>>

-----------------------------------------------------------------------------
(* Two files.                                                              *)

\* cp and mv need their source; cmp opens its second file in any case.
OpenSource == Starts({"cp"}) /\ Opens(job.path, ForReading, "open2", Idle)
OpenMoved == Starts({"mv"}) /\ Opens(job.path, ForReading, "open2", [job EXCEPT !.at = "unlink"])
OpenCompared == Starts({"cmp"}) /\ Opens(job.path, ForReading, "open2", [job EXCEPT !.at = "open2"])

OpenSecond ==
    /\ job.at = "open2"
    /\ VOpen(job.path2, IF job.cmd = "cmp" THEN ForReading ELSE ForWriting)
    /\ Complains(result' = Fail)
    /\ LET fd2 == IF result' = Fail THEN 0 ELSE result'[2]
       IN job' = [job EXCEPT !.fd2 = fd2,
                             !.at = IF job.fd # 0 /\ fd2 # 0 THEN "read" ELSE "close"]
    /\ UNCHANGED <<Session, shown>>

\* cp reads and writes chunk by chunk and stops at the first error.
ReadSource ==
    /\ job.at = "read" /\ job.cmd \in {"cp", "mv"}
    /\ VRead(job.fd, Chunk)
    /\ job' = [job EXCEPT !.buf = result'[2], !.at = IF result'[2] = <<>> THEN "close" ELSE "write"]
    /\ UNCHANGED <<Session, shown, failed>>

WriteCopy ==
    /\ job.at = "write" /\ job.cmd \in {"cp", "mv"}
    /\ VWrite(job.fd2, job.buf)
    /\ Complains(result' = Fail)
    /\ Goes(IF result' = Fail THEN "close" ELSE "read")
    /\ UNCHANGED <<Session, shown>>

\* cmp reads a chunk of each file.
ReadCompared ==
    /\ job.at = "read" /\ job.cmd = "cmp"
    /\ VRead(job.fd, Chunk)
    /\ job' = [job EXCEPT !.at = "compare", !.buf = result'[2]]
    /\ UNCHANGED <<Session, shown, failed>>

Compare ==
    /\ job.at = "compare"
    /\ VRead(job.fd2, Chunk)
    /\ LET same == result'[2] = job.buf
       IN /\ shown' = IF ~same THEN <<"different">> ELSE IF job.buf = <<>> THEN <<"equal">> ELSE shown
          /\ Goes(IF ~same \/ job.buf = <<>> THEN "close" ELSE "read")
    /\ UNCHANGED <<Session, failed>>

\* Mutant: cmp keeps its second file open.
NextCloseLeaks == IF job.fd2 # 0 /\ job.cmd # "cmp" THEN "close2" ELSE "done"

NextClose == IF job.fd2 # 0 THEN "close2" ELSE "done"

\* What comes when the files are closed: mv removes its source.
Done ==
    CASE job.cmd = "mv" -> [job EXCEPT !.at = "unlink"]
      [] job.cmd = "touchmany" -> NextArgument
      [] OTHER -> Idle

Close ==
    /\ job.at = "close"
    /\ IF job.fd = 0 THEN UNCHANGED vfsVars ELSE VClose(job.fd)
    /\ job' = IF NextClose = "done" THEN Done ELSE [job EXCEPT !.at = NextClose]
    /\ Complains(job.cmd = "touchmany" /\ Len(job.args) > 1 /\ Done = Idle)
    /\ UNCHANGED <<Session, shown>>

CloseSecond ==
    /\ job.at = "close2"
    /\ VClose(job.fd2)
    /\ job' = Done
    /\ UNCHANGED <<Session, shown, failed>>

\* mv removes its source whatever became of the copy.
RemoveSource ==
    /\ job.at = "unlink"
    /\ VUnlink(job.path)
    /\ Complains(result' = Fail)
    /\ job' = Idle
    /\ UNCHANGED <<Session, shown>>

Init ==
    /\ tree \in Trees /\ open \in Held /\ result = Number(0)
    /\ cwd = <<<<"r">>>> /\ job = Idle /\ shown = <<>> /\ failed = FALSE
    /\ before = [tree |-> tree, cwd |-> cwd, line |-> [cmd |-> "", args |-> <<>>, text |-> <<>>]]
    /\ commands = 0

Next ==
    \/ \E line \in Lines : Enter(line)
    \/ Cd \/ Ld \/ IsDirectory \/ Stat \/ Md \/ Rd \/ Rm \/ RmMany
    \/ OpenReader \/ Touch \/ TouchMany \/ OpenText
    \/ ReadShown \/ ReadSize \/ ReadBuffer \/ SkipToEnd \/ WriteText
    \/ OpenSource \/ OpenMoved \/ OpenCompared \/ OpenSecond \/ ReadSource \/ WriteCopy
    \/ ReadCompared \/ Compare \/ Close \/ CloseSecond \/ RemoveSource

Spec == Init /\ [][Next]_shellVars

-----------------------------------------------------------------------------
(* What a command is for.                                                  *)

\* The path that a text means in a directory: of its names those stay that no
\* later part of it climbs out of.
Denoted(dir, text) ==
    LET all == (IF text # <<>> /\ text[1] = "/" THEN <<>> ELSE dir) \o Pieces(text)
        parts == SelectSeq(all, LAMBDA p : p \notin {<<>>, <<".">>})
        Ups(i, j) == Cardinality({k \in i .. j : parts[k] = <<".", ".">>})
        Stays(i) == parts[i] # <<".", ".">> /\ \A j \in i + 1 .. Len(parts) : 2 * Ups(i + 1, j) <= j - i
        kept == SelectSeq([i \in DOMAIN parts |-> i], Stays)
    IN [k \in DOMAIN kept |-> parts[kept[k]]]

\* A text that resolve_path does not cut off.
Fits(dir, text) ==
    Len(IF text # <<>> /\ text[1] = "/" THEN text ELSE Written(dir) \o <<"/">> \o text) < MaxPath

FileOf(data) == [dir |-> FALSE, data |-> data]

\* The tree after a command that did not complain.
Intended(cmd, old, p, q, text) ==
    CASE cmd \in {"write", "truncate"} -> With(old, p, FileOf(text))
      [] cmd = "append" -> With(old, p, FileOf((IF p \in DOMAIN old THEN old[p].data ELSE <<>>) \o text))
      [] cmd = "touch" -> IF p \in DOMAIN old THEN old ELSE With(old, p, FileOf(<<>>))
      [] cmd = "cp" -> With(old, q, FileOf(old[p].data))
      [] cmd = "mv" -> With(Without(old, p), q, FileOf(old[p].data))
      [] cmd = "md" -> IF p \in DOMAIN old THEN old ELSE With(old, p, [dir |-> TRUE, data |-> <<>>])
      [] cmd \in {"rm", "rd"} -> Without(old, p)
      [] OTHER -> old

\* A command that did not complain has done to the file system exactly what it is
\* for, on the files that its arguments name from the directory it was given in,
\* and has shown the right thing; one that failed half-way has changed nothing but
\* the files it names.  Copying a file onto itself, which empties it, paths longer
\* than the buffers, which are cut off, and what cat shows of a chunk with a zero
\* byte in it are left out.  A mv that complains may have lost its file: it is one
\* of those it names.
CommandsExact ==
    LET line == before.line
        Arg(i) == Denoted(before.cwd, line.args[i])
        named == {Arg(i) : i \in DOMAIN line.args}
    IN (job.at = "idle" /\ line.args # <<>> /\ \A i \in DOMAIN line.args : Fits(before.cwd, line.args[i])) =>
         /\ \A p \in (DOMAIN tree \cup DOMAIN before.tree) \ named :
              p \in DOMAIN tree /\ p \in DOMAIN before.tree /\ tree[p] = before.tree[p]
         /\ ~failed /\ (Len(line.args) = 1 \/ (Len(line.args) = 2 /\ Arg(1) # Arg(2))) =>
              LET p == Arg(1)
                  q == Arg(Len(line.args))
                  old == before.tree
              IN /\ line.cmd \notin {"touchmany", "rmmany"} => tree = Intended(line.cmd, old, p, q, line.text)
                 /\ line.cmd = "rmmany" => tree = Restrict(old, DOMAIN old \ named)
                 /\ line.cmd = "touchmany" => DOMAIN tree = DOMAIN old \cup named
                 /\ line.cmd = "cat" /\ 0 \notin Range(old[p].data) => shown = old[p].data
                 /\ line.cmd = "stat" /\ p \in DOMAIN old => old[p].dir \/ shown = <<Len(old[p].data)>>
                 /\ line.cmd = "cmp" => shown = <<IF old[p].data = old[q].data THEN "equal" ELSE "different">>
                 /\ cwd = IF line.cmd = "cd" THEN p ELSE before.cwd

\* Whatever calls failed, the shell holds no descriptor between two commands: of
\* the few there are none is lost.
NothingLeftOpen == job.at = "idle" => open \in Held
=============================================================================
