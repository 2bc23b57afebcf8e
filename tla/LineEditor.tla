----------------------------- MODULE LineEditor -----------------------------
(***************************************************************************)
(* The line the shell reads (kernel/shell.cpp, run and the history): keys  *)
(* change a buffer that is ended by a zero only when the line is entered,  *)
(* so what earlier lines left behind the cursor is still in it.            *)
(***************************************************************************)
EXTENDS Integers, Sequences, SequencesExt

CONSTANTS
    Keys,       \* characters that are typed
    MaxLine,    \* kMaxLine
    Capacity,   \* kHistoryCapacity
    MaxLines    \* bound of the model: lines that are entered

VARIABLES
    buffer,     \* line, with "" for a zero
    pos,
    ring,       \* g_history
    count,      \* g_history_count
    view,       \* g_history_view
    draft,      \* g_history_draft, up to its zero
    screen,     \* what is on the terminal behind the prompt
    entered,    \* history: the lines entered so far
    run         \* history: the line last handed to parse_args, as shown and as read

editVars == <<buffer, pos, ring, count, view, draft, screen, entered, run>>

\* A string in a buffer.
TextIn(b) ==
    LET zero == SelectInSeq(b, LAMBDA c : c = "")
    IN SubSeq(b, 1, IF zero = 0 THEN Len(b) ELSE zero - 1)

\* copy_text: the string and its zero.
CopyText(b, text) ==
    LET n == IF Len(text) < MaxLine THEN Len(text) ELSE MaxLine - 1
    IN [i \in 1 .. MaxLine |-> IF i <= n THEN text[i] ELSE IF i = n + 1 THEN "" ELSE b[i]]

HistorySize == IF count < Capacity THEN count ELSE Capacity

\* Mutant: the oldest line is always in the first slot.
HistoryAtUnrotated(index) == ring[index % Capacity]

HistoryAt(index) ==
    LET start == IF count < Capacity THEN 0 ELSE count % Capacity
    IN ring[(start + index) % Capacity]

-----------------------------------------------------------------------------
EditInit ==
    /\ buffer = [i \in 1 .. MaxLine |-> ""] /\ pos = 0
    /\ ring = [i \in 0 .. Capacity - 1 |-> <<>>] /\ count = 0 /\ view = -1 /\ draft = <<>>
    /\ screen = <<>> /\ entered = <<>> /\ run = [shown |-> <<>>, read |-> <<>>]

Browse == <<ring, count, view, draft, entered, run>>

\* A full buffer takes no more characters, and none is echoed.
Type(key) ==
    /\ IF pos + 1 < MaxLine
       THEN /\ buffer' = [buffer EXCEPT ![pos + 1] = key]
            /\ pos' = pos + 1
            /\ screen' = Append(screen, key)
       ELSE UNCHANGED <<buffer, pos, screen>>
    /\ UNCHANGED Browse

Backspace ==
    /\ pos > 0
    /\ pos' = pos - 1
    /\ screen' = Front(screen)
    /\ UNCHANGED <<buffer, Browse>>

\* The line becomes text and is drawn again.
Redraw(text) ==
    /\ buffer' = CopyText(buffer, text)
    /\ pos' = Len(TextIn(buffer'))
    /\ screen' = SubSeq(buffer', 1, pos')

\* history_move_up: on the way into the history the line is put aside, as far as
\* a zero in the buffer.
Up ==
    /\ HistorySize > 0
    /\ view' = IF view < 0 THEN HistorySize - 1 ELSE IF view > 0 THEN view - 1 ELSE view
    /\ draft' = IF view < 0 THEN TextIn(buffer) ELSE draft
    /\ Redraw(HistoryAt(view'))
    /\ UNCHANGED <<ring, count, entered, run>>

Down ==
    /\ HistorySize > 0 /\ view >= 0
    /\ view' = IF view + 1 < HistorySize THEN view + 1 ELSE -1
    /\ Redraw(IF view' < 0 THEN draft ELSE HistoryAt(view'))
    /\ UNCHANGED <<ring, count, draft, entered, run>>

\* Mutant: the line is read as far as the zero that is in the buffer.
LineReadUnended == TextIn(buffer)

\* line[pos] = '\0'
LineRead == TextIn([buffer EXCEPT ![pos + 1] = ""])

\* What parse_args leaves of a line: a zero in place of the blank behind a word.
Split(b) ==
    [i \in DOMAIN b |-> IF i \in 2 .. Len(TextIn(b)) /\ b[i] = " " /\ b[i - 1] # " " THEN "" ELSE b[i]]

\* A line is entered: repeated lines are kept once, and the line is taken apart
\* where it is.  The next line begins with a zero in front.
Enter ==
    /\ Len(entered) < MaxLines
    /\ LET line == LineRead
           repeated == count > 0 /\ HistoryAt(HistorySize - 1) = line
       IN /\ buffer' = [Split([buffer EXCEPT ![pos + 1] = ""]) EXCEPT ![1] = ""]
          /\ IF pos = 0 \/ line = <<>> \/ repeated THEN UNCHANGED <<ring, count>>
             ELSE /\ ring' = [ring EXCEPT ![count % Capacity] = line]
                  /\ count' = count + 1
          /\ entered' = IF pos = 0 THEN entered ELSE Append(entered, screen)
          /\ run' = IF pos = 0 THEN run ELSE [shown |-> screen, read |-> line]
    /\ pos' = 0 /\ screen' = <<>> /\ view' = -1 /\ draft' = <<>>

EditNext == (\E key \in Keys : Type(key)) \/ Backspace \/ Up \/ Down \/ Enter

EditSpec == EditInit /\ [][EditNext]_editVars

-----------------------------------------------------------------------------
\* Lines without their immediate repetitions.
Distinct(lines) ==
    LET first == SelectSeq([i \in DOMAIN lines |-> i], LAMBDA i : i = 1 \/ lines[i - 1] # lines[i])
    IN [k \in DOMAIN first |-> lines[first[k]]]

\* The shell carries out the line that the terminal shows, whatever was typed,
\* taken back or recalled before; and the history holds the last lines that were
\* entered, oldest first, whatever slots of the ring they are in.
LinesExact ==
    LET lines == Distinct(entered)
    IN /\ screen = SubSeq(buffer, 1, pos)
       /\ run.read = run.shown
       /\ HistorySize = IF Len(lines) < Capacity THEN Len(lines) ELSE Capacity
       /\ \A i \in 0 .. HistorySize - 1 : HistoryAt(i) = lines[Len(lines) - HistorySize + 1 + i]
=============================================================================
