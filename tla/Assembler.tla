------------------------------ MODULE Assembler ------------------------------
(***************************************************************************)
(* The two-pass assembler of tools/macroBuilder.  The first pass lays the  *)
(* lines out by the sizes of a table and collects the labels; the second   *)
(* encodes them, at places of its own that follow from what it emits.      *)
(***************************************************************************)
EXTENDS Integers, Sequences, FiniteSets, TLC

Low(value) == value % 256
High(value) == (value \div 256) % 256
U16(value) == <<Low(value), High(value)>>

Kind(token) == token[1]
Value(token) == token[2]

-----------------------------------------------------------------------------
Directives == {".GLOBAL", ".EXTERN", ".ENTRY", ".WORD", ".SPACE", ".BYTE"}

\* kInstrSizes
InstrSizes ==
    [NOP |-> 1, HALT |-> 1, RET |-> 1, LOADI |-> 4, LOAD |-> 4, STORE |-> 4, ADD |-> 3,
     SUB |-> 3, MUL |-> 3, DIV |-> 3, MOV |-> 3, JMP |-> 3, JZ |-> 4, JNZ |-> 4, PRINT |-> 2]

\* opmap
Opcodes ==
    [NOP |-> 0, HALT |-> 1, RET |-> 2, LOADI |-> 16, LOAD |-> 17, STORE |-> 18, ADD |-> 32,
     SUB |-> 33, MUL |-> 34, DIV |-> 35, MOV |-> 36, JMP |-> 48, JZ |-> 49, JNZ |-> 50, PRINT |-> 64]

\* What the first pass adds to pc for a line; a line that is a label only has
\* no operation.
SizeOf(line) ==
    CASE line.op \in {"", ".GLOBAL", ".EXTERN", ".ENTRY"} -> 0
      [] line.op = ".WORD" -> 2
      [] line.op = ".BYTE" -> 1
      [] line.op = ".SPACE" -> Value(line.args[1])
      [] OTHER -> InstrSizes[line.op]

\* pc before each line, and after the last one.
Layout(lines) ==
    LET pc[i \in 1 .. Len(lines) + 1] == IF i = 1 THEN 0 ELSE pc[i - 1] + SizeOf(lines[i - 1])
    IN pc

Labelled(lines) == {i \in DOMAIN lines : Kind(lines[i].label) # "none"}

\* The first pass's errors: a label twice, a directive without its operand or
\* an operation that is not in the table.
FirstPassOk(lines) ==
    /\ \A i, j \in Labelled(lines) : lines[i].label = lines[j].label => i = j
    /\ \A i \in DOMAIN lines :
         /\ lines[i].op \in {""} \cup Directives \cup DOMAIN InstrSizes
         /\ lines[i].op \in {".GLOBAL", ".EXTERN", ".SPACE"} => lines[i].args # <<>>

SymbolsOf(lines) ==
    LET labels == {Value(lines[i].label) : i \in Labelled(lines)}
        lineOf(name) == CHOOSE i \in Labelled(lines) : Value(lines[i].label) = name
    IN [name \in labels |-> Layout(lines)[lineOf(name)]]

Named(lines, directive) ==
    {Value(lines[i].args[1]) : i \in {j \in DOMAIN lines : lines[j].op = directive}}

-----------------------------------------------------------------------------
\* What each operation takes: registers, a number, an address.
Operands(op) ==
    CASE op \in {"NOP", "HALT", "RET"} -> <<>>
      [] op = "PRINT" -> <<"reg">>
      [] op \in {"ADD", "SUB", "MUL", "DIV", "MOV"} -> <<"reg", "reg">>
      [] op = "LOADI" -> <<"reg", "num">>
      [] op \in {"LOAD", "STORE", "JZ", "JNZ"} -> <<"reg", "addr">>
      [] op = "JMP" -> <<"addr">>
      [] op \in {".WORD"} -> <<"addr">>
      [] op \in {".BYTE"} -> <<"num">>
      [] OTHER -> <<>>

\* reg_index, parse_number and emit_symbol_u16 refuse what they cannot take.
Accepted(token, operand, known) ==
    CASE operand = "reg" -> Kind(token) = "reg" /\ Value(token) \in 0 .. 7
      [] operand = "num" -> Kind(token) = "num"
      [] operand = "addr" ->
           \/ Kind(token) = "num"
           \/ Kind(token) = "sym" /\ Value(token) \in known

\* The second pass's errors.  The operations without operands and the
\* directives ignore further operands; the others count them.
SecondPassOk(line, symbols, known) ==
    LET wants == Operands(line.op)
        exact == line.op \in DOMAIN Opcodes /\ wants # <<>>
    IN /\ IF exact THEN Len(line.args) = Len(wants) ELSE Len(line.args) >= Len(wants)
       /\ \A k \in DOMAIN wants : Accepted(line.args[k], wants[k], known)
       /\ line.op = ".ENTRY" => (line.args # <<>> /\ Value(line.args[1]) \in symbols)

\* The bytes of one operand; a symbol's are its value in this module, or 0.
OperandBytes(token, operand, symbols) ==
    CASE operand = "reg" -> <<Value(token)>>
      [] operand \in {"num", "addr"} /\ Kind(token) = "num" -> U16(Value(token))
      [] OTHER -> IF Value(token) \in DOMAIN symbols THEN U16(symbols[Value(token)]) ELSE U16(0)

RECURSIVE OperandsFrom(_, _, _, _)
OperandsFrom(args, wants, symbols, k) ==
    IF k > Len(wants) THEN <<>>
    ELSE OperandBytes(args[k], wants[k], symbols) \o OperandsFrom(args, wants, symbols, k + 1)

\* encode_instruction and the directives that emit bytes.
Encode(line, symbols) ==
    CASE line.op = ".SPACE" -> [k \in 1 .. Value(line.args[1]) |-> 0]
      [] line.op = ".BYTE" -> <<Low(Value(line.args[1]))>>
      [] line.op = ".WORD" -> OperandsFrom(line.args, <<"addr">>, symbols, 1)
      [] line.op \in DOMAIN Opcodes ->
           <<Opcodes[line.op]>> \o OperandsFrom(line.args, Operands(line.op), symbols, 1)
      [] OTHER -> <<>>

\* The operands that emit_symbol_u16 is called for, each of which it enters in
\* the relocation table, defined here or not.
Relocated(line) ==
    {k \in DOMAIN Operands(line.op) :
       Operands(line.op)[k] = "addr" /\ Kind(line.args[k]) = "sym"}

\* Bytes of a line before its operand k.
OperandAt(line, symbols, k) ==
    (IF line.op \in DOMAIN Opcodes THEN 1 ELSE 0)
      + Len(OperandsFrom(line.args, SubSeq(Operands(line.op), 1, k - 1), symbols, 1))

\* The second pass: the bytes, and the relocations at the places where they
\* were emitted.
RECURSIVE SecondPass(_, _, _)
SecondPass(lines, symbols, pc) ==
    IF lines = <<>> THEN [code |-> <<>>, relocs |-> {}]
    ELSE LET line == Head(lines)
             bytes == Encode(line, symbols)
             rest == SecondPass(Tail(lines), symbols, pc + Len(bytes))
         IN [code |-> bytes \o rest.code,
             relocs |-> rest.relocs \cup
                          {[offset |-> pc + OperandAt(line, symbols, k), symbol |-> Value(line.args[k])]
                           : k \in Relocated(line)}]

NoObject == [ok |-> FALSE]

\* assemble_lines
Assemble(lines) ==
    IF ~FirstPassOk(lines) THEN NoObject
    ELSE
      LET symbols == SymbolsOf(lines)
          externs == Named(lines, ".EXTERN")
          globals == Named(lines, ".GLOBAL")
          size == Layout(lines)[Len(lines) + 1]
          entries == {i \in DOMAIN lines : lines[i].op = ".ENTRY"}
          second == SecondPass(lines, symbols, 0)
      IN IF \/ \E i \in DOMAIN lines :
                 ~SecondPassOk(lines[i], DOMAIN symbols, DOMAIN symbols \cup externs)
            \/ ~(globals \subseteq DOMAIN symbols)
         THEN NoObject
         ELSE [ok |-> TRUE,
               size |-> size,
               code |-> [a \in 0 .. size - 1 |-> IF a < Len(second.code) THEN second.code[a + 1] ELSE 0],
               symbols |-> symbols,
               globals |-> globals,
               entry |-> IF entries = {} THEN 0
                         ELSE symbols[Value(lines[CHOOSE i \in entries : \A j \in entries : j <= i].args[1])],
               relocs |-> second.relocs]
=============================================================================
