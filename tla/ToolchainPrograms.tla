-------------------------- MODULE ToolchainPrograms --------------------------
(* Programs for the tools to build.  The main source has nested macro       *)
(* definitions and two lines that vary over every operation, calls and      *)
(* mistakes included; the library exports a word, and sometimes a second    *)
(* name or too much.                                                        *)
EXTENDS Integers, Sequences

NoLabel == <<"none">>
L(op, args) == [label |-> NoLabel, op |-> op, args |-> args]
At(name, op, args) == [label |-> <<"sym", name>>, op |-> op, args |-> args]

R(n) == <<"reg", n>>
N(n) == <<"num", n>>
S(name) == <<"sym", name>>
P(name) == <<"par", name>>

\* FLIP hands its parameters on crosswise to a macro with the same names.
Flip ==
    <<L("MACRO", <<S("FLIP"), S("x"), S("y")>>),
      L("MINUS", <<P("y"), P("x")>>),
      L("MEND", <<>>)>>

Macros ==
    <<L("MACRO", <<S("TWICE"), S("x")>>),
      L("MACRO", <<S("SHOW"), S("y")>>),
      L("PRINT", <<P("y")>>),
      L("MEND", <<>>),
      L("ADD", <<P("x"), P("x")>>),
      L("SHOW", <<P("x")>>),
      L("MEND", <<>>),
      L("MACRO", <<S("MINUS"), S("x"), S("y")>>),
      L("SUB", <<P("x"), P("y")>>),
      L("MEND", <<>>),
      L("MACRO", <<S("LESS"), S("u"), S("v")>>),
      L("MINUS", <<P("v"), P("u")>>),
      L("MEND", <<>>),
      L("MACRO", <<S("LOOP"), S("x")>>),
      L("LOOP", <<P("x")>>),
      L("MEND", <<>>)>>

Steps ==
    {L("NOP", <<>>), L("RET", <<>>), L("LOADI", <<R(0), N(65535)>>), L("LOADI", <<R(1), N(-3)>>),
     L("LOAD", <<R(0), S("value")>>), L("LOAD", <<R(1), S("data")>>), L("STORE", <<R(0), S("data")>>),
     L("STORE", <<R(1), S("value")>>), L("ADD", <<R(0), R(1)>>), L("SUB", <<R(1), R(0)>>),
     L("MUL", <<R(0), R(0)>>), L("DIV", <<R(0), R(1)>>), L("MOV", <<R(1), R(0)>>),
     L("JMP", <<S("done")>>), L("JZ", <<R(0), S("done")>>), L("JNZ", <<R(0), S("start")>>),
     L("JMP", <<S("value")>>), L("JMP", <<N(47)>>),
     L("TWICE", <<R(0)>>), L("SHOW", <<R(1)>>), L("MINUS", <<R(0), R(1)>>), L("FLIP", <<R(0), R(1)>>),
     L("LESS", <<R(0), R(1)>>), L(".GLOBAL", <<S("start")>>),
     L("LOOP", <<R(0)>>), L("TWICE", <<R(0), R(1)>>), L("HCF", <<>>), L("ADD", <<R(0)>>), L("JMP", <<S("other")>>),
     At("start", "NOP", <<>>), At("x", "TWICE", <<R(0)>>), L("JMP", <<S("mine")>>)}

Main(a, b) ==
    <<L(".EXTERN", <<S("value")>>), L(".EXTERN", <<S("other")>>), L(".ENTRY", <<S("start")>>)>> \o Macros \o
    (IF "FLIP" \in {a.op, b.op} THEN Flip ELSE <<>>) \o
    <<At("data", ".WORD", <<N(300)>>), At("start", "", <<>>), L("LOAD", <<R(0), S("value")>>),
      a, b, At("done", "PRINT", <<R(0)>>), L("HALT", <<>>)>>

\* A word after an odd number of bytes; a name of main's own exported too; no
\* definition of what is exported; an exported routine.
Aligned == <<L(".GLOBAL", <<S("value")>>), At("mine", ".BYTE", <<N(1)>>), At("value", "", <<>>), L(".WORD", <<N(21)>>)>>
Shared == <<L(".GLOBAL", <<S("value")>>), L(".GLOBAL", <<S("start")>>), At("value", ".WORD", <<S("start")>>),
            L(".SPACE", <<N(2)>>), At("start", "LOAD", <<R(0), S("value")>>), L("SHOW", <<R(0)>>), L("RET", <<>>)>>
Missing == <<L(".GLOBAL", <<S("value")>>), At("start", ".WORD", <<N(1)>>), L("SHOW", <<R(0)>>)>>

Build(a, b, lib, mode, load, entry) ==
    [sources |-> <<Main(a, b), lib>>, stems |-> <<"main", "lib">>, mode |-> mode, load |-> load, entry |-> entry]

\* Registers only, so that no address is patched.
Calculation(a, b) ==
    [sources |-> <<<<L("LOADI", <<R(0), N(300)>>), a, b, L("PRINT", <<R(0)>>), L("HALT", <<>>)>>>>,
     stems |-> <<"main">>, mode |-> "absolute", load |-> 5, entry |-> ""]
Calculated == {s \in Steps : s.op \in {"NOP", "RET", "LOADI", "ADD", "SUB", "MUL", "DIV", "MOV"}}

Nop == L("NOP", <<>>)

MCPrograms ==
    {Build(a, b, c[1], c[2], c[3], c[4]) : a \in Steps, b \in Steps,
       c \in {<<Aligned, "relocatable", 5, "">>, <<Aligned, "absolute", 0, "">>,
              <<Aligned, "relocatable", 40, "">>, <<Shared, "relocatable", 3, "">>,
              <<Shared, "relocatable", 0, "start">>, <<Aligned, "relocatable", 0, "done">>,
              <<Missing, "absolute", 0, "">>}}
      \cup {Build(a, Nop, Aligned, "absolute", 5, "") : a \in Steps}
      \cup {Calculation(a, b) : a \in Calculated, b \in Calculated}
      \cup {Build(Nop, Nop, Aligned, "static", 0, "")}
      \cup {[Calculation(Nop, Nop) EXCEPT !.sources = <<@[1], lib>>, !.stems = <<"main", "main">>]
              : lib \in {Aligned, <<L("HALT", <<>>)>>}}
=============================================================================
