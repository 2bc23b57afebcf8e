------------------------------ MODULE Toolchain ------------------------------
(***************************************************************************)
(* "build ... --run" of tools/macroBuilder: each source is expanded and    *)
(* assembled, the objects are linked and the image is loaded and executed. *)
(* Beside the virtual machine runs a reader of the source: it executes the *)
(* expanded lines themselves, with labels for places and no addresses.     *)
(* The JSON files between the stages hold what the stages hand over.       *)
(***************************************************************************)
EXTENDS MacroProcessor, Linker

CONSTANTS
    Programs,   \* what is built: sources and the stems of their file names, mode,
                \* load address and --entry symbol
    MemSize,    \* size of the machine's memory, 65536 in the code
    MaxSteps    \* --max-steps

VARIABLES
    program, order,
    status,     \* "building", "linked", "running", "exited", "failed" or "undefined"
    macros,     \* macros_ of the one MacroProcessor
    expanded,   \* the expanded sources so far
    objects,    \* and what the object files hold that will be linked
    image,
    base, mem, regs, pc, steps, printed, exitCode,  \* run_image
    reader      \* the reader of the source

vars == <<program, order, status, macros, expanded, objects, image,
          base, mem, regs, pc, steps, printed, exitCode, reader>>
buildVars == <<macros, expanded, objects, image>>
vmVars == <<base, mem, regs, pc, steps, printed, exitCode, reader>>

Registers == 0 .. 7
W == 65536

\* A product modulo 2^16, with no intermediate value above 2^31.
Times(a, b) == (a * (b % 256) + 256 * ((a * (b \div 256)) % W)) % W

-----------------------------------------------------------------------------
(* The reader: what the lines mean.                                        *)

\* Bytes that a line takes up: an operation, its registers and its words.
Width(line) ==
    CASE line.op \in {"NOP", "HALT", "RET", ".BYTE"} -> 1
      [] line.op \in {"PRINT", ".WORD"} -> 2
      [] line.op \in {"ADD", "SUB", "MUL", "DIV", "MOV", "JMP"} -> 3
      [] line.op \in {"LOADI", "LOAD", "STORE", "JZ", "JNZ"} -> 4
      [] line.op = ".SPACE" -> Value(line.args[1])
      [] OTHER -> 0

Places == UNION {{<<m, i>> : i \in DOMAIN expanded[m]} : m \in DOMAIN expanded}
LineAt(place) == expanded[place[1]][place[2]]
Precedes(p, q) == p[1] < q[1] \/ (p[1] = q[1] /\ p[2] < q[2])

RECURSIVE SumOver(_)
SumOver(places) ==
    IF places = {} THEN 0
    ELSE LET p == CHOOSE p \in places : TRUE IN Width(LineAt(p)) + SumOver(places \ {p})

\* Where the loader has put a line.
Where(place) == base + SumOver({p \in Places : Precedes(p, place)})

\* The first line from a place on that takes up room; none after the last.
Nowhere == <<0, 0>>
Settle(place) ==
    LET here == {p \in Places : ~Precedes(p, place) /\ Width(LineAt(p)) > 0}
    IN IF here = {} THEN Nowhere ELSE CHOOSE p \in here : \A q \in here : ~Precedes(q, p)

After(place) == Settle(<<place[1], place[2] + 1>>)

Exports(m, name) == \E i \in DOMAIN expanded[m] :
    expanded[m][i].op = ".GLOBAL" /\ expanded[m][i].args[1] = <<"sym", name>>

LabelPlaces(name) == {p \in Places : LineAt(p).label = <<"sym", name>>}

\* The places a name may stand for in module m: its own label, else the labels
\* that other modules export.
Meanings(m, name) ==
    LET own == {p \in LabelPlaces(name) : p[1] = m}
    IN IF own # {} THEN own ELSE {p \in LabelPlaces(name) : Exports(p[1], name)}

Meaning(m, token) == CHOOSE p \in Meanings(m, Value(token)) : TRUE

\* The value of a word of data: a number, or the address of a line.
WordAt(place) ==
    LET token == LineAt(place).args[1]
    IN (IF Kind(token) = "num" THEN Value(token) ELSE Where(Meaning(place[1], token))) % W

DataPlaces == {p \in Places : LineAt(p).op = ".WORD"}

\* Where reading begins.
Entry ==
    LET entries == {i \in DOMAIN expanded[1] : expanded[1][i].op = ".ENTRY"}
        last == CHOOSE i \in entries : \A j \in entries : j <= i
    IN IF program.entry # ""
       THEN CHOOSE p \in LabelPlaces(program.entry) : Exports(p[1], program.entry)
       ELSE IF entries = {} THEN <<1, 1>> ELSE Meaning(1, expanded[1][last].args[1])

\* One line read.  Lines that only the layout gives a meaning to (data, or an
\* address given as a number) are read as "undefined".
Goto(r, place) == [r EXCEPT !.at = place, !.status = IF place = Nowhere THEN "undefined" ELSE @]
Assign(r, reg, value) == Goto([r EXCEPT !.regs[reg] = value % W], After(r.at))

Read(r) ==
    LET line == LineAt(r.at)
        a == IF line.args # <<>> /\ Kind(line.args[1]) = "reg" THEN Value(line.args[1]) ELSE 0
        b == IF Len(line.args) > 1 /\ Kind(line.args[2]) = "reg" THEN Value(line.args[2]) ELSE 0
        last == line.args[Len(line.args)]
        named == line.args # <<>> /\ Kind(last) = "sym"
        place == Settle(Meaning(r.at[1], last))
        isData == named /\ place \in DataPlaces
        undefined == [r EXCEPT !.status = "undefined"]
    IN CASE line.op = "NOP" -> Goto(r, After(r.at))
         [] line.op = "HALT" -> [r EXCEPT !.status = "exited"]
         [] line.op = "RET" -> [r EXCEPT !.status = "exited", !.exit = r.regs[0] % 256]
         [] line.op = "LOADI" -> Assign(r, a, Value(last))
         [] line.op = "LOAD" -> IF isData THEN Assign(r, a, r.words[place]) ELSE undefined
         [] line.op = "STORE" ->
              IF isData THEN Goto([r EXCEPT !.words[place] = r.regs[a]], After(r.at)) ELSE undefined
         [] line.op = "ADD" -> Assign(r, a, r.regs[a] + r.regs[b])
         [] line.op = "SUB" -> Assign(r, a, r.regs[a] - r.regs[b])
         [] line.op = "MUL" -> Assign(r, a, Times(r.regs[a], r.regs[b]))
         [] line.op = "DIV" -> IF r.regs[b] = 0 THEN [r EXCEPT !.status = "failed"]
                               ELSE Assign(r, a, r.regs[a] \div r.regs[b])
         [] line.op = "MOV" -> Assign(r, a, r.regs[b])
         [] line.op = "JMP" -> IF named THEN Goto(r, place) ELSE undefined
         [] line.op = "JZ" -> IF r.regs[a] # 0 THEN Goto(r, After(r.at))
                              ELSE IF named THEN Goto(r, place) ELSE undefined
         [] line.op = "JNZ" -> IF r.regs[a] = 0 THEN Goto(r, After(r.at))
                               ELSE IF named THEN Goto(r, place) ELSE undefined
         [] line.op = "PRINT" -> Goto([r EXCEPT !.printed = Append(@, r.regs[a])], After(r.at))
         [] OTHER -> undefined

-----------------------------------------------------------------------------
(* The tools.                                                              *)

Idle == [at |-> Nowhere, status |-> "idle", exit |-> 0,
         regs |-> [r \in Registers |-> 0], words |-> <<>>, printed |-> <<>>]

Init ==
    /\ program \in Programs
    /\ order \in Orders
    /\ status = "building"
    /\ macros = <<>> /\ expanded = <<>> /\ objects = <<>> /\ image = NoImage
    /\ base = 0 /\ mem = <<>> /\ pc = 0 /\ steps = 0 /\ printed = <<>> /\ exitCode = 0
    /\ regs = [r \in Registers |-> 0]
    /\ reader = Idle

\* process_file and assemble_file of the next source; macros are kept from one
\* source to the next.  The object file has the source's stem for a name, so it
\* replaces that of an earlier source with the same stem.
BuildSource ==
    /\ status = "building" /\ Len(objects) < Len(program.sources)
    /\ LET n == Len(objects) + 1
           text == ProcessLines(program.sources[n], macros, order)
           object == Assemble(text.out)
       IN IF text.ok /\ object.ok
          THEN /\ macros' = text.macros
               /\ expanded' = Append(expanded, text.out)
               /\ objects' = [i \in 1 .. n |-> IF program.stems[i] = program.stems[n] THEN object ELSE objects[i]]
               /\ UNCHANGED status
          ELSE /\ status' = "failed"
               /\ UNCHANGED <<macros, expanded, objects>>
    /\ UNCHANGED <<program, order, image, vmVars>>

\* link_files
LinkFiles ==
    /\ status = "building" /\ Len(objects) = Len(program.sources)
    /\ image' = LinkModules(objects, program.mode, program.load, program.entry)
    /\ status' = IF image'.ok THEN "linked" ELSE "failed"
    /\ UNCHANGED <<program, order, macros, expanded, objects, vmVars>>

ReadU16(data, at) == data[at] + 256 * data[at + 1]

RECURSIVE Relocate(_, _, _)
Relocate(code, places, by) ==
    IF places = {} THEN code
    ELSE LET at == CHOOSE at \in places : TRUE
         IN Relocate(Patch(code, at, ReadU16(code, at) + by), places \ {at}, by)

\* The loader in run_image, up to the first instruction.  A relocatable image
\* is moved to the load address given to exec.
LoadImage ==
    /\ status = "linked"
    /\ base' = IF image.mode = "absolute" THEN image.loadAddress ELSE program.load
    /\ LET code == IF image.mode = "absolute" THEN image.code
                   ELSE Relocate(image.code, image.relocs, base')
           size == Cardinality(DOMAIN code)
       IN IF base' < 0 \/ base' + size > MemSize
          THEN status' = "failed" /\ UNCHANGED <<mem, pc>>
          ELSE /\ status' = "running"
               /\ mem' = [a \in 0 .. MemSize - 1 |->
                            IF a - base' \in DOMAIN code THEN code[a - base'] ELSE 0]
               /\ pc' = image.entry + IF image.mode = "relocatable" THEN base' ELSE 0
    /\ UNCHANGED <<program, order, buildVars, regs, steps, printed, exitCode, reader>>

\* The reader opens the program when the machine is about to start it.
StartReader ==
    /\ status = "running" /\ reader.status = "idle"
    /\ reader' = [Idle EXCEPT !.at = Settle(Entry),
                              !.status = IF Settle(Entry) = Nowhere THEN "undefined" ELSE "running",
                              !.words = [p \in DataPlaces |-> WordAt(p)]]
    /\ UNCHANGED <<program, order, status, buildVars, base, mem, regs, pc, steps, printed, exitCode>>

-----------------------------------------------------------------------------
(* The machine: the loop of run_image, one instruction per step.           *)

Length(op) ==
    CASE op \in {0, 1, 2} -> 1
      [] op = 64 -> 2
      [] op \in {32, 33, 34, 35, 36, 48} -> 3
      [] op \in {16, 17, 18, 49, 50} -> 4
      [] OTHER -> 1

Op == mem[pc]
RegA == mem[pc + 1]
RegB == mem[pc + 2]
WordOf(n) == ReadU16(mem, pc + n)

\* The instruction lies in memory, its registers exist and so does the word it
\* reads or writes; otherwise the vectors are indexed out of range.
Defined ==
    /\ pc \in 0 .. MemSize - 1 /\ pc + Length(Op) <= MemSize
    /\ Op \in {16, 17, 18, 32, 33, 34, 35, 36, 49, 50, 64} => RegA \in Registers
    /\ Op \in {32, 33, 34, 35, 36} => RegB \in Registers
    /\ Op \in {17, 18} => WordOf(2) + 1 < MemSize

Fetch ==
    /\ status = "running" /\ reader.status # "idle" /\ steps < MaxSteps
    /\ steps' = steps + 1
    /\ reader' = IF reader.status = "running" THEN Read(reader) ELSE reader
    /\ UNCHANGED <<program, order, buildVars, base>>

Advance == pc' = pc + Length(Op)

Stop(why) == status' = why /\ UNCHANGED <<mem, regs, pc, printed>>

Nop == Op = 0 /\ Advance /\ UNCHANGED <<status, mem, regs, printed, exitCode>>

Halt == Op = 1 /\ Stop("exited") /\ exitCode' = 0
Ret == Op = 2 /\ Stop("exited") /\ exitCode' = regs[0] % 256

\* LOADI, LOAD, ADD, SUB, MUL, DIV and MOV.
Result ==
    CASE Op = 16 -> WordOf(2)
      [] Op = 17 -> ReadU16(mem, WordOf(2))
      [] Op = 32 -> (regs[RegA] + regs[RegB]) % W
      [] Op = 33 -> (regs[RegA] - regs[RegB]) % W
      [] Op = 34 -> Times(regs[RegA], regs[RegB])
      [] Op = 35 -> (regs[RegA] \div regs[RegB]) % W
      [] OTHER -> regs[RegB]

Compute ==
    /\ Op \in {16, 17, 32, 33, 34, 36} \/ (Op = 35 /\ regs[RegB] # 0)
    /\ regs' = [regs EXCEPT ![RegA] = Result]
    /\ Advance /\ UNCHANGED <<status, mem, printed, exitCode>>

DivideByZero ==
    /\ Op = 35 /\ regs[RegB] = 0
    /\ Stop("failed") /\ UNCHANGED exitCode

Store ==
    /\ Op = 18
    /\ mem' = Patch(mem, WordOf(2), regs[RegA])
    /\ Advance /\ UNCHANGED <<status, regs, printed, exitCode>>

\* Mutant: the test of JZ and JNZ is the same.
JumpTakenSame ==
    \/ Op = 48
    \/ Op \in {49, 50} /\ regs[RegA] = 0

JumpTaken ==
    \/ Op = 48
    \/ Op = 49 /\ regs[RegA] = 0
    \/ Op = 50 /\ regs[RegA] # 0

Jump ==
    /\ Op \in {48, 49, 50}
    /\ pc' = IF JumpTaken THEN (IF Op = 48 THEN WordOf(1) ELSE WordOf(2)) ELSE pc + Length(Op)
    /\ UNCHANGED <<status, mem, regs, printed, exitCode>>

PrintRegister ==
    /\ Op = 64
    /\ printed' = Append(printed, regs[RegA])
    /\ Advance /\ UNCHANGED <<status, mem, regs, exitCode>>

BadOpcode ==
    /\ Op \notin {0, 1, 2, 16, 17, 18, 32, 33, 34, 35, 36, 48, 49, 50, 64}
    /\ Stop("failed") /\ UNCHANGED exitCode

Execute ==
    /\ Fetch /\ Defined
    /\ \/ Nop \/ Halt \/ Ret \/ Compute \/ DivideByZero \/ Store \/ Jump \/ PrintRegister
       \/ BadOpcode

\* Past the end of memory, or with a register that does not exist, what the
\* machine does is undefined; nothing is said about it from there on.
LeaveMemory ==
    /\ Fetch /\ ~Defined
    /\ Stop("undefined") /\ UNCHANGED exitCode

StepLimit ==
    /\ status = "running" /\ reader.status # "idle" /\ steps >= MaxSteps
    /\ Stop("failed")
    /\ reader' = [reader EXCEPT !.status = IF @ = "running" THEN "failed" ELSE @]
    /\ UNCHANGED <<program, order, buildVars, base, steps, exitCode>>

Done == status \in {"exited", "failed", "undefined"} /\ UNCHANGED vars

Next ==
    \/ BuildSource \/ LinkFiles \/ LoadImage \/ StartReader
    \/ Execute \/ LeaveMemory \/ StepLimit \/ Done

Spec == Init /\ [][Next]_vars

-----------------------------------------------------------------------------
Reading == reader.status \notin {"idle", "undefined"}

\* The machine is at the line where the reader is, with the same registers, the
\* same words of data and the same output, or stopped where and as the reader.
Agrees ==
    /\ status = reader.status /\ exitCode = reader.exit
    /\ status = "running" => pc = Where(reader.at)
    /\ regs = reader.regs /\ printed = reader.printed
    /\ \A p \in DataPlaces : ReadU16(mem, Where(p)) = reader.words[p]

\* Every source has an object file of its own.
StemsApart == \A i, j \in DOMAIN program.stems : i # j => program.stems[i] # program.stems[j]

\* The words that the linker patched hold the addresses at which the code is:
\* the loader has moved them with it, or it is at 0, or there are none.
InPlace ==
    \/ image.mode = "relocatable" \/ base = 0
    \/ \A m \in DOMAIN objects : objects[m].relocs = {}

\* What the machine does is what the lines say, at every instruction and at the
\* end: the two passes' layouts, symbols across modules, relocation and the
\* loader all have to agree for that.  Two cases are left out, because the code
\* does otherwise: sources with the same stem, and absolute images at another
\* address than 0 in which addresses are patched (AbsoluteRunsAsWritten).
RunsAsWritten == Reading /\ StemsApart /\ InPlace => Agrees

\* An absolute image, linked for a known load address, does what its lines say:
\* "ligação + relocação completa (ligador-relocador, endereço de carga conhecido)"
\* is what the build guide promises, and the README runs one at 0x1000.
AbsoluteRunsAsWritten == Reading /\ StemsApart /\ image.mode = "absolute" => Agrees

\* The names that lines use as addresses.
Uses == {<<p[1], Value(LineAt(p).args[k])>> : <<p, k>> \in
           {<<q, j>> \in Places \X (1 .. 2) :
              /\ j \in DOMAIN Operands(LineAt(q).op) /\ Operands(LineAt(q).op)[j] = "addr"
              /\ Kind(LineAt(q).args[j]) = "sym"}}

Exporters(name) == {m \in DOMAIN expanded : Exports(m, name)}
ExportedNames == {Value(LineAt(p).args[1]) : p \in {q \in Places : LineAt(q).op = ".GLOBAL"}}

\* An image is made exactly when the mode exists and every name has one meaning:
\* a name that is used is the module's own or exported by one module, none is
\* exported by two, and the entry symbol is exported; of sources with different
\* stems, again.
LinksIfUnambiguous ==
    LET unambiguous ==
          /\ program.mode \in {"absolute", "relocatable"}
          /\ \A u \in Uses : Cardinality(Meanings(u[1], u[2])) = 1
          /\ \A name \in ExportedNames : Cardinality(Exporters(name)) = 1
          /\ program.entry # "" => Exporters(program.entry) # {}
    IN StemsApart =>
       /\ status = "linked" => unambiguous
       /\ (status = "failed" /\ ~image.ok /\ Len(objects) = Len(program.sources)) => ~unambiguous

-----------------------------------------------------------------------------
(* What macro definitions mean: a call stands for the body with all the    *)
(* parameters replaced at once.                                            *)

\* Definitions open after each line.
Depths(lines) ==
    [j \in 0 .. Len(lines) |->
       Cardinality({k \in 1 .. j : Opens(lines[k])}) - Cardinality({k \in 1 .. j : Closes(lines[k])})]

\* Lines that belong to the text at the depth before line i, from there on to
\* where that depth is left.
TextFrom(lines, depths, i) ==
    LET depth == depths[i - 1]
        inside == {j \in i .. Len(lines) : \A k \in i .. j : depths[k] >= depth}
        own == {j \in inside : depths[j] = depth /\ ~Opens(lines[j]) /\ ~Closes(lines[j])}
        index[j \in 0 .. Len(lines)] == Cardinality({k \in own : k <= j})
    IN [n \in 1 .. Cardinality(own) |-> lines[CHOOSE j \in own : index[j] = n]]

Definitions(lines) ==
    LET depths == Depths(lines)
    IN {[name |-> Value(lines[i].args[1]), params |-> Tail(Names(lines[i].args)),
         body |-> TextFrom(lines, depths, i + 1)]
          : i \in {j \in DOMAIN lines : Opens(lines[j])}}

Known(i) == UNION {Definitions(program.sources[j]) : j \in 1 .. i}

\* Every parameter replaced at once.
AllAtOnce(token, params, args) ==
    IF \E k \in DOMAIN params : token = <<"par", params[k]>>
    THEN args[CHOOSE k \in DOMAIN params : token = <<"par", params[k]>>] ELSE token

RECURSIVE Meant(_, _, _)
Meant(lines, defs, fuel) ==
    IF lines = <<>> \/ fuel = 0 THEN <<>>
    ELSE LET line == Head(lines)
             called == {d \in defs : /\ d.name = line.op /\ line.label = NoLabel
                                     /\ Len(d.params) = Len(line.args)}
             d == CHOOSE d \in called : TRUE
             body == [k \in DOMAIN d.body |->
                        [label |-> AllAtOnce(d.body[k].label, d.params, line.args),
                         op |-> d.body[k].op,
                         args |-> [n \in DOMAIN d.body[k].args |->
                                     AllAtOnce(d.body[k].args[n], d.params, line.args)]]]
         IN (IF called = {} THEN <<line>> ELSE Meant(body, defs, fuel - 1))
              \o Meant(Tail(lines), defs, fuel)

\* No macro passes one of its parameters on to a macro that calls another
\* parameter by that name.
NamedApart(defs) ==
    \A d \in defs, callee \in defs : \A k \in DOMAIN d.body :
      d.body[k].op = callee.name =>
        \A m, n \in DOMAIN callee.params \cap DOMAIN d.body[k].args :
          d.body[k].args[m] = <<"par", callee.params[n]>> =>
            d.body[k].args[n] = <<"par", callee.params[n]>>

\* Although bodies are expanded when they are read, parameter after parameter
\* and in no fixed order, the text handed to the assembler is what the calls
\* stand for, if macros that call each other name their parameters apart.
MacrosMeanTheirBodies ==
    LET i == Len(expanded)  \* the source expanded last
        source == program.sources[i]
        defs == Known(i)
    IN status = "building" /\ i > 0 /\ NamedApart(defs) =>
         expanded[i] = Meant(TextFrom(source, Depths(source), 1), defs, ExpansionGuard + 2)
=============================================================================
