--------------------------- MODULE MacroProcessor ---------------------------
(***************************************************************************)
(* The macro processor of tools/macroBuilder: one pass over the source     *)
(* that takes definitions in and writes every other line out, expanded.    *)
(* A line is its label, its operation and its operands; a token is a kind  *)
(* and a value, of kind "par" when it is the text {p} of a parameter p.    *)
(* Comments and blank lines, which are dropped, do not occur.              *)
(***************************************************************************)
EXTENDS Integers, Sequences, FiniteSets, TLC

CONSTANT ExpansionGuard     \* expansion_guard_, 1024 in the code

NoLabel == <<"none">>

Failure == [ok |-> FALSE, out |-> <<>>, macros |-> <<>>]
Success(out, macros) == [ok |-> TRUE, out |-> out, macros |-> macros]

\* replace_all, of one parameter's text by an argument's, in one token.
ReplaceToken(token, param, arg) == IF token = <<"par", param>> THEN arg ELSE token

\* The loop over mapping: one parameter after the other, each over the text
\* that the ones before it left.  order lists the parameters' positions in the
\* order in which the unordered_map yields them.
RECURSIVE SubstituteToken(_, _, _, _)
SubstituteToken(token, params, args, order) ==
    IF order = <<>> THEN token
    ELSE SubstituteToken(ReplaceToken(token, params[Head(order)], args[Head(order)]),
                         params, args, Tail(order))

SubstituteLine(line, params, args, order) ==
    [label |-> SubstituteToken(line.label, params, args, order),
     op |-> line.op,
     args |-> [k \in DOMAIN line.args |->
                 SubstituteToken(line.args[k], params, args, order)]]

\* An unordered_map's order: of the many, the one of the definition and its
\* reverse, which are all there are for up to two parameters.
Orders == {"definition", "reverse"}
Positions(n, order) == [k \in 1 .. n |-> IF order = "definition" THEN k ELSE n + 1 - k]

\* Mutant: an argument list of any length is taken.
AritiesMatchLoose(def, args) == Len(args) >= Len(def.params)

AritiesMatch(def, args) == Len(args) = Len(def.params)

RECURSIVE ExpandBody(_, _, _, _, _, _)
RECURSIVE ExpandLine(_, _, _, _)

\* expand_line.  A labelled line's first token is its label: it is no call.
ExpandLine(line, macros, order, depth) ==
    IF depth > ExpansionGuard THEN Failure
    ELSE IF line.label # NoLabel \/ line.op \notin DOMAIN macros
         THEN Success(<<line>>, macros)
    ELSE IF ~AritiesMatch(macros[line.op], line.args) THEN Failure
    ELSE ExpandBody(macros[line.op].body, macros[line.op].params, line.args,
                    macros, order, depth)

\* Its loop over the body.
ExpandBody(body, params, args, macros, order, depth) ==
    IF body = <<>> THEN Success(<<>>, macros)
    ELSE LET line == SubstituteLine(Head(body), params, args, Positions(Len(params), order))
             first == ExpandLine(line, macros, order, depth + 1)
             rest == ExpandBody(Tail(body), params, args, macros, order, depth)
         IN IF first.ok /\ rest.ok THEN Success(first.out \o rest.out, macros) ELSE Failure

-----------------------------------------------------------------------------
Opens(line) == line.label = NoLabel /\ line.op = "MACRO"
Closes(line) == line.label = NoLabel /\ line.op = "MEND"

\* The lines that end the definition that line 1 opens: nested definitions
\* have been closed before them.
Ends(lines) ==
    {i \in 2 .. Len(lines) :
       /\ Closes(lines[i])
       /\ Cardinality({j \in 2 .. i : Opens(lines[j])})
            = Cardinality({j \in 2 .. i - 1 : Closes(lines[j])})}

\* Where the loop of consume_macro_def stops; 0 if MEND is missing.
FirstEnd(lines) ==
    LET ends == Ends(lines)
    IN IF ends = {} THEN 0 ELSE CHOOSE i \in ends : \A j \in ends : i <= j

Names(tokens) == [k \in DOMAIN tokens |-> tokens[k][2]]

\* process_lines, with consume_macro_def: a definition's body is processed
\* when it is read, so that definitions inside it are taken in and calls of
\* known macros inside it are expanded, on the parameters' own text.
RECURSIVE ProcessLines(_, _, _)
ProcessLines(lines, macros, order) ==
    IF lines = <<>> THEN Success(<<>>, macros)
    ELSE IF Opens(Head(lines)) THEN
        LET end == FirstEnd(lines)
            header == Names(Head(lines).args)
            body == ProcessLines(SubSeq(lines, 2, end - 1), macros, order)
            def == [params |-> Tail(header), body |-> body.out]
        IN IF header = <<>> \/ end = 0 \/ ~body.ok THEN Failure
           ELSE ProcessLines(SubSeq(lines, end + 1, Len(lines)),
                             (Head(header) :> def) @@ body.macros, order)
    ELSE
        LET first == ExpandLine(Head(lines), macros, order, 0)
            rest == ProcessLines(Tail(lines), macros, order)
        IN IF first.ok /\ rest.ok THEN Success(first.out \o rest.out, rest.macros) ELSE Failure
=============================================================================
