------------------------------- MODULE Linker -------------------------------
(***************************************************************************)
(* The linker of tools/macroBuilder: modules one after the other, symbols  *)
(* resolved in the module itself, else among the exported ones.            *)
(***************************************************************************)
EXTENDS Assembler

NoImage == [ok |-> FALSE]

\* The cursor of the first loop: each module's base, and the image's size.
Bases(modules) ==
    LET base[m \in 1 .. Len(modules) + 1] ==
          IF m = 1 THEN 0 ELSE base[m - 1] + modules[m - 1].size
    IN base

\* resolve_symbol
Resolve(modules, m, symbol) ==
    LET definer == IF symbol \in DOMAIN modules[m].symbols THEN m
                   ELSE CHOOSE e \in DOMAIN modules : symbol \in modules[e].globals
    IN Bases(modules)[definer] + modules[definer].symbols[symbol]

Resolved(modules, m, symbol) ==
    \/ symbol \in DOMAIN modules[m].symbols
    \/ \E e \in DOMAIN modules : symbol \in modules[e].globals

\* patch_u16
Patch(code, at, value) == [code EXCEPT ![at] = Low(value), ![at + 1] = High(value)]

Copied(modules) ==
    [a \in 0 .. Bases(modules)[Len(modules) + 1] - 1 |->
       LET m == CHOOSE m \in DOMAIN modules :
                  Bases(modules)[m] <= a /\ a < Bases(modules)[m + 1]
       IN modules[m].code[a - Bases(modules)[m]]]

\* The places to patch, each with the value that goes there.
Patches(modules) ==
    UNION {{[at |-> Bases(modules)[m] + r.offset, value |-> Resolve(modules, m, r.symbol)]
             : r \in modules[m].relocs} : m \in DOMAIN modules}

RECURSIVE PatchAll(_, _)
PatchAll(code, patches) ==
    IF patches = {} THEN code
    ELSE LET p == CHOOSE p \in patches : TRUE
         IN PatchAll(Patch(code, p.at, p.value), patches \ {p})

\* Mutant: a module's exports are not compared with those of the one before.
ExportedTwiceLate(modules) ==
    \E m, e \in DOMAIN modules : m + 1 < e /\ modules[m].globals \cap modules[e].globals # {}

ExportedTwice(modules) ==
    \E m, e \in DOMAIN modules : m < e /\ modules[m].globals \cap modules[e].globals # {}

\* The entry point: --entry's symbol, which must be exported, or the first
\* module's.
EntryPoint(modules, entrySymbol) ==
    IF entrySymbol = "" THEN modules[1].entry
    ELSE LET m == CHOOSE e \in DOMAIN modules : entrySymbol \in modules[e].globals
         IN Bases(modules)[m] + modules[m].symbols[entrySymbol]

\* link_modules.  The load address goes into the entry point and the image's
\* header; the patched words do not have it.
LinkModules(modules, mode, loadAddress, entrySymbol) ==
    IF \/ mode \notin {"absolute", "relocatable"}
       \/ ExportedTwice(modules)
       \/ \E m \in DOMAIN modules : \E r \in modules[m].relocs : ~Resolved(modules, m, r.symbol)
       \/ entrySymbol # "" /\ \A m \in DOMAIN modules : entrySymbol \notin modules[m].globals
    THEN NoImage
    ELSE [ok |-> TRUE,
          mode |-> mode,
          code |-> PatchAll(Copied(modules), Patches(modules)),
          entry |-> EntryPoint(modules, entrySymbol) + IF mode = "absolute" THEN loadAddress ELSE 0,
          loadAddress |-> IF mode = "absolute" THEN loadAddress ELSE 0,
          relocs |-> IF mode = "relocatable" THEN {p.at : p \in Patches(modules)} ELSE {}]
=============================================================================
