------------------------------ MODULE FwSession -----------------------------
(***************************************************************************)
(* bin/run.c: load a file, register what it may import, compile, run one   *)
(* of its functions, free.  The components are composed by the one process *)
(* that calls them: each has its part of the control (pc).                 *)
(***************************************************************************)
EXTENDS FwInstance

CONSTANTS
    Cases,             \* what a session is given: the file, whether fread
                       \* falls short of it, what the driver registers, how
                       \* many allocations fail, and what the file says
    Main               \* the name of the function the driver runs

\* What the driver may register: a function or a global, under two names.
Registrations == [global : BOOLEAN, mname : Seq(Nat), nsname : Seq(Nat), host : Hosts]

ASSUME CasesAssumption ==
    \A c \in Cases : /\ c.cells \in Seq(Nat) /\ c.short \in BOOLEAN /\ c.fails \in Nat
                     /\ c.regs \in Seq(Registrations)
                     /\ \A i \in DOMAIN c.regs : <<c.regs[i].mname, c.regs[i].nsname>> \in Names

VARIABLES
    given,             \* the case
    reg                \* the next registration of the driver

vars == <<pc, live, fails, loaderVars, importsVars, instanceVars, given, reg>>

LoaderStep    == LoaderNext /\ UNCHANGED <<importsVars, instanceVars, given, reg>>
InstanceStep  == (CompileNext \/ Run(Main)) /\ UNCHANGED <<given, reg>>

Init ==
    /\ given \in Cases
    /\ cells = given.cells
    /\ short = given.short
    /\ fails = given.fails
    /\ pc = "open"
    /\ live = {}
    /\ reg = 1
    /\ LoaderInit /\ ImportsInit /\ InstanceInit

-----------------------------------------------------------------------------
(***************************************************************************)
(* main                                                                    *)
(***************************************************************************)
\* fw_module_free(NULL).
LoadedNothing ==
    /\ pc = "load_null"
    /\ pc' = "crash"
    /\ UNCHANGED <<live, fails, loaderVars, importsVars, instanceVars, given, reg>>

LoadedModule ==
    /\ pc = "loaded"
    /\ NewWrap("register")
    /\ UNCHANGED <<loaderVars, instanceVars, given, reg>>

RegisterNext ==
    /\ pc = "register" /\ reg <= Len(given.regs)
    /\ IF given.regs[reg].global
       THEN AddGlobal(reg, given.regs[reg])
       ELSE AddFunc(reg, given.regs[reg])
    /\ reg' = reg + 1
    /\ UNCHANGED <<loaderVars, instanceVars, given>>

RegisteredAll ==
    /\ pc = "register" /\ reg > Len(given.regs)
    /\ pc' = "compile"
    /\ UNCHANGED <<live, fails, loaderVars, importsVars, instanceVars, given, reg>>

Compiled ==
    /\ pc = "compiled" /\ compiled = "ok"
    /\ pc' = "run"
    /\ UNCHANGED <<live, fails, loaderVars, importsVars, instanceVars, given, reg>>

\* The module is freed and the program ends; the registry is not freed.
GivesUp ==
    /\ \/ pc = "compiled" /\ compiled = "err"
       \/ pc = "failed"
    /\ pc' = "free"
    /\ at' = 1
    /\ item' = 0
    /\ todo' = 0
    /\ back' = "done"
    /\ UNCHANGED <<live, fails, cells, short, fpos, mod, nxt, probe, parsed,
                   importsVars, instanceVars, given, reg>>

\* The registry is freed; the module is not.
Succeeds ==
    /\ pc = "succeeded"
    /\ FreeWrap
    /\ pc' = "done"
    /\ UNCHANGED <<loaderVars, instanceVars, given, reg>>

Next == \/ LoaderStep \/ InstanceStep
        \/ LoadedNothing \/ LoadedModule \/ RegisterNext \/ RegisteredAll
        \/ Compiled \/ GivesUp \/ Succeeds

(* One thread goes on as long as it can.                                   *)
Spec == Init /\ [][Next]_vars /\ WF_vars(Next)

-----------------------------------------------------------------------------
(***************************************************************************)
(* Properties                                                              *)
(*                                                                         *)
(* given.says is what the file was written to say: the types, the imports, *)
(* the functions, the exports, in their order.  It is there to be compared *)
(* with, of the files that are `sound', that is, follow the format; no     *)
(* action reads it.                                                        *)
(***************************************************************************)
\* No allocation has failed yet.
Unstarved == fails = given.fails

SectionsOf(t) == {i \in DOMAIN mod.secs : mod.secs[i].type = t}

NoSectionTwice == \A t \in Counted : Cardinality(SectionsOf(t)) <= 1

(* The free handler of the elements counts functions (fw_loader.c:143):    *)
(* there are as many of either, and each has an entry.                     *)
ElemsLikeFuncs ==
    SectionsOf(Elem) # {} =>
        /\ Len(mod.vec[Elem].elt) = mod.vec[Function].cnt
        /\ \A i \in DOMAIN mod.vec[Elem].elt : mod.vec[Elem].elt[i].own # Wild

\* No function has the type behind the last one (fw_loader.c:538).
TypesNamed == \A i \in DOMAIN OwnFuncs.elt : OwnFuncs.elt[i].type # Wild

\* A file that avoids what the model shows to lose the process.
Regular ==
    /\ NoSectionTwice /\ ElemsLikeFuncs /\ TypesNamed
    /\ mod.imp[TabKind].cnt = 0
    /\ \A p \in BodyCells : p <= Len(cells) /\ cells[p] \in PlainOps

\* The counts, the cursors and the results have their types.
TypeOK ==
    /\ pc \in LostStates \cup {"open", "header", "sections", "parse", "detach", "close",
                               "load_null", "loaded", "register", "compile", "resolve",
                               "exports", "compiled", "run", "succeeded", "failed",
                               "free", "done", "exit", "hung", "overread"}
    /\ fails \in Nat /\ fpos \in Nat \ {0} /\ at \in Nat /\ item \in Nat /\ todo \in Nat
    /\ parsed \in {"none", "ok", "err"} /\ compiled \in {"none", "ok", "err"}
    /\ \A i \in DOMAIN mod.secs : /\ mod.secs[i].type \in Custom..Data
                                  /\ mod.secs[i].free \in {0, Import} \cup Vectors
    /\ {Null, Wild} \cap live = {}
    /\ \A b \in DOMAIN buckets : \A e \in Range(buckets[b]) : e.host \in Hosts

(* The registry of lists and hashes is the map it stands for: find answers *)
(* the host that was registered last for both names, in whatever bucket,   *)
(* and "must be duplicate" (fw_compile.c:147) never happens.               *)
RegistryImplements == Registry!Spec

-----------------------------------------------------------------------------
\* mod holds what the file says.
Says(kind) == SelectSeq(given.says.imports, LAMBDA i : i.kind = kind)

Body(f) == SubSeq(cells, f.first, f.last - 1)

AsWritten ==
    LET says == given.says IN
    /\ [i \in DOMAIN Types.elt |-> Types.elt[i].text] = says.types
    /\ \A k \in Kinds :
          [i \in DOMAIN mod.imp[k].elt |->
              <<mod.imp[k].elt[i].mtext, mod.imp[k].elt[i].ntext, mod.imp[k].elt[i].typeidx>>]
            = [i \in DOMAIN Says(k) |->
                  <<Says(k)[i].m, Says(k)[i].n, IF k = FuncKind THEN Says(k)[i].tail[1] ELSE 0>>]
    /\ Len(OwnFuncs.elt) = Len(says.funcs)
    /\ \A i \in DOMAIN OwnFuncs.elt :
          /\ OwnFuncs.elt[i].type = Types.elt[says.funcs[i].type + 1].own
          /\ Body(OwnFuncs.elt[i]) = says.funcs[i].body
    /\ [i \in DOMAIN mod.vec[Export].elt |->
          LET e == mod.vec[Export].elt[i] IN [name |-> e.text, kind |-> e.kind, idx |-> e.idx]]
         = says.exports
    /\ mod.start = says.start

(* The sound files this loader refuses or misreads: without a code section *)
(* (fw_loader.c:1021), with a memory section (409), a table import (678),  *)
(* an element of several functions, of whose indices one is read (245), a  *)
(* start function whose index is beyond the count of its own (275), a type *)
(* whose counts do not fit the byte kept of each (fw_module.h:77).         *)
ForThisLoader(says) ==
    /\ says.code
    /\ says.memories = << >>
    /\ \A i \in DOMAIN says.imports : says.imports[i].kind # TabKind
    /\ \A i \in DOMAIN says.elems : Len(says.elems[i].funcs) <= 1
    /\ says.start <= Len(says.funcs)
    /\ \A i \in DOMAIN says.types :
          LET params == says.types[i][1]
          IN params < 256 /\ says.types[i][params + 2] < 256

(* Any other file that follows the format loads, and the module has its    *)
(* types, imports, functions, exports and start function as it says them,  *)
(* the bodies cut where they begin and end.                                *)
LoadedAsWritten ==
    given.sound /\ Unstarved /\ ForThisLoader(given.says)
      => /\ back # "close" /\ parsed # "err"
         /\ (parsed = "none" /\ mod.secs # << >>) => pc \notin LostStates
         /\ pc = "detach" => AsWritten

(* The two passes over the imports agree, whatever the file: the second    *)
(* stores as many of each kind as the first has counted, and never beyond  *)
(* the arrays.  Only behind a table import do they read different bytes.   *)
CountsRight ==
    NoSectionTwice /\ mod.imp[TabKind].cnt = 0 =>
      /\ parsed = "ok" =>
            \A k \in Kinds : mod.imp[k].cnt = IF nxt[k] = 0 THEN 0 ELSE nxt[k] - 1
      /\ (pc \in LostStates /\ parsed = "none" /\ at \in SectionsOf(Import) /\ item > 0) =>
            LET kind == KindAt(Sec.pos, Sec.last)
            IN kind = 0 \/ cells[kind] \notin Kinds

(* A regular module that has been parsed to its end can be compiled and    *)
(* freed, whatever the rest of the file says: nothing that was not written *)
(* is touched, or was freed.  Between the two, it can be run if what runs  *)
(* is the host's or one of its own that is quiet; what any other function  *)
(* does to the process is FwRuntime's.                                     *)
ParsedModulesSafe ==
    (parsed = "ok" /\ Unstarved /\ Regular /\ (ran # 0 => Harmless(ran)))
      => pc \notin LostStates \cup {"exit", "hung", "overread"}

\* The entries a free handler reads are there, and have been written.
EntriesWritten ==
    /\ \A k \in {Type, Export, Elem} :
          /\ mod.vec[k].cnt > 0 => mod.vec[k].arr # Null
          /\ \A i \in DOMAIN mod.vec[k].elt : mod.vec[k].elt[i].own # Wild
    /\ \A i \in DOMAIN OwnFuncs.elt : OwnFuncs.elt[i].ready
    /\ mod.vec[Elem].cnt > 0 => Len(mod.vec[Elem].elt) >= OwnFuncs.cnt

(* However far its sections have been parsed, and wherever an allocation   *)
(* has failed, a module can be freed, imports cut in the middle included.  *)
(* What it takes is that the types, the exports, the elements and the      *)
(* functions were all written: of those the handlers count entries that    *)
(* nobody clears (fw_loader.c:853, 306, 221, 523).                         *)
HalfParsedFreed ==
    (back = "done" /\ NoSectionTwice /\ EntriesWritten) => pc \notin LostStates

\* What fw_module_free and fw_imports_wrap_free do not know of.
Kept ==
    {Instance, FuncTable, Wrap} \cup Range(ContextObjs) \cup Range(HostObjs)
      \cup UNION {Range(EntryObjs(i)) : i \in DOMAIN given.regs}

(* fw_module_free gives back all the loader has allocated for such a       *)
(* module, section by section; what stays is the instance, the context and *)
(* the arguments of the run, and the registry.                             *)
NothingLeft ==
    (pc = "done" /\ back = "done" /\ parsed = "ok" /\ Unstarved /\ Regular)
      => live \subseteq Kept

(* A load that fails, by the file or by an allocation at any point, leaves *)
(* nothing behind, unless the file is shorter than it was said to be       *)
(* (fw_file.c:59).                                                         *)
LoadLeavesNothing ==
    pc = "load_null" => live \subseteq (IF given.short THEN {FileData} ELSE {})

-----------------------------------------------------------------------------
\* The host function that was registered last for an import.
Newest(i) ==
    LET hits == {r \in DOMAIN given.regs : /\ ~given.regs[r].global
                                           /\ given.regs[r].mname = i.m
                                           /\ given.regs[r].nsname = i.n}
    IN IF hits = {} THEN NoHost ELSE given.regs[CHOOSE r \in hits : \A q \in hits : q <= r].host

FuncCount == Len(Says(FuncKind)) + Len(given.says.funcs)

(* "The indices of imports go before the first index of any definition     *)
(* contained in the module itself" (fw_compile.c:101-106): each import has *)
(* its place, the type it names and the newest host of its names; each own *)
(* function follows.  The compilation fails only for an import nobody has  *)
(* registered or an export of an index beyond.                             *)
IndexSpace ==
    (given.sound /\ Unstarved /\ parsed = "ok" /\ mod.imp[TabKind].cnt = 0) =>
      /\ (compiled = "ok" /\ pc = "compiled") =>
            /\ Len(funcs) = FuncCount
            /\ \A i \in DOMAIN funcs :
                  IF i <= Len(Says(FuncKind))
                  THEN LET import == Says(FuncKind)[i]
                       IN funcs[i] = HostFunc(Newest(import), Types.elt[import.tail[1] + 1].own)
                  ELSE /\ funcs[i].own = i - Len(Says(FuncKind))
                       /\ Body(OwnFuncs.elt[funcs[i].own])
                            = given.says.funcs[i - Len(Says(FuncKind))].body
      /\ compiled = "err" =>
            \/ \E i \in DOMAIN Says(FuncKind) : Newest(Says(FuncKind)[i]) = NoHost
            \/ \E i \in DOMAIN given.says.exports : given.says.exports[i].idx >= FuncCount

(* The function that runs is the one the first export of that name names,  *)
(* if that export is a function; of another kind it is the function that   *)
(* happens to have its index (fw_compile.c:124).  A module that has been   *)
(* given up half parsed is run as well, as far as it goes.                 *)
ExportRight ==
    LET named == {i \in DOMAIN given.says.exports : given.says.exports[i].name = Main}
    IN (given.sound /\ Unstarved /\ parsed = "ok" /\ ran # 0) =>
         /\ compiled = "ok"
         /\ named # {}
         /\ ran = given.says.exports[CHOOSE i \in named : \A j \in named : i <= j].idx + 1

\* Where the code goes on for ever: in a number of more than 256 bytes
\* (fw_str.h:99), in a function that does.
Hangs == pc = "hung" /\ (Endless \in Range(cells) \/ (ran # 0 /\ ~Harmless(ran)))

(* Whatever the file and whichever allocations fail, main comes to its end *)
(* or the process is lost, but for those two: every loop of the loader     *)
(* moves its cursor, and so does every one of fw_module_compile.           *)
SessionEnds == <>(pc \in LostStates \cup {"done", "exit", "overread"} \/ Hangs)

-----------------------------------------------------------------------------
(***************************************************************************)
(* The invariants of the proofs: of the types, of a load that fails, of    *)
(* what stays reachable from the module until it is freed.                 *)
(***************************************************************************)
PtrKinds == {"NULL", "wild", "array", "type", "locals", "name", "funcs", "func",
             "mname", "nsname"}

Ptrs == PtrKinds \X Nat \X Nat

SectionRecs == [type : Custom..Data, pos : Nat \ {0}, last : Nat,
                free : {0, Import} \cup Vectors]
EntryRecs   == [own : Ptrs, text : Seq(Nat), kind : Nat, idx : Nat \cup {-1}, func : Nat]
FuncRecs    == [own : Ptrs, ready : BOOLEAN, type : Ptrs, first : Nat, last : Nat]
ImportRecs  == [mname : Ptrs, nsname : Ptrs, mtext : Seq(Nat), ntext : Seq(Nat),
                f : Ptrs, typeidx : Nat]

VecRecs(k) == [cnt : Nat, arr : Ptrs,
               elt : IF k = Function THEN Seq(FuncRecs) ELSE Seq(EntryRecs)]
ImpRecs    == [cnt : Nat, arr : Ptrs, elt : Seq(ImportRecs)]

IsModule(m) ==
    /\ m = [filedata |-> m.filedata, secs |-> m.secs, code |-> m.code, start |-> m.start,
            vec |-> m.vec, imp |-> m.imp, instance |-> m.instance]
    /\ m.filedata \in {Null, FileData} /\ m.instance \in {Null, Instance}
    /\ m.secs \in Seq(SectionRecs)
    /\ m.code \in Nat /\ m.start \in Nat
    /\ m.vec = [k \in Vectors |-> m.vec[k]] /\ \A k \in Vectors : m.vec[k] \in VecRecs(k)
    /\ m.imp \in [Kinds -> ImpRecs]

(* While they are parsed the sections are parts of the file, and the code  *)
(* is one of them: its cursor is the only one nothing bounds.              *)
SectionsInside ==
    /\ mod.code <= Len(mod.secs)
    /\ pc \in {"open", "header", "sections"} => item = 0
    /\ pc \in {"open", "header"} => mod.secs = << >>
    /\ pc = "sections" => \A i \in DOMAIN mod.secs : mod.secs[i].last <= fpos
    /\ pc = "parse" => /\ mod.code # 0
                       /\ \A i \in DOMAIN mod.secs : mod.secs[i].last <= Len(cells) + 1

\* A handler's loop is one through the array it fills.
LoopInside ==
    (pc = "parse" /\ at <= Len(mod.secs) /\ Sec.type \in Vectors /\ item \in 1..todo)
      => Len(mod.vec[Sec.type].elt) = todo

\* fw_instance_t, and the loops that fill it.
IndexRecs == [host : Hosts \cup {NoHost}, type : Ptrs, own : Nat]

InstanceTyped ==
    /\ turn \in Nat /\ funcs \in Seq(IndexRecs)
    /\ pc \in {"resolve", "exports"} => turn # 0

SessionTyped ==
    /\ cells = given.cells /\ short = given.short
    /\ reg \in Nat \ {0} /\ probe \in Nat /\ nxt \in [Kinds -> Nat]
    /\ back \in {"none", "close", "done"}
    /\ pc = "free" => back # "none"
    /\ pc \in {"parse", "free"} => at # 0
    /\ TypeOK /\ IsModule(mod) /\ SectionsInside /\ LoopInside /\ InstanceTyped

\* What a load has allocated, until a section is parsed.
Loading(first) ==
    {FileObj, FileData, Module} \cup {Section(i) : i \in first..Len(mod.secs)}

LoadInv ==
    /\ pc \in {"open", "header", "sections"} => back = "none" /\ parsed = "none"
    /\ pc = "open"           => live = {}
    /\ pc \in {"header", "close"} => live = {FileObj, FileData}
    /\ pc = "sections"       => live = Loading(1)
    /\ back = "close"        => pc \in {"free", "close", "load_null"} \cup LostStates
    /\ pc = "free" /\ back = "close" => live = Loading(at)
    /\ (pc \in {"open", "header", "sections"} \/ back = "close") =>
          /\ mod.filedata = Null
          /\ mod.vec = Zeroed.vec /\ mod.imp = Zeroed.imp
          /\ \A i \in DOMAIN mod.secs : mod.secs[i].free = 0
    /\ LoadLeavesNothing

-----------------------------------------------------------------------------
\* What an entry of a vector owns.
OwnKind(k) == CASE k = Type     -> "type"
                [] k = Function -> "locals"
                [] k = Export   -> "name"
                [] OTHER        -> "funcs"

(* What a vector points to is allocated, and named for its section, an     *)
(* entry's for its place too.  With a handler to free it there is an array *)
(* of as many entries as are counted.                                      *)
VectorHeld(k, i) ==
    LET v == mod.vec[k] IN
    /\ v.arr # Null => v.arr = Obj("array", i, 0) /\ v.arr \in live
    /\ \A j \in DOMAIN v.elt :
          \/ v.elt[j].own = Null
          \/ (v.elt[j].own = Wild /\ k # Function)
          \/ (v.elt[j].own = Obj(OwnKind(k), i, j) /\ v.elt[j].own \in live)
    /\ k = Type /\ v.arr # Null => v.cnt <= Len(v.elt)
    /\ mod.secs[i].free # 0 =>
          /\ mod.secs[i].free = k /\ k # Type
          /\ k # Memory => v.arr # Null /\ Len(v.elt) = v.cnt /\ v.cnt > 0

ImportKind(p) == <<"func", "mname", "nsname">>[p]

(* The same of the imports, whose entries are named for the turn of the    *)
(* handler that wrote them: each turn writes another.                      *)
ImportHeld(i, k, n, p) ==
    LET o == ImportPtr(k, n, p) IN
    o # Null => /\ o \in live /\ o = Obj(ImportKind(p), i, o[3])
                /\ (pc = "parse" /\ at = i) => o[3] < item
                /\ \A q \in Kinds : \A m \in 1..mod.imp[q].cnt :
                      ImportPtr(q, m, p) = o => q = k /\ m = n

ImportsHeld(i) ==
    /\ \A k \in Kinds : mod.imp[k].cnt = 0 => mod.imp[k].arr = Null
    /\ mod.secs[i].free # 0 =>
          /\ mod.secs[i].free = Import
          /\ \A k \in Kinds :
                mod.imp[k].cnt > 0 =>
                    /\ mod.imp[k].arr = Obj("array", i, k) /\ mod.imp[k].arr \in live
                    /\ Len(mod.imp[k].elt) = mod.imp[k].cnt
                    /\ \A n \in 1..mod.imp[k].cnt, p \in 1..3 : ImportHeld(i, k, n, p)

SectionHeld(i) ==
    /\ mod.secs[i].type \in Vectors => VectorHeld(mod.secs[i].type, i)
    /\ mod.secs[i].type = Import => ImportsHeld(i)
    /\ mod.secs[i].type \notin Counted => mod.secs[i].free = 0

\* What is not parsed has nothing to free.
Ahead(i) ==
    pc = "parse" /\ (i > at \/ (i = at /\ (item = 0 \/ (probe # 0 /\ Sec.type = Import))))
      => mod.secs[i].free = 0

\* Between the sections and the end of fw_module_free.
Loaded ==
    /\ pc \in {"parse", "detach", "loaded", "register", "compile", "resolve", "exports",
              "compiled", "run", "failed", "free"}
    /\ back # "close"

Left(i) == pc # "free" \/ at <= i

HoldInv ==
    /\ back = "done" => pc \in {"free", "done"} \cup LostStates
    /\ Loaded => /\ {Module, FileData} \subseteq live
                 /\ pc \notin {"parse", "detach"} => mod.filedata = FileData
                 /\ \A i \in DOMAIN mod.secs : Ahead(i) /\ (Left(i) => Section(i) \in live)
    /\ Loaded /\ NoSectionTwice =>
          /\ SectionsOf(Type) = {} => Types = Empty
          /\ \A i \in DOMAIN mod.secs :
                Left(i) \/ mod.secs[i].type = Type => SectionHeld(i)
    /\ HalfParsedFreed

=============================================================================
