------------------------------ MODULE FwLoader ------------------------------
(***************************************************************************)
(* fw_module_load and fw_module_free: a file is read, cut into sections,   *)
(* each section is parsed by the handler of its type, and everything is    *)
(* freed again section by section.                                         *)
(*                                                                         *)
(* A file is a sequence of cells.  A cell is one LEB128 number or one      *)
(* field of fixed width (FwLeb has the bytes); a run of bytes, a name say, *)
(* is one cell for each.  One step is one turn of a loop of the code.      *)
(***************************************************************************)
EXTENDS FwHeap

CONSTANT U32           \* the width of uint32_t: 2^32 in the code

(* Two cells stand for the encodings FwLeb shows not to be read to their   *)
(* end: one of 256 continuation bytes, whose counter of eight bits starts  *)
(* anew, and one in the middle of which the file ends.  They stand only    *)
(* where the format has a number.  Of the other bad encodings, one that is *)
(* too long errs like a section that ends before it, and one a section     *)
(* ends in takes the cell behind the section.                              *)
Endless == U32
Torn    == U32 + 1

VARIABLES
    cells, short,      \* the file, and whether fread falls short of it
    fpos,              \* the cursor of _fw_module_load
    mod,               \* the fw_module_t
    at,                \* the section being parsed, or freed
    item, todo,        \* a handler's loop: the entry it is at, and its bound
    nxt, probe,        \* section import: its local imports[], as indices, and
                       \* the cursor of the pass that counts, 0 outside it
    back,              \* where fw_module_free returns to
    parsed             \* what fw_module_parse answered; its caller drops it

loaderVars == <<cells, short, fpos, mod, at, item, todo, nxt, probe,
                back, parsed>>

Custom   == 0
Type     == 1
Import   == 2
Function == 3
Table    == 4
Memory   == 5
Global   == 6
Export   == 7
Start    == 8
Elem     == 9
Code     == 10
Data     == 11

Magic   == 16
Version == 1

\* How the process stands that reads such a number at `p'.
Unended(p)  == cells[p] >= U32
Unending(p) == IF cells[p] = Endless THEN "hung" ELSE "overread"

\* The sections fw_module_t keeps as a count and an array.
Vectors == {Type, Function, Table, Memory, Global, Export, Elem, Data}

Kinds    == 0..3       \* FW_IMPORT_KIND: function, table, memory, global
FuncKind == 0
TabKind  == 1
MemKind  == 2
GlobKind == 3

FileObj == Obj("file", 0, 0)
FileData == Obj("filedata", 0, 0)
Module  == Obj("module", 0, 0)

Empty == [cnt |-> 0, arr |-> Null, elt |-> << >>]

\* fw_calloc
Zeroed ==
    [filedata |-> Null, secs |-> << >>, code |-> 0, start |-> 0,
     vec |-> [k \in Vectors |-> Empty], imp |-> [k \in Kinds |-> Empty],
     instance |-> Null]

(* The entries of an array.  `own' is the object an entry points to; a     *)
(* function's is its local_type, and `ready' whether its lists are there.  *)
\* fw_malloc: nothing is written; idx is -1 until it is.
Unwritten == [own |-> Wild, text |-> << >>, kind |-> 0, idx |-> -1, func |-> 0]

NoFunc == [own |-> Null, ready |-> FALSE, type |-> Null, first |-> 0, last |-> 0]

\* Variant: the imports are allocated without clearing them.
StrayImport == [mname |-> Wild, nsname |-> Wild, mtext |-> << >>, ntext |-> << >>,
                f |-> Wild, typeidx |-> 0]

NoImport == [mname |-> Null, nsname |-> Null, mtext |-> << >>, ntext |-> << >>,
             f |-> Null, typeidx |-> 0]

LoaderInit ==
    /\ fpos = 1
    /\ mod = Zeroed
    /\ at = 0
    /\ item = 0
    /\ todo = 0
    /\ nxt = [k \in Kinds |-> 0]
    /\ probe = 0
    /\ back = "none"
    /\ parsed = "none"

-----------------------------------------------------------------------------
(***************************************************************************)
(* fw_file_read, fw_file_close, fw_file_detach_data                        *)
(***************************************************************************)
OpenFails ==
    /\ pc = "open"
    /\ pc' = "load_null"
    /\ UNCHANGED <<live, fails, loaderVars>>

(* A file that is shorter than it was said to be is given up with its      *)
(* buffer still allocated.                                                 *)
ReadFails ==
    /\ pc = "open"
    /\ \/ fails > 0 /\ fails' = fails - 1 /\ UNCHANGED live
       \/ short /\ live' = live \cup {FileData} /\ UNCHANGED fails
    /\ pc' = "load_null"
    /\ UNCHANGED loaderVars

ReadFile ==
    /\ pc = "open"
    /\ ~short
    /\ Mallocs(<<FileObj, FileData>>)
    /\ pc' = "header"
    /\ UNCHANGED loaderVars

\* Variant: only the handle is freed.
CloseFileOnly ==
    /\ pc = "close"
    /\ live' = Without(<<FileObj>>)
    /\ pc' = "load_null"
    /\ UNCHANGED <<fails, loaderVars>>

CloseFile ==
    /\ pc = "close"
    /\ live' = Without(<<FileData, FileObj>>)
    /\ pc' = "load_null"
    /\ UNCHANGED <<fails, loaderVars>>

\* fw_module_load keeps the data whatever fw_module_parse answered.
Detach ==
    /\ pc = "detach"
    /\ mod' = [mod EXCEPT !.filedata = FileData]
    /\ live' = Without(<<FileObj>>)
    /\ pc' = "loaded"
    /\ UNCHANGED <<fails, cells, short, fpos, at, item, todo, nxt, probe, back,
                   parsed>>

-----------------------------------------------------------------------------
(***************************************************************************)
(* _fw_module_load: the header, then one section a turn                    *)
(***************************************************************************)
HeaderOk == Len(cells) >= 2 /\ cells[1] = Magic /\ cells[2] = Version

BadHeader ==
    /\ pc = "header"
    /\ ~HeaderOk
    /\ pc' = "close"
    /\ UNCHANGED <<live, fails, loaderVars>>

NewModule ==
    /\ pc = "header"
    /\ HeaderOk
    /\ \E m \in Answer(Module) :
          /\ Mallocs(<<m>>)
          /\ pc' = IF m = Null THEN "close" ELSE "sections"
    /\ fpos' = 3
    /\ UNCHANGED <<cells, short, mod, at, item, todo, nxt, probe, back, parsed>>

\* err: fw_module_free, then fw_module_load closes the file.
LoadFails ==
    /\ pc' = "free"
    /\ at' = 1
    /\ back' = "close"

NewSection(type, first, size) ==
    [type |-> type, pos |-> first, last |-> first + size, free |-> 0]

Section(i) == Obj("section", i, 0)

\* Variant: one type too many.
KnownTypeByOne(t) == t <= Data + 1

KnownType(t) == t <= Data

SplitSection ==
    /\ pc = "sections"
    /\ fpos <= Len(cells)
    /\ UNCHANGED <<cells, short, item, todo, nxt, probe, parsed>>
    /\ IF ~KnownType(cells[fpos]) \/ fpos + 1 > Len(cells)
       THEN LoadFails /\ UNCHANGED <<live, fails, fpos, mod>>
       ELSE LET new == Len(mod.secs) + 1
                size == cells[fpos + 1]
            IN \E s \in Answer(Section(new)) :
                 /\ Mallocs(<<s>>)
                 /\ IF s = Null
                    THEN LoadFails /\ UNCHANGED <<fpos, mod>>
                    ELSE /\ mod' = [mod EXCEPT
                              !.secs = Append(@, NewSection(cells[fpos], fpos + 2, size)),
                              !.code = IF cells[fpos] = Code THEN new ELSE @]
                         /\ fpos' = fpos + 2 + size
                         /\ UNCHANGED <<pc, at, back>>

SplitEnds ==
    /\ pc = "sections"
    /\ fpos > Len(cells)
    /\ UNCHANGED <<live, fails, cells, short, fpos, mod, item, todo, nxt, probe, parsed>>
    /\ IF mod.code = 0 \/ fpos # Len(cells) + 1
       THEN LoadFails
       ELSE pc' = "parse" /\ at' = 1 /\ UNCHANGED back

-----------------------------------------------------------------------------
(***************************************************************************)
(* fw_module_parse: what the handlers have in common                       *)
(***************************************************************************)
Sec == mod.secs[at]

Parsing(type) == pc = "parse" /\ at <= Len(mod.secs) /\ Sec.type = type

\* Before the count is read; in the loop.
Begins(type) == Parsing(type) /\ item = 0
Turn(type)   == Parsing(type) /\ item \in 1..todo /\ probe = 0

UnchangedFile == UNCHANGED <<cells, short, fpos, back, probe>>
UnchangedHeap == UNCHANGED <<live, fails>>

\* FW_ERR; nothing reads the cursors any more.
Errs == /\ pc' = "detach"
        /\ parsed' = "err"
        /\ UNCHANGED <<at, item, todo>>

Lost(how) == pc' = how /\ UNCHANGED <<parsed, at, item, todo>>

GoesOn(i, bound) ==
    /\ item' = i
    /\ todo' = bound
    /\ UNCHANGED <<pc, parsed, at>>

NextTurn == GoesOn(item + 1, todo)

NextSection == /\ at' = at + 1
               /\ item' = 0
               /\ todo' = 0
               /\ UNCHANGED <<pc, parsed>>

Moved(m, pos) == [m EXCEPT !.secs[at].pos = pos]

Array(kind) == Obj("array", at, kind)

Counted == Vectors \cup {Import}

NoCount ==
    /\ \E t \in Counted \cup {Start} : Begins(t)
    /\ Sec.pos >= Sec.last
    /\ Errs
    /\ UNCHANGED <<mod, nxt>> /\ UnchangedFile /\ UnchangedHeap

\* Section func has a second count, see BeginFuncs.
ZeroCount ==
    /\ \E t \in Counted \ {Function} : Begins(t)
    /\ Sec.pos < Sec.last
    /\ cells[Sec.pos] = 0
    /\ mod' = Moved(IF Sec.type = Type THEN [mod EXCEPT !.vec[Type].cnt = 0] ELSE mod,
                    Sec.pos + 1)
    /\ GoesOn(1, 0)
    /\ UNCHANGED nxt /\ UnchangedFile /\ UnchangedHeap

(* The count is stored before the array is there (type, table), or after;  *)
(* section type has no handler that frees it.                              *)
BeginVector ==
    \E k \in Vectors \ {Function, Memory} :
        /\ Begins(k)
        /\ Sec.pos < Sec.last /\ cells[Sec.pos] > 0
        /\ LET n == cells[Sec.pos]
           IN \E a \in Answer(Array(0)) :
                /\ Mallocs(<<a>>)
                /\ IF a = Null
                   THEN /\ Errs
                        /\ mod' = CASE k = Type  -> [mod EXCEPT !.vec[k].cnt = n,
                                                                !.vec[k].arr = Null]
                                    [] k = Table -> [mod EXCEPT !.vec[k].cnt = n]
                                    [] OTHER     -> mod
                   ELSE /\ GoesOn(1, n)
                        /\ mod' = Moved([mod EXCEPT
                              !.vec[k] = [cnt |-> n, arr |-> a,
                                          elt |-> [i \in 1..n |-> Unwritten]],
                              !.secs[at].free = IF k = Type THEN 0 ELSE k], Sec.pos + 1)
        /\ UNCHANGED nxt /\ UnchangedFile

\* "All data in section should be consumed"
SectionEnds ==
    /\ \E t \in Counted : Parsing(t)
    /\ item > todo /\ probe = 0
    /\ IF Sec.pos = Sec.last THEN NextSection ELSE Errs
    /\ UNCHANGED <<mod, nxt>> /\ UnchangedFile /\ UnchangedHeap

\* Variant: the list of sections is not followed.
SkipSectionStays ==
    /\ Parsing(Custom) \/ Parsing(Code)
    /\ UNCHANGED <<pc, live, fails, loaderVars>>

\* Custom sections and the code, which section func reads.
SkipSection ==
    /\ Parsing(Custom) \/ Parsing(Code)
    /\ NextSection
    /\ UNCHANGED <<mod, nxt>> /\ UnchangedFile /\ UnchangedHeap

ParseEnds ==
    /\ pc = "parse" /\ at > Len(mod.secs)
    /\ pc' = "detach"
    /\ parsed' = "ok"
    /\ UNCHANGED <<mod, nxt, at, item, todo>> /\ UnchangedFile /\ UnchangedHeap

-----------------------------------------------------------------------------
(***************************************************************************)
(* The entries of the vectors.  An operator ...End answers the cell behind *)
(* an entry at `p', 0 when the handler gives up before it has seen it all. *)
(***************************************************************************)
\* The cells behind the opcode of a constant expression.
Literals == [op \in {65, 66, 67, 68, 35} |-> CASE op = 67 -> 4
                                                [] op = 68 -> 8
                                                [] OTHER   -> 1]

ExprEnd(p, last) ==
    IF /\ p < last /\ cells[p] \in DOMAIN Literals
       /\ p + 1 + Literals[cells[p]] < last
       /\ cells[p + 1 + Literals[cells[p]]] = 11
    THEN p + 2 + Literals[cells[p]] ELSE 0

\* Behind a count at `p' and as many cells: fw_str_leb_getu32, fw_str_pass.
RunEnd(p, last) ==
    IF p < last /\ p + 1 + cells[p] <= last THEN p + 1 + cells[p] ELSE 0

TypeEnd(p, last) ==
    LET params == RunEnd(p + 1, last)
    IN IF p < last /\ cells[p] = 96 /\ params # 0 THEN RunEnd(params, last) ELSE 0

\* Behind limits at `p': a minimum, and a maximum if the flag says so.
LimitsEnd(p, last, hasMax) ==
    LET end == p + 2 + (IF p < last /\ cells[p] = hasMax THEN 1 ELSE 0)
    IN IF end <= last THEN end ELSE 0

TableEnd(p, last) ==
    IF p < last /\ cells[p] = 112 THEN LimitsEnd(p + 1, last, 1) ELSE 0

GlobalEnd(p, last) == IF p + 1 < last THEN ExprEnd(p + 2, last) ELSE 0

DataEnd(p, last) ==
    LET expr == ExprEnd(p + 1, last)
    IN IF p < last /\ expr # 0 THEN RunEnd(expr, last) ELSE 0

PlainEnd(t, p, last) == CASE t = Table  -> TableEnd(p, last)
                          [] t = Global -> GlobalEnd(p, last)
                          [] t = Data   -> DataEnd(p, last)

PlainEntry ==
    \E t \in {Table, Global, Data} :
        /\ Turn(t)
        /\ LET end == PlainEnd(t, Sec.pos, Sec.last)
           IN IF end = 0 THEN Errs /\ UNCHANGED mod
                         ELSE NextTurn /\ mod' = Moved(mod, end)
        /\ UNCHANGED nxt /\ UnchangedFile /\ UnchangedHeap

Owns(m, k, ptr) == [m EXCEPT !.vec[k].elt[item].own = ptr]

(* The type keeps eight bits of each of the two counts (fw_module.h:77),   *)
(* the model the counts themselves.                                        *)
TypeEntry ==
    /\ Turn(Type)
    /\ LET end == TypeEnd(Sec.pos, Sec.last)
       IN IF end = 0 THEN Errs /\ UNCHANGED mod /\ UnchangedHeap
          ELSE \E t \in Answer(Obj("type", at, item)) :
                 /\ Mallocs(<<t>>)
                 /\ mod' = Moved([Owns(mod, Type, t) EXCEPT
                        !.vec[Type].elt[item].text = SubSeq(cells, Sec.pos + 1, end - 1)], end)
                 /\ IF t = Null THEN Errs ELSE NextTurn
    /\ UNCHANGED nxt /\ UnchangedFile

(* fw_make_str copies the name before fw_str_pass tests its length, and    *)
(* what it answers is not tested.                                          *)
ExportEntry ==
    /\ Turn(Export)
    /\ LET p   == Sec.pos
           end == p + 1 + cells[p]
           Named(s) == [Unwritten EXCEPT !.own = s, !.text = SubSeq(cells, p + 1, end - 1)]
           Stored(e) == [mod EXCEPT !.vec[Export].elt[item] = e]
       IN IF p >= Sec.last THEN Errs /\ UNCHANGED mod /\ UnchangedHeap
          ELSE \E s \in Answer(Obj("name", at, item)) :
                 /\ Mallocs(<<s>>)
                 /\ IF s # Null /\ end > Len(cells) + 1
                    THEN Lost("bad") /\ UNCHANGED mod
                    ELSE IF end + 1 >= Sec.last
                    THEN /\ Errs
                         /\ mod' = Stored(IF end > Len(cells) + 1
                                          THEN [Unwritten EXCEPT !.own = Null]
                                          ELSE Named(s))
                    ELSE /\ NextTurn
                         /\ mod' = Moved(Stored([Named(s) EXCEPT
                                !.kind = cells[end], !.idx = cells[end + 1]]), end + 2)
    /\ UNCHANGED nxt /\ UnchangedFile

(* One function index is read for all the entry has, and none when it has  *)
(* none: then `funcs' is not written either.                               *)
ElemEntry ==
    /\ Turn(Elem)
    /\ LET expr == ExprEnd(Sec.pos + 1, Sec.last)
       IN IF Sec.pos >= Sec.last \/ expr = 0 \/ expr >= Sec.last
          THEN Errs /\ UNCHANGED mod /\ UnchangedHeap
          ELSE IF cells[expr] = 0
          THEN NextTurn /\ mod' = Moved(mod, expr + 1) /\ UnchangedHeap
          ELSE \E f \in Answer(Obj("funcs", at, item)) :
                 /\ Mallocs(<<f>>)
                 /\ mod' = Moved(Owns(mod, Elem, f), expr + 2)
                 /\ IF f = Null \/ expr + 1 >= Sec.last THEN Errs
                    ELSE IF Unended(expr + 1) THEN Lost(Unending(expr + 1))
                    ELSE NextTurn
    /\ UNCHANGED nxt /\ UnchangedFile

(* The test of the allocation is inverted.  With memory the handler gives  *)
(* up and the array is lost; without, it writes its first entry to NULL.   *)
BeginMemory ==
    /\ Begins(Memory)
    /\ Sec.pos < Sec.last /\ cells[Sec.pos] > 0
    /\ \E a \in Answer(Array(0)) :
         /\ Mallocs(<<a>>)
         /\ mod' = [mod EXCEPT
                !.vec[Memory].cnt = cells[Sec.pos],
                !.vec[Memory].arr = IF a = Null THEN Null ELSE @,
                !.secs[at].free = IF a = Null THEN Memory ELSE @]
         /\ IF a = Null /\ Sec.pos + 1 < Sec.last
            THEN Lost(IF Unended(Sec.pos + 1) THEN Unending(Sec.pos + 1) ELSE "crash")
            ELSE Errs
    /\ UNCHANGED nxt /\ UnchangedFile

\* func_cnt may be the index of the last function and one more.
ParseStart ==
    /\ Begins(Start)
    /\ Sec.pos < Sec.last
    /\ LET f == cells[Sec.pos]
       IN IF f > mod.vec[Function].cnt
          THEN Errs /\ UNCHANGED mod
          ELSE /\ mod' = [mod EXCEPT !.start = IF f = 0 THEN @ ELSE f]
               /\ IF Sec.pos + 1 = Sec.last THEN NextSection ELSE Errs
    /\ UNCHANGED nxt /\ UnchangedFile /\ UnchangedHeap

-----------------------------------------------------------------------------
(***************************************************************************)
(* Section func, which reads section code beside it                        *)
(***************************************************************************)
CodeSec == mod.secs[mod.code]

MovedCode(m, pos) == [m EXCEPT !.secs[mod.code].pos = pos]

BeginFuncs ==
    /\ Begins(Function)
    /\ Sec.pos < Sec.last
    /\ LET n == cells[Sec.pos]
       IN IF CodeSec.pos >= CodeSec.last \/ cells[CodeSec.pos] # n
          THEN Errs /\ UNCHANGED mod /\ UnchangedHeap
          ELSE IF n = 0
          THEN /\ GoesOn(1, 0)
               /\ mod' = Moved(MovedCode(mod, CodeSec.pos + 1), Sec.pos + 1)
               /\ UnchangedHeap
          ELSE \E a \in Answer(Array(0)) :
                 /\ Mallocs(<<a>>)
                 /\ IF a = Null
                    THEN Errs /\ mod' = [mod EXCEPT !.vec[Function].cnt = n]
                    ELSE /\ GoesOn(1, n)
                         /\ mod' = Moved(MovedCode([mod EXCEPT
                               !.vec[Function] = [cnt |-> n, arr |-> a,
                                                  elt |-> [i \in 1..n |-> NoFunc]],
                               !.secs[at].free = Function], CodeSec.pos + 1), Sec.pos + 1)
    /\ UNCHANGED nxt /\ UnchangedFile

\* The groups of locals at `p', a count and a type each.
TotalLocals(p, groups) ==
    MapThenSumSet(LAMBDA g : cells[p + 2 * g], 0..(groups - 1))

Types == mod.vec[Type]

\* module->type[idx]; behind the array there is anything.
TypeAt(idx) == IF idx < Len(Types.elt) THEN Types.elt[idx + 1].own ELSE Wild

\* Variant: the size of a body is taken from its number of locals on.
BodyEndLate(p) == p + 2 + cells[p]

\* The size of a body is the cell before it; nothing tests it.
BodyEnd(p) == p + 1 + cells[p]

(* The lists are set up once the type is known to be one; a local group    *)
(* that is cut leaves them so.  total_cnt wraps, the loop that fills       *)
(* local_type does not.                                                    *)
FuncEntry ==
    /\ Turn(Function)
    /\ LET idx   == cells[Sec.pos]
           p     == CodeSec.pos
           begun == [NoFunc EXCEPT !.ready = TRUE, !.type = TypeAt(idx)]
           first == p + 2 + 2 * cells[p + 1]
           body  == [begun EXCEPT !.first = first, !.last = BodyEnd(p)]
           Stored(f) == [mod EXCEPT !.vec[Function].elt[item] = f]
       IN IF Sec.pos >= Sec.last \/ idx > Types.cnt
          THEN Errs /\ UNCHANGED mod /\ UnchangedHeap
          ELSE IF Reads(Types.arr) # ""
          THEN Lost(Reads(Types.arr)) /\ UNCHANGED mod /\ UnchangedHeap
          ELSE IF p + 1 >= CodeSec.last \/ first > CodeSec.last
          THEN Errs /\ mod' = Stored(begun) /\ UnchangedHeap
          ELSE \E l \in Answer(Obj("locals", at, item)) :
                 /\ Mallocs(<<l>>)
                 /\ mod' = Moved(MovedCode(Stored([body EXCEPT !.own = l]), body.last),
                                 Sec.pos + 1)
                 /\ IF l = Null THEN Errs
                    ELSE IF TotalLocals(p + 2, cells[p + 1]) >= U32 THEN Lost("bad")
                    ELSE NextTurn
    /\ UNCHANGED nxt /\ UnchangedFile

-----------------------------------------------------------------------------
(***************************************************************************)
(* Section import: a pass that counts, one that stores                     *)
(***************************************************************************)
\* The kind of the import at `p', 0 when it is cut before.
KindAt(p, last) ==
    LET mname  == RunEnd(p, last)
        nsname == RunEnd(mname, last)
    IN IF mname # 0 /\ nsname # 0 /\ nsname < last THEN nsname ELSE 0

\* Variant: a global is taken for a byte.
CountedTailByte(k, p, last) ==
    CASE k = MemKind -> LimitsEnd(p, last, 1)
      [] k \in Kinds -> p + 1
      [] OTHER       -> p

(* Behind what the counting pass skips of an import of kind `k': of a      *)
(* table only its type, not its limits.  0 or too far when it is cut.      *)
CountedTail(k, p, last) ==
    CASE k = FuncKind -> p + 1
      [] k = TabKind  -> p + 1
      [] k = MemKind  -> LimitsEnd(p, last, 1)
      [] k = GlobKind -> p + 2
      [] OTHER        -> p

\* What the storing pass reads of it.
StoredTail(k, p, last) ==
    CASE k = FuncKind -> p + 1
      [] k = TabKind  -> LimitsEnd(p + 1, last, 1)
      [] k = MemKind  -> LimitsEnd(p, last, 1)
      [] k = GlobKind -> p + 2

Cut(p, last) == p = 0 \/ p > last

BeginImports ==
    /\ Begins(Import)
    /\ Sec.pos < Sec.last /\ cells[Sec.pos] > 0
    /\ GoesOn(1, cells[Sec.pos])
    /\ mod' = Moved(mod, Sec.pos + 1)
    /\ probe' = Sec.pos + 1
    /\ UNCHANGED <<cells, short, fpos, back, nxt>> /\ UnchangedHeap

Counting == Parsing(Import) /\ probe # 0

\* An import of a kind there is none of is passed over.
CountImport ==
    /\ Counting /\ item <= todo
    /\ LET at0  == KindAt(probe, Sec.last)
           kind == cells[at0]
           tail == CountedTail(kind, at0 + 1, Sec.last)
       IN IF at0 = 0 THEN Errs /\ UNCHANGED <<mod, probe>>
          ELSE /\ mod' = IF kind \in Kinds THEN [mod EXCEPT !.imp[kind].cnt = @ + 1] ELSE mod
               /\ IF Cut(tail, Sec.last) THEN Errs /\ UNCHANGED probe
                                         ELSE NextTurn /\ probe' = tail
    /\ UNCHANGED <<cells, short, fpos, back, nxt>> /\ UnchangedHeap

\* The arrays are allocated for each kind up to the first that fails.
ImportArrays ==
    /\ Counting /\ item > todo
    /\ LET Some == {k \in Kinds : mod.imp[k].cnt > 0}
           Fresh(k) == [cnt |-> mod.imp[k].cnt, arr |-> Array(k),
                        elt |-> [i \in 1..mod.imp[k].cnt |-> NoImport]]
           Given(bad) == {k \in Some : k < bad}
       IN \E bad \in Some \cup {4} :
            /\ Mallocs([k \in {s \in Some : s <= bad} |-> IF k = bad THEN Null ELSE Array(k)])
            /\ mod' = [mod EXCEPT
                 !.imp = [k \in Kinds |->
                            IF k \in Given(bad) THEN Fresh(k)
                            ELSE IF k = bad THEN [@[k] EXCEPT !.arr = Null] ELSE @[k]],
                 !.secs[at].free = IF bad = 4 THEN Import ELSE @]
            /\ IF bad = 4 THEN GoesOn(1, todo) ELSE Errs
    /\ nxt' = [k \in Kinds |-> 1]
    /\ probe' = 0
    /\ UNCHANGED <<cells, short, fpos, back>>

MnameObj  == Obj("mname", at, item)
NsnameObj == Obj("nsname", at, item)
FuncObj   == Obj("func", at, item)

(* An import that is cut within its names: what has been copied is lost.   *)
ImportCut ==
    /\ Turn(Import)
    /\ KindAt(Sec.pos, Sec.last) = 0
    /\ LET p == Sec.pos
           mname == p + 1 + cells[p]
       IN IF p >= Sec.last THEN Errs /\ UnchangedHeap
          ELSE \E m \in Answer(MnameObj) :
                 IF m # Null /\ mname > Len(cells) + 1
                 THEN Mallocs(<<m>>) /\ Lost("bad")
                 ELSE IF mname >= Sec.last
                 THEN Mallocs(<<m>>) /\ Errs
                 ELSE \E n \in Answer(NsnameObj) :
                        /\ Mallocs(<<m, n>>)
                        /\ IF n # Null /\ mname + 1 + cells[mname] > Len(cells) + 1
                           THEN Lost("bad") ELSE Errs
    /\ UNCHANGED <<mod, nxt>> /\ UnchangedFile

(* The kind indexes the local imports[] before the switch has tested it.   *)
(* Where the counting pass has seen no import of the kind, the names are   *)
(* written to NULL; where it has seen too few, behind the array.           *)
ImportStray ==
    /\ Turn(Import)
    /\ KindAt(Sec.pos, Sec.last) # 0
    /\ LET kind == cells[KindAt(Sec.pos, Sec.last)]
       IN \/ kind \notin Kinds /\ Lost("bad")
          \/ kind \in Kinds /\ mod.imp[kind].cnt = 0 /\ Lost("crash")
          \/ /\ kind \in Kinds /\ mod.imp[kind].cnt > 0
             /\ nxt[kind] > Len(mod.imp[kind].elt)
             /\ Lost("bad")
    /\ \E m \in Answer(MnameObj), n \in Answer(NsnameObj) : Mallocs(<<m, n>>)
    /\ UNCHANGED <<mod, nxt>> /\ UnchangedFile

ImportEntry ==
    /\ Turn(Import)
    /\ KindAt(Sec.pos, Sec.last) # 0
    /\ LET p      == Sec.pos
           at0    == KindAt(p, Sec.last)
           kind   == cells[at0]
           nsname == p + 1 + cells[p]
           tail   == StoredTail(kind, at0 + 1, Sec.last)
           Named(m, n) == [NoImport EXCEPT
                !.mname = m,  !.mtext = SubSeq(cells, p + 1, nsname - 1),
                !.nsname = n, !.ntext = SubSeq(cells, nsname + 1, at0 - 1)]
           Stored(e) == [mod EXCEPT !.imp[kind].elt[nxt[kind]] = e]
           Next1 == nxt' = [nxt EXCEPT ![kind] = @ + 1]
       IN /\ kind \in Kinds /\ nxt[kind] <= Len(mod.imp[kind].elt)
          /\ \E m \in Answer(MnameObj), n \in Answer(NsnameObj) :
               IF Cut(tail, Sec.last)
               THEN Mallocs(<<m, n>>) /\ Errs /\ mod' = Stored(Named(m, n)) /\ UNCHANGED nxt
               ELSE IF kind # FuncKind
               THEN /\ Mallocs(<<m, n>>)
                    /\ NextTurn /\ mod' = Moved(Stored(Named(m, n)), tail) /\ Next1
               ELSE \E f \in Answer(FuncObj) :
                      /\ Mallocs(<<m, n, f>>)
                      /\ IF f = Null
                         THEN Errs /\ mod' = Stored(Named(m, n)) /\ UNCHANGED nxt
                         ELSE /\ NextTurn
                              /\ mod' = Moved(Stored([Named(m, n) EXCEPT
                                    !.f = f, !.typeidx = cells[at0 + 1]]), tail)
                              /\ Next1
    /\ UnchangedFile

-----------------------------------------------------------------------------
(***************************************************************************)
(* fw_module_free                                                          *)
(***************************************************************************)
Owned(k, n) == [i \in 1..n |-> mod.vec[k].elt[i].own]

\* Variant: the names of the exports are left to the array.
FreeTurnsNoExport(k) == IF k = Function THEN mod.vec[Function].cnt
                        ELSE IF k = Elem THEN mod.vec[Function].cnt
                        ELSE 0

(* The turns a free handler makes through its array.  That of the elements *)
(* counts the functions.                                                   *)
FreeTurns(k) == CASE k \in {Function, Elem} -> mod.vec[Function].cnt
                  [] k = Export             -> mod.vec[Export].cnt
                  [] OTHER                  -> 0

\* How the process is lost in `n' turns through an array, or "".
ArrayTrouble(v, n) == CASE n > 0 /\ Reads(v.arr) # "" -> Reads(v.arr)
                        [] n > Len(v.elt)             -> "bad"
                        [] OTHER                      -> ""

FreedVector(k) == Owned(k, FreeTurns(k)) \o <<mod.vec[k].arr>>

(* A function whose lists nobody has set up is taken for one with blocks:  *)
(* the first of them is NULL.                                              *)
UnreadyFunc(k) == /\ k = Function
                  /\ \E i \in 1..FreeTurns(k) : ~mod.vec[k].elt[i].ready

VectorTrouble(k) ==
    LET trouble == ArrayTrouble(mod.vec[k], FreeTurns(k))
    IN IF trouble # "" THEN trouble
       ELSE IF UnreadyFunc(k) THEN "crash"
       ELSE IF Freeable(FreedVector(k)) THEN "" ELSE "bad"

Freeing(handler) == pc = "free" /\ at <= Len(mod.secs) /\ Sec.free = handler

FreeVector(k) ==
    /\ Freeing(k)
    /\ IF VectorTrouble(k) = ""
       THEN NextSection /\ live' = Without(FreedVector(k) \o <<Section(at)>>)
       ELSE Lost(VectorTrouble(k)) /\ UNCHANGED live
    /\ UNCHANGED <<fails, mod, nxt>> /\ UnchangedFile

\* What an import has to be freed, and its array, as import 0.
ImportPtr(k, i, j) ==
    LET v == mod.imp[k]
    IN IF i = 0 THEN IF j = 1 THEN v.arr ELSE Null
       ELSE <<v.elt[i].f, v.elt[i].mname, v.elt[i].nsname>>[j]

ImportSlots == UNION {{k} \X (0..mod.imp[k].cnt) \X (1..3) : k \in Kinds}

FreedImports == [s \in ImportSlots |-> ImportPtr(s[1], s[2], s[3])]

ImportsTrouble ==
    LET troubles == {ArrayTrouble(mod.imp[k], mod.imp[k].cnt) : k \in Kinds} \ {""}
    IN IF troubles # {} THEN troubles
       ELSE IF Freeable(FreedImports) THEN {} ELSE {"bad"}

\* The arrays are taken back, their counts are not.
FreeImports ==
    /\ Freeing(Import)
    /\ IF ImportsTrouble = {}
       THEN /\ NextSection
            /\ live' = Without(FreedImports) \ {Section(at)}
            /\ mod' = [mod EXCEPT !.imp = [k \in Kinds |-> [@[k] EXCEPT !.arr = Null]]]
       ELSE (\E how \in ImportsTrouble : Lost(how)) /\ UNCHANGED <<live, mod>>
    /\ UNCHANGED <<fails, nxt>> /\ UnchangedFile

\* A section without a free handler: never parsed, or nothing of its own.
FreePlain ==
    /\ Freeing(0)
    /\ NextSection
    /\ live' = Without(<<Section(at)>>)
    /\ UNCHANGED <<fails, mod, nxt>> /\ UnchangedFile

\* Then the types, the data of the file and the module itself.
FreeRest ==
    /\ pc = "free" /\ at > Len(mod.secs)
    /\ LET ptrs    == Owned(Type, Types.cnt) \o <<Types.arr, mod.filedata, Module>>
           trouble == ArrayTrouble(Types, Types.cnt)
       IN IF trouble = "" /\ Freeable(ptrs)
          THEN pc' = back /\ live' = Without(ptrs)
          ELSE pc' = (IF trouble = "" THEN "bad" ELSE trouble) /\ UNCHANGED live
    /\ UNCHANGED <<fails, mod, at, item, todo, nxt, parsed>> /\ UnchangedFile

-----------------------------------------------------------------------------
(***************************************************************************)
(* A number that is not read to its end                                    *)
(***************************************************************************)
\* The numbers of a constant expression, of limits, of an import at `p'.
ExprNumbers(p) == IF p \in DOMAIN cells /\ cells[p] \in {65, 66, 35} THEN {p + 1} ELSE {}

LimitsNumbers(p) ==
    {p, p + 1} \cup IF p \in DOMAIN cells /\ cells[p] = 1 THEN {p + 2} ELSE {}

TailNumbers(k, p) ==
    CASE k = FuncKind -> {p}
      [] k = TabKind  -> {p} \cup IF probe # 0 THEN {} ELSE LimitsNumbers(p + 1)
      [] k = MemKind  -> LimitsNumbers(p)
      [] k = GlobKind -> {p, p + 1}
      [] OTHER        -> {}

ImportNumbers(p, last) ==
    LET at0  == KindAt(p, last)
        kind == cells[at0]
        stray == probe = 0 /\ kind \in Kinds /\ nxt[kind] > Len(mod.imp[kind].elt)
    IN {p, RunEnd(p, last), at0}
         \cup IF at0 = 0 \/ stray THEN {} ELSE TailNumbers(kind, at0 + 1)

\* The numbers of an entry at `p', as far as its handler gets.
EntryNumbers(t, p, last) ==
    CASE t = Type   -> IF cells[p] = 96 THEN {p + 1, RunEnd(p + 1, last)} ELSE {}
      [] t = Import -> ImportNumbers(p, last)
      [] t = Table  -> {p} \cup IF cells[p] = 112 THEN LimitsNumbers(p + 1) ELSE {}
      [] t = Global -> {p, p + 1} \cup ExprNumbers(p + 2)
      [] t = Export -> {p, p + 2 + cells[p]}
      [] t \in {Elem, Data} -> {p, ExprEnd(p + 1, last)} \cup ExprNumbers(p + 1)
      [] OTHER      -> {p}

\* The numbers of a body up to its code, at `p': its size, its locals.
BodyNumbers(p) ==
    p..(IF p + 1 \in DOMAIN cells THEN p + 1 + 2 * cells[p + 1] ELSE p)

\* What section func reads in section code, behind a number of its own.
CodeNumbers ==
    IF item = 0 THEN {CodeSec.pos}
    ELSE IF cells[Sec.pos] <= Types.cnt /\ Reads(Types.arr) = ""
    THEN BodyNumbers(CodeSec.pos)
    ELSE {}

Before(last, ps) == ps \cap 1..(last - 1)

(* The numbers the next step reads, as far as it gets: the size of a       *)
(* section, a count, an entry.                                             *)
NumbersAhead ==
    IF pc = "sections" /\ fpos < Len(cells)
    THEN IF KnownType(cells[fpos]) THEN {fpos + 1} ELSE {}
    ELSE IF pc = "parse" /\ at <= Len(mod.secs) /\ Sec.type \in Counted \cup {Start}
    THEN LET p == IF probe # 0 THEN probe ELSE Sec.pos
         IN IF (item > todo /\ item # 0) \/ p >= Sec.last THEN {}
            ELSE Before(Sec.last, IF item = 0 THEN {p} ELSE EntryNumbers(Sec.type, p, Sec.last))
                   \cup IF Sec.type = Function /\ ~Unended(p)
                        THEN Before(CodeSec.last, CodeNumbers) ELSE {}
    ELSE {}

NumbersEnd == \A p \in NumbersAhead : ~Unended(p)

(* The first of them is read for ever, or on behind the file.  What the    *)
(* step has allocated by then is left out.                                 *)
NumberUnended ==
    \E p \in NumbersAhead :
        /\ Unended(p)
        /\ \A q \in NumbersAhead : Unended(q) => p <= q
        /\ pc' = Unending(p)
        /\ UNCHANGED <<live, fails, loaderVars>>

-----------------------------------------------------------------------------
LoadFile == \/ OpenFails \/ ReadFails \/ ReadFile
            \/ BadHeader \/ NewModule \/ SplitSection \/ SplitEnds
            \/ CloseFile \/ Detach

ParseFile == \/ NoCount \/ ZeroCount \/ BeginVector \/ SectionEnds \/ SkipSection
             \/ PlainEntry \/ TypeEntry \/ ExportEntry \/ ElemEntry
             \/ BeginMemory \/ ParseStart
             \/ BeginFuncs \/ FuncEntry
             \/ BeginImports \/ CountImport \/ ImportArrays
             \/ ImportCut \/ ImportStray \/ ImportEntry
             \/ ParseEnds

FreeModule == \/ FreePlain \/ FreeImports \/ FreeRest
              \/ \E k \in Vectors : FreeVector(k)

LoaderNext == \/ NumbersEnd /\ (LoadFile \/ ParseFile)
              \/ NumberUnended
              \/ FreeModule

=============================================================================
