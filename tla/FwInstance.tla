----------------------------- MODULE FwInstance -----------------------------
(***************************************************************************)
(* fw_module_compile after its validation pass (FwValidate has that): the  *)
(* index space of imported and own functions, the exports; and the lookup  *)
(* of an exported function, fw_module_get_export_func.                     *)
(***************************************************************************)
EXTENDS FwLoader, FwImports

VARIABLES
    funcs,             \* instance->funcs, as far as it is written
    turn,              \* the loops of fw_instance_funcs and fw_module_compile
    compiled,          \* what fw_module_compile answered
    ran                \* the function fw_module_run was given, 0 for none

instanceVars == <<funcs, turn, compiled, ran>>

Instance  == Obj("instance", 0, 0)
FuncTable == Obj("instance funcs", 0, 0)

(* A function of the index space.  An import has the host's address and    *)
(* the type its entry names; an own function is an entry of module->funcs. *)
HostFunc(host, type) == [host |-> host, type |-> type, own |-> 0]
OwnFunc(i)  == [host |-> NoHost, type |-> Null, own |-> i]
StrayFunc   == [host |-> NoHost, type |-> Wild, own |-> 0]

InstanceInit == funcs = << >> /\ turn = 0 /\ compiled = "none" /\ ran = 0

CompileErr == pc' = "compiled" /\ compiled' = "err" /\ UNCHANGED <<funcs, turn>>

CompileLost(how) == pc' = how /\ UNCHANGED <<funcs, turn, compiled>>

LoaderRests == UNCHANGED <<cells, short, fpos, at, item, todo, nxt, probe, back, parsed>>

ImportedFuncs == mod.imp[FuncKind]

OwnFuncs == mod.vec[Function]

OwnBodies == {i \in DOMAIN OwnFuncs.elt : OwnFuncs.elt[i].first < OwnFuncs.elt[i].last}

BodyCells == UNION {OwnFuncs.elt[i].first..(OwnFuncs.elt[i].last - 1) : i \in OwnBodies}

\* end, return, drop: opcodes whose consume handler does nothing.
PlainOps == {11, 15, 26}

(* fw_module_validate_inst answers FW_OK whatever it meets.  A body that   *)
(* reaches beyond the file takes it there; FwValidate says by which of the *)
(* other opcodes it may be lost.                                           *)
Validated ==
    IF \E p \in BodyCells : p > Len(cells) THEN {"bad"}
    ELSE IF \A p \in BodyCells : cells[p] \in PlainOps THEN {"resolve"}
    ELSE {"resolve"} \cup LostStates \cup {Unending(p) : p \in {q \in BodyCells : Unended(q)}}

(* The validation of the bodies lies between the two allocations.  A       *)
(* module that has an instance is not compiled again.                      *)
CompileBegins ==
    /\ pc = "compile"
    /\ LoaderRests /\ UNCHANGED <<importsVars, ran>>
    /\ IF mod.instance # Null
       THEN CompileErr /\ UNCHANGED <<live, fails, mod>>
       ELSE \/ /\ Mallocs(<<Null>>)
               /\ CompileErr
               /\ UNCHANGED mod
            \/ \E a \in Answer(FuncTable), v \in Validated :
                 /\ mod' = [mod EXCEPT !.instance = Instance]
                 /\ IF v # "resolve"
                    THEN Mallocs(<<Instance>>) /\ CompileLost(v)
                    ELSE IF a = Null
                    THEN Mallocs(<<Instance, a>>) /\ CompileErr
                    ELSE /\ Mallocs(<<Instance, a>>)
                         /\ pc' = "resolve"
                         /\ turn' = 1
                         /\ UNCHANGED <<funcs, compiled>>

\* Variant: the bound of section func (fw_loader.c:538).
TypeKnownByOne(idx) == idx <= Types.cnt

TypeKnown(idx) == idx < Types.cnt

(* One function import: an entry that was not filled has no names, one     *)
(* whose record could not be allocated no place for the address.           *)
ResolveImport ==
    /\ pc = "resolve" /\ turn <= ImportedFuncs.cnt
    /\ LoaderRests /\ UNCHANGED <<live, fails, mod, buckets, glbs, ran>>
    /\ LET e == ImportedFuncs.elt[turn]
       IN IF ArrayTrouble(ImportedFuncs, turn) # ""
          THEN CompileLost(ArrayTrouble(ImportedFuncs, turn)) /\ UNCHANGED answer
          ELSE IF Null \in {e.mname, e.nsname}
          THEN CompileLost("crash") /\ UNCHANGED answer
          ELSE /\ answer' = <<<<e.mtext, e.ntext>>, Found(e.mtext, e.ntext)>>
               /\ IF Found(e.mtext, e.ntext) = NoHost \/ ~TypeKnown(e.typeidx)
                  THEN CompileErr
                  ELSE IF e.f = Null \/ Reads(Types.arr) # ""
                  THEN CompileLost("crash")
                  ELSE /\ funcs' = Append(funcs, HostFunc(Found(e.mtext, e.ntext),
                                                          TypeAt(e.typeidx)))
                       /\ turn' = turn + 1
                       /\ UNCHANGED <<pc, compiled>>

OwnAddress(j) ==
    IF OwnFuncs.arr \in live /\ j <= Len(OwnFuncs.elt) THEN OwnFunc(j) ELSE StrayFunc

\* Variant: the own functions come first.
OwnFirst(imported, own) == own \o imported

ImportsFirst(imported, own) == imported \o own

TableOwn ==
    /\ pc = "resolve" /\ turn > ImportedFuncs.cnt
    /\ funcs' = ImportsFirst(funcs, [j \in 1..OwnFuncs.cnt |-> OwnAddress(j)])
    /\ turn' = 1
    /\ pc' = "exports"
    /\ UNCHANGED <<live, fails, loaderVars, importsVars, compiled, ran>>

Exports == mod.vec[Export]

\* The index an export may be taken to have: any, if nobody has written it.
IndexOf(e) == IF e.idx = -1 THEN {0, Len(funcs)} ELSE {e.idx}

InIndexSpace(idx) == idx < OwnFuncs.cnt + ImportedFuncs.cnt

(* The kind of an export is not looked at: a table, a memory or a global   *)
(* is given the function of the same index.                                *)
BindExport ==
    /\ pc = "exports" /\ turn <= Exports.cnt
    /\ LoaderRests /\ UNCHANGED <<live, fails, importsVars, ran>>
    /\ \E idx \in IndexOf(Exports.elt[turn]) :
          IF ~InIndexSpace(idx)
          THEN CompileErr /\ UNCHANGED mod
          ELSE /\ mod' = [mod EXCEPT !.vec[Export].elt[turn].func = idx + 1]
               /\ turn' = turn + 1
               /\ UNCHANGED <<pc, funcs, compiled>>

CompileEnds ==
    /\ pc = "exports" /\ turn > Exports.cnt
    /\ pc' = "compiled"
    /\ compiled' = "ok"
    /\ UNCHANGED <<live, fails, loaderVars, importsVars, funcs, turn, ran>>

CompileNext == \/ CompileBegins \/ ResolveImport \/ TableOwn
               \/ BindExport \/ CompileEnds

-----------------------------------------------------------------------------
(***************************************************************************)
(* fw_module_run.  What the function does when it runs is FwExec's.        *)
(***************************************************************************)
\* fw_module_get_export_func stops at an export of that name, or is lost at
\* one whose name is not there.
Stops(name) == {i \in 1..Exports.cnt :
                  Exports.elt[i].own \notin live \/ Exports.elt[i].text = name}

\* Variant: the last export of that name.
ExportStopLast(name) == CHOOSE i \in Stops(name) : \A j \in Stops(name) : j <= i

ExportStop(name) == CHOOSE i \in Stops(name) : \A j \in Stops(name) : i <= j

\* func->functype, which fw_module_run_func reads first.
FuncTypeOf(f) == IF f.own = 0 THEN f.type ELSE OwnFuncs.elt[f.own].type

ContextObjs == <<Obj("context", 0, 0), Obj("stack", 0, 0)>>
HostObjs    == <<Obj("args", 0, 0), Obj("rets", 0, 0)>>

Drop == 26

(* A function that does nothing but drop some of its parameters, and       *)
(* leaves as many values as it has results: FwExec says how any other may  *)
(* be lost.  It has a parameter: with no local either it would free a      *)
(* pointer nobody has assigned (fw_exec.c:199, 219).  Its locals are not   *)
(* as many as make the sum of both wrap (fw_exec.c:181).                   *)
Quiet(k) ==
    LET f     == OwnFuncs.elt[funcs[k].own]
        body  == f.first..(f.last - 1)
        drops == Cardinality({p \in body : cells[p] = Drop})
        groups == {p \in 2..(f.first - 1) : f.first = p + 1 + 2 * cells[p]}
    IN /\ \A p \in body : p <= Len(cells) /\ cells[p] \in PlainOps
       /\ \E j \in DOMAIN Types.elt :
             LET params  == Types.elt[j].text[1]
                 results == Types.elt[j].text[params + 2]
             IN /\ Types.elt[j].own = f.type
                /\ params \in 1..255 /\ drops + results <= params
                /\ \A p \in groups : \A g \in 1..cells[p] :
                      cells[p] * cells[p + 2 * g - 1] + params < U32

(* Its arguments are taken off the stack, where all are i32; when one is   *)
(* to be of another type, what was allocated for them is not freed.        *)
RunHost ==
    \/ Mallocs(ContextObjs) /\ pc' \in {"succeeded", "failed"}
    \/ Mallocs(ContextObjs \o <<Null>>) /\ pc' = "failed"
    \/ \E n \in 1..2 : Mallocs(ContextObjs \o SubSeq(HostObjs, 1, n)) /\ pc' = "failed"

\* The host returns from a function of its own.
Harmless(k) == funcs[k].own = 0 \/ Quiet(k)

\* _fw_module_run_func answers FW_OK even when it has given up.
OwnOutcomes == {"succeeded", "exit", "hung"} \cup LostStates

(* Without memory for its locals it frees the `save_locals' it has not     *)
(* assigned (fw_exec.c:184, 230).                                          *)
RunOwn(k) ==
    \/ Mallocs(ContextObjs) /\ pc' \in (IF Quiet(k) THEN {"succeeded"} ELSE OwnOutcomes)
    \/ Mallocs(ContextObjs \o <<Null>>) /\ pc' \in OwnOutcomes

(* It may be given too few arguments, or no memory for the context, which  *)
(* is not freed when the run is over.                                      *)
RunFunc(k) ==
    /\ ran' = k
    /\ \/ UNCHANGED <<live, fails>> /\ pc' = "failed"
       \/ fails > 0 /\ fails' = fails - 1 /\ UNCHANGED live /\ pc' = "failed"
       \/ funcs[k].own = 0 /\ RunHost
       \/ funcs[k].own # 0 /\ RunOwn(k)

Run(name) ==
    /\ pc = "run"
    /\ UNCHANGED <<loaderVars, importsVars, funcs, turn, compiled>>
    /\ IF Stops(name) = {}
       THEN pc' = "failed" /\ UNCHANGED <<live, fails, ran>>
       ELSE LET e == Exports.elt[ExportStop(name)]
            IN IF e.own \notin live
               THEN pc' = Reads(e.own) /\ UNCHANGED <<live, fails, ran>>
               ELSE IF Reads(FuncTypeOf(funcs[e.func])) # ""
               THEN /\ pc' = Reads(FuncTypeOf(funcs[e.func]))
                    /\ UNCHANGED <<live, fails, ran>>
               ELSE RunFunc(e.func)

=============================================================================
