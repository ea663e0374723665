------------------------------- MODULE FwExec -------------------------------
(***************************************************************************)
(* The interpreter: fw_module_run_func, _fw_module_run_func and the `run'  *)
(* handlers of the opcodes.  One step is one handler, or the entry or the  *)
(* exit of a C function the handlers recurse through.                      *)
(*                                                                         *)
(* The operand stack is one array for the whole run; a call nests a C      *)
(* activation of _fw_module_run_func, an `if' one of fw_instr_run_if.      *)
(* fw_module_context_t.current is written by the handlers of block and if  *)
(* and read by none, and is left out; so is the label target (end,         *)
(* private) of a stack cell, which only fw_instr_run_else would read,      *)
(* behind a test for a FW_INSTR_IF cell that no handler pushes.            *)
(***************************************************************************)
EXTENDS FwCode, SequencesExt

CONSTANTS
    StackMax,          \* FW_MAX_STACK_SIZE
    DepthMod,          \* 2^8: the range of fw_module_frame.stack_deepth
    MaxActs,           \* activations the native stack has room for
    ArgVals,           \* what atoi makes of a command line argument
    HostVals,          \* what a host function may answer
    HostArgsMax,       \* 20: the arguments _fw_module_run_host_func can pass
    RunAllocMayFail    \* whether malloc and calloc may answer NULL

\* What the constants are assumed to be; FwRuntime assumes it of its own.
ExecConstants ==
    /\ StackMax \in Nat \ {0}
    /\ DepthMod \in 1..StackMax
    /\ MaxActs \in Nat \ {0}
    /\ ArgVals \subseteq Nat
    /\ HostVals \subseteq Nat
    /\ HostArgsMax \in Nat
    /\ RunAllocMayFail \in BOOLEAN

VARIABLES
    phase,             \* "idle", "run", or how the run ended
    args,              \* the arguments fw_module_run was called with
    calling,           \* function _fw_module_run_func is entered with, or 0
    acts,              \* the C activations, the running one last; `base' is
                       \* a history field: ctx->pos when it was entered
    stack, sp,         \* ctx->stack and ctx->pos
    frame,             \* ctx->frame
    locals,            \* ctx->locals
    heap,              \* every fw_func_locals_t allocated, by identity
    result,            \* rets->val
    astray             \* history: an err label was taken, or a C local read
                       \* that nothing had written

evars == <<phase, args, calling, acts, stack, sp, frame, locals, heap,
           result, astray>>

(* How a run ends: "ok" and "fail" are FW_OK and FW_ERR of                 *)
(* fw_module_run_func; "exit" is exit(-1) of FW_PUSH, FW_POP or            *)
(* FW_STACK_GET; "crash" a call through NULL, a NULL dereference or an     *)
(* exhausted native stack; "bad_free" and "bad_access" a free or an access *)
(* the C library does not define; "wild" the decoding of bytes that are    *)
(* not instructions.  Nothing is modelled after any of them.               *)
Phases == {"idle", "run", "ok", "fail", "exit", "crash", "wild",
           "bad_free", "bad_access"}

\* Values of ctx->locals that are not the identity of a block of the heap.
Null == 0
Wild == -1

CellTypes == {"i32", "wide", "label"}
StackCell == [t : CellTypes, v : Nat]
I32(n) == [t |-> "i32", v |-> n]
Label(type) == [t |-> "label", v |-> type]

NoFrame == [end |-> 0, depth |-> 0]

-----------------------------------------------------------------------------
Init ==
    /\ phase = "idle"
    /\ args = << >>
    /\ calling = 0
    /\ acts = << >>
    /\ stack = [i \in 0..(StackMax - 1) |-> I32(0)]
    /\ sp = 0
    /\ frame = NoFrame
    /\ locals = Null
    /\ heap = << >>
    /\ result = -1
    /\ astray = FALSE

Top == Last(acts)

F(f) == prog.funcs[f]

Op == prog.code[Top.pos].op
Arg == prog.code[Top.pos].arg
Imm == prog.code[Top.pos].imm

\* The handler has read its immediates (or has none) and goes on.
Read == Imm \in {"whole", "cut"}

\* The loop of the running activation has a next opcode to fetch.
Fetching == phase = "run" /\ calling = 0 /\ acts # << >> /\ Top.pos < Top.last

\* The running activation's cursor, moved behind the cell.
Onward == Behind(Top.pos, Top.last)

Advanced == [acts EXCEPT ![Len(acts)].pos = Onward]

\* The k-th cell from the top of the stack.
Cell(k) == stack[sp - k]

(* Where the list of the running function has a block with the start       *)
(* address fw_instr_find_blk looks for, and the block it answers: the      *)
(* first of them.                                                          *)
Found == {m \in 1..Len(blk[Top.fn]) :
             Read /\ desc[blk[Top.fn][m]].start = Onward}

FirstFound == blk[Top.fn][CHOOSE m \in Found : \A n \in Found : m <= n]

(* Cells the handler pops or peeks, and whether it pushes: local.set pops  *)
(* before it reads its immediate, the others after.                        *)
Needs(op) == CASE op = "select" -> 3
               [] op \in {"eq", "ne", "gt_s"} -> 2
               [] op \in {"drop", "eqz", "set", "else"} -> 1
               [] op = "tee" /\ Read -> 1
               [] op = "if" /\ Found # {} -> 1
               [] OTHER -> 0

\* Variant: local.get pushes without a look at ctx->end.
GrowsNotGet(op) == \/ op \in {"const", "wide", "loop"} /\ Read
                   \/ op = "block" /\ Found # {}

Grows(op) == \/ op \in {"const", "wide", "get", "loop"} /\ Read
             \/ op = "block" /\ Found # {}

At(op) ==
    /\ Fetching
    /\ Op = op
    /\ Read
    /\ sp >= Needs(op)
    /\ Grows(op) => sp < StackMax

\* Drop k cells, then push one.
Push(k, cell) ==
    /\ stack' = [stack EXCEPT ![sp - k] = cell]
    /\ sp' = sp - k + 1

Pop(k) == sp' = sp - k /\ UNCHANGED stack

-----------------------------------------------------------------------------
(***************************************************************************)
(* fw_module_run_func                                                      *)
(***************************************************************************)
(* The caller's arguments are a command line: there may be more of them    *)
(* than parameters, and fewer is an error.                                 *)
Start ==
    /\ phase = "idle"
    /\ \E n \in 0..(F(prog.main).nparam + 1) : args' \in [1..n -> ArgVals]
    /\ LET n == F(prog.main).nparam
       IN CASE Len(args') < n -> phase' = "fail" /\ UNCHANGED <<calling, stack, sp>>
            [] Len(args') >= n /\ n > StackMax ->
                  phase' = "exit" /\ UNCHANGED <<calling, stack, sp>>
            [] OTHER ->
                  /\ phase' = "run"
                  /\ calling' = prog.main
                  /\ stack' = [i \in 0..(StackMax - 1) |->
                                  IF i < n THEN I32(args'[i + 1]) ELSE stack[i]]
                  /\ sp' = n
    /\ UNCHANGED <<acts, frame, locals, heap, result, astray>>

\* fw_module_context_new answers NULL.
StartFails ==
    /\ RunAllocMayFail
    /\ phase = "idle"
    /\ phase' = "fail"
    /\ UNCHANGED <<args, calling, acts, stack, sp, frame, locals, heap, result,
                   astray>>

\* The exported function has returned FW_OK: its result is on top.
GetRet ==
    /\ phase = "run" /\ calling = 0 /\ acts = << >>
    /\ IF F(prog.main).nres = 0
       THEN phase' = "ok" /\ UNCHANGED <<sp, result>>
       ELSE IF sp = 0
       THEN phase' = "exit" /\ UNCHANGED <<sp, result>>
       ELSE phase' = "ok" /\ sp' = sp - 1 /\ result' = Cell(1).v
    /\ UNCHANGED <<args, calling, acts, stack, frame, locals, heap, astray>>

-----------------------------------------------------------------------------
(***************************************************************************)
(* fw_module_run_host_func                                                 *)
(***************************************************************************)
EnteringHost == phase = "run" /\ calling # 0 /\ F(calling).host

\* How many arguments are popped before one is not there or not an i32.
GoodArgs ==
    LET n == F(calling).nparam
        bad == {k \in 1..n : k > sp \/ (k <= sp /\ Cell(k).t # "i32")}
    IN IF bad = {} THEN n ELSE (CHOOSE k \in bad : \A j \in bad : k <= j) - 1

HostRuns ==
    /\ EnteringHost
    /\ GoodArgs = F(calling).nparam
    /\ F(calling).nparam <= HostArgsMax
    /\ F(calling).nres = 1 => sp - GoodArgs < StackMax
    /\ IF F(calling).nres = 1
       THEN \E r \in HostVals : Push(GoodArgs, I32(r))
       ELSE Pop(GoodArgs)
    /\ calling' = 0
    /\ UNCHANGED <<phase, args, acts, frame, locals, heap, result, astray>>

(* FW_ERR after some pops, on a type that does not match, after all, when  *)
(* the dispatcher has no case for so many, or before any, when malloc      *)
(* fails.  fw_instr_run_call hands it to a loop that ignores it;           *)
(* fw_module_run_func hands it to its caller.                              *)
HostFails ==
    /\ EnteringHost
    /\ \/ /\ GoodArgs < F(calling).nparam /\ GoodArgs < sp
          /\ Pop(GoodArgs + 1)
       \/ /\ GoodArgs = F(calling).nparam /\ GoodArgs > HostArgsMax
          /\ Pop(GoodArgs)
       \/ /\ RunAllocMayFail /\ F(calling).nparam + F(calling).nres > 0
          /\ Pop(0)
    /\ calling' = 0
    /\ phase' = IF acts = << >> THEN "fail" ELSE "run"
    /\ UNCHANGED <<args, acts, frame, locals, heap, result, astray>>

HostExits ==
    /\ EnteringHost
    /\ \/ GoodArgs < F(calling).nparam /\ GoodArgs = sp
       \/ /\ GoodArgs = F(calling).nparam /\ GoodArgs <= HostArgsMax
          /\ F(calling).nres = 1 /\ sp - GoodArgs >= StackMax
    /\ phase' = "exit"
    /\ UNCHANGED <<args, calling, acts, stack, sp, frame, locals, heap, result,
                   astray>>

-----------------------------------------------------------------------------
(***************************************************************************)
(* _fw_module_run_func: entry                                              *)
(***************************************************************************)
Entering == phase = "run" /\ calling # 0 /\ ~F(calling).host

Slots(f) == F(f).nlocal + F(f).nparam

(* What C local `locals' may hold when nothing was assigned to it: NULL, a *)
(* value that is no block, or what an earlier activation left in its slot. *)
Garbage == {Null, Wild} \cup DOMAIN heap

(* The parameters are read, not popped, below the locals of the block.     *)
LocalsOf(f) ==
    [i \in 1..Slots(f) |->
        IF i <= F(f).nparam THEN stack[sp - F(f).nparam + i - 1].v ELSE 0]

Activate(loc) ==
    /\ acts' = Append(acts, [kind |-> "func", fn |-> calling,
                             pos |-> F(calling).first, last |-> F(calling).last,
                             save |-> locals, resume |-> 0, base |-> sp])
    /\ locals' = loc
    /\ frame' = [end |-> F(calling).last, depth |-> sp % DepthMod]
    /\ calling' = 0
    /\ UNCHANGED <<phase, args, stack, sp, result>>

Enter ==
    /\ Entering
    /\ Len(acts) < MaxActs
    /\ sp >= F(calling).nparam
    /\ Slots(calling) > 0
    /\ heap' = Append(heap, [vals |-> LocalsOf(calling), live |-> TRUE])
    /\ Activate(Len(heap) + 1)
    /\ UNCHANGED astray

\* Neither a local nor a parameter: `locals' is not assigned.
EnterNullary ==
    /\ Entering
    /\ Len(acts) < MaxActs
    /\ Slots(calling) = 0
    /\ \E loc \in Garbage : Activate(loc)
    /\ astray' = TRUE
    /\ UNCHANGED heap

(* The err label frees `save_locals', which nothing has assigned yet, and  *)
(* the caller goes on as if the call had been made.                        *)
EnterFails ==
    /\ RunAllocMayFail
    /\ Entering
    /\ Slots(calling) > 0
    /\ \E save \in Garbage :
          \/ /\ save = Null
             /\ calling' = 0
             /\ UNCHANGED <<phase, heap>>
          \/ /\ save \in DOMAIN heap /\ heap[save].live
             /\ calling' = 0
             /\ heap' = [heap EXCEPT ![save].live = FALSE]
             /\ UNCHANGED phase
          \/ /\ save = Wild \/ (save \in DOMAIN heap /\ ~heap[save].live)
             /\ phase' = "bad_free"
             /\ UNCHANGED <<calling, heap>>
    /\ astray' = TRUE
    /\ UNCHANGED <<args, acts, stack, sp, frame, locals, result>>

EnterExits ==
    /\ Entering
    /\ \/ sp < F(calling).nparam /\ phase' = "exit"
       \/ Len(acts) >= MaxActs /\ phase' = "crash"
    /\ UNCHANGED <<args, calling, acts, stack, sp, frame, locals, heap, result,
                   astray>>

-----------------------------------------------------------------------------
(***************************************************************************)
(* _fw_module_run_func: end of the loop, and its err label                 *)
(***************************************************************************)
\* Whether freeing the pointers of this list that are not NULL is defined.
Freeable(ptrs) ==
    \A i \in DOMAIN ptrs : ptrs[i] # Null =>
        /\ ptrs[i] \in DOMAIN heap /\ heap[ptrs[i]].live
        /\ \A j \in DOMAIN ptrs : ptrs[i] = ptrs[j] => i = j

(* free(p) for the pointers that are not NULL, then leave the activation   *)
(* with ctx->locals as given; err says whether the err label was taken.    *)
Leave(ptrs, loc, err) ==
    IF Freeable(ptrs)
    THEN /\ heap' = [i \in DOMAIN heap |->
                        [heap[i] EXCEPT !.live = @ /\ \A j \in DOMAIN ptrs :
                                                         ptrs[j] # i]]
         /\ locals' = loc
         /\ acts' = Front(acts)
         /\ astray' = (astray \/ err)
         /\ UNCHANGED phase
    ELSE /\ phase' = "bad_free"
         /\ UNCHANGED <<heap, locals, acts, astray>>

\* Variant: the locals are not freed.
EndFuncKeeps ==
    /\ phase = "run" /\ calling = 0 /\ acts # << >>
    /\ Top.kind = "func" /\ Top.pos >= Top.last
    /\ Leave(<< >>, Top.save, Top.pos # Top.last)
    /\ UNCHANGED <<args, calling, stack, sp, frame, result>>

\* Variant: ctx->locals is not put back.
EndFuncForgets ==
    /\ phase = "run" /\ calling = 0 /\ acts # << >>
    /\ Top.kind = "func" /\ Top.pos >= Top.last
    /\ Leave(<< locals >>, locals, Top.pos # Top.last)
    /\ UNCHANGED <<args, calling, stack, sp, frame, result>>

\* Variant: the code falls through into the err label.
EndFuncFreesSave ==
    /\ phase = "run" /\ calling = 0 /\ acts # << >>
    /\ Top.kind = "func" /\ Top.pos >= Top.last
    /\ Leave(<< locals, Top.save >>, Top.save, Top.pos # Top.last)
    /\ UNCHANGED <<args, calling, stack, sp, frame, result>>

EndFunc ==
    /\ phase = "run" /\ calling = 0 /\ acts # << >>
    /\ Top.kind = "func" /\ Top.pos >= Top.last
    /\ IF Top.pos = Top.last
       THEN Leave(<< locals >>, Top.save, FALSE)
       ELSE Leave(<< locals, Top.save >>, Top.save, TRUE)
    /\ UNCHANGED <<args, calling, stack, sp, frame, result>>

\* fw_get_instr answers NULL: ctx->locals stays that of the activation.
UnknownInFunc ==
    /\ Fetching /\ Op = "unknown" /\ Top.kind = "func"
    /\ Leave(<< Top.save >>, locals, TRUE)
    /\ UNCHANGED <<args, calling, stack, sp, frame, result>>

-----------------------------------------------------------------------------
(***************************************************************************)
(* The `run' handlers: values and locals                                   *)
(***************************************************************************)
Unchanged == UNCHANGED <<phase, args, calling, frame, heap, locals, result,
                         astray>>

RunConst == /\ At("const") /\ Push(0, I32(Arg))
            /\ acts' = Advanced /\ Unchanged

\* i64.const, f32.const and f64.const.
RunWide == /\ At("wide") /\ Push(0, [t |-> "wide", v |-> Arg])
           /\ acts' = Advanced /\ Unchanged

RunDrop == /\ At("drop") /\ Pop(1)
           /\ acts' = Advanced /\ Unchanged

RunSelect == /\ At("select")
             /\ Push(3, IF Cell(1).v # 0 THEN Cell(3) ELSE Cell(2))
             /\ acts' = Advanced /\ Unchanged

Truth(b) == IF b THEN 1 ELSE 0

RunEqz == /\ At("eqz") /\ Push(1, I32(Truth(Cell(1).v = 0)))
          /\ acts' = Advanced /\ Unchanged

RunEq == /\ At("eq") /\ Push(2, I32(Truth(Cell(2).v = Cell(1).v)))
         /\ acts' = Advanced /\ Unchanged

RunGtS == /\ At("gt_s") /\ Push(2, I32(Truth(Cell(2).v > Cell(1).v)))
          /\ acts' = Advanced /\ Unchanged

\* The only handler that looks at the types; its FW_ERR is ignored.
RunNe == /\ At("ne")
         /\ IF Cell(1).t = "i32" /\ Cell(2).t = "i32"
            THEN Push(2, I32(Truth(Cell(2).v # Cell(1).v)))
            ELSE Pop(2)
         /\ acts' = Advanced /\ Unchanged

\* ctx->locals is a block with this index: nothing in the code asks.
LocalThere == /\ locals \in DOMAIN heap
              /\ heap[locals].live
              /\ Arg < Len(heap[locals].vals)

\* local.get pushes every local as an i32.
RunLocalGet == /\ At("get") /\ LocalThere
               /\ Push(0, I32(heap[locals].vals[Arg + 1]))
               /\ acts' = Advanced /\ Unchanged

RunLocalSet ==
    /\ \/ At("set") /\ Pop(1)
       \/ At("tee") /\ Pop(0)
    /\ LocalThere
    /\ heap' = [heap EXCEPT ![locals].vals[Arg + 1] = Cell(1).v]
    /\ acts' = Advanced
    /\ UNCHANGED <<phase, args, calling, frame, locals, result, astray>>

LocalFault ==
    /\ At("get") \/ At("set") \/ At("tee")
    /\ ~LocalThere
    /\ phase' = IF locals = Null THEN "crash" ELSE "bad_access"
    /\ UNCHANGED <<args, calling, acts, stack, sp, frame, locals, heap, result,
                   astray>>

-----------------------------------------------------------------------------
(***************************************************************************)
(* The `run' handlers: control                                             *)
(***************************************************************************)
(* A label is pushed on the operand stack and fw_instr_run_end, which does *)
(* nothing, leaves it there.  FW_ERR, always the answer, is ignored.       *)
RunLoop == /\ At("loop") /\ Push(0, Label(Arg))
           /\ acts' = Advanced /\ Unchanged

RunBlock == /\ At("block")
            /\ IF Found # {} THEN Push(0, Label(Arg)) ELSE Pop(0)
            /\ acts' = Advanced /\ Unchanged

RunEnd == /\ At("end") /\ Pop(0)
          /\ acts' = Advanced /\ Unchanged

\* An `else' the interpreter runs into: a cell is popped, FW_ERR ignored.
RunElse == /\ At("else") /\ Pop(1)
           /\ acts' = Advanced /\ Unchanged

\* Variant: the first branch includes the `else' behind it.
RunIfElseToo ==
    /\ At("if")
    /\ IF Found = {}
       THEN Pop(0) /\ acts' = Advanced
       ELSE /\ Pop(1)
            /\ LET b == desc[FirstFound]
                   yes == Cell(1).v # 0
               IN acts' = IF Cell(1).t # "i32" THEN Advanced
                          ELSE Append(Advanced,
                                 [kind |-> "if", fn |-> Top.fn,
                                  pos |-> IF yes THEN b.start ELSE b.els,
                                  last |-> IF yes THEN b.els ELSE b.end,
                                  save |-> Null, resume |-> b.end,
                                  base |-> sp - 1])
    /\ Unchanged

(* A branch is run by a nested loop over its bytes.  Without a block in    *)
(* the table, or an i32 on the stack, the handler answers FW_ERR and the   *)
(* loop that called it goes on with the first branch.                      *)
RunIf ==
    /\ At("if")
    /\ IF Found = {}
       THEN Pop(0) /\ acts' = Advanced
       ELSE /\ Pop(1)
            /\ LET b == desc[FirstFound]
                   yes == Cell(1).v # 0
               IN acts' = IF Cell(1).t # "i32" THEN Advanced
                          ELSE Append(Advanced,
                                 [kind |-> "if", fn |-> Top.fn,
                                  pos |-> IF yes THEN b.start ELSE b.els,
                                  last |-> IF yes THEN b.els - 1 ELSE b.end,
                                  save |-> Null, resume |-> b.end,
                                  base |-> sp - 1])
    /\ Unchanged

\* A cursor beyond the branch is a `return' on its way out.
EndIf ==
    /\ phase = "run" /\ calling = 0 /\ acts # << >>
    /\ Top.kind = "if" /\ Top.pos >= Top.last
    /\ acts' = [Front(acts) EXCEPT ![Len(acts) - 1].pos =
                   IF Top.pos > Top.last THEN Top.pos ELSE Top.resume]
    /\ Pop(0) /\ Unchanged

\* FW_ERR, ignored: the caller's cursor is at the first branch.
UnknownInIf ==
    /\ Fetching /\ Op = "unknown" /\ Top.kind = "if"
    /\ acts' = Front(acts)
    /\ Pop(0) /\ Unchanged

RunCall ==
    /\ At("call")
    /\ IF Arg \in Funcs
       THEN calling' = Arg /\ acts' = Advanced /\ UNCHANGED phase
       ELSE phase' = "bad_access" /\ UNCHANGED <<calling, acts>>
    /\ UNCHANGED <<args, stack, sp, frame, locals, heap, result, astray>>

\* Variant: the results are moved and the function goes on.
RunReturnStays ==
    /\ At("return")
    /\ LET n == F(Top.fn).nres
       IN IF sp - n = frame.depth \/ sp < n THEN Pop(0)
          ELSE /\ stack' = IF n = 1 THEN [stack EXCEPT ![frame.depth] = Cell(1)]
                           ELSE stack
               /\ sp' = frame.depth + n
    /\ acts' = Advanced
    /\ Unchanged

\* Variant: the cursor is set to the start of the function.
RunReturnAgain ==
    /\ At("return")
    /\ LET n == F(Top.fn).nres
       IN IF sp - n = frame.depth \/ sp < n THEN Pop(0)
          ELSE /\ stack' = IF n = 1 THEN [stack EXCEPT ![frame.depth] = Cell(1)]
                           ELSE stack
               /\ sp' = frame.depth + n
    /\ acts' = [acts EXCEPT ![Len(acts)].pos = F(Top.fn).first]
    /\ Unchanged

\* Variant: the results are moved to the bottom of the stack.
RunReturnBottom ==
    /\ At("return")
    /\ sp >= F(Top.fn).nres
    /\ stack' = IF F(Top.fn).nres = 1 THEN [stack EXCEPT ![0] = Cell(1)] ELSE stack
    /\ sp' = F(Top.fn).nres
    /\ acts' = [acts EXCEPT ![Len(acts)].pos = frame.end]
    /\ Unchanged

(* The results move to where ctx->frame says the operands of the function  *)
(* begin; the comparison of int32_t i with uint32_t ctx->pos in the loop   *)
(* skips it when i is negative.                                            *)
RunReturn ==
    /\ At("return")
    /\ LET n == F(Top.fn).nres
           from == sp - n
           to == frame.depth
       IN IF from = to THEN Pop(0)
          ELSE IF from >= 0
          THEN /\ stack' = IF n = 1 THEN [stack EXCEPT ![to] = Cell(1)] ELSE stack
               /\ sp' = to + n
          ELSE UNCHANGED stack /\ sp' = to
    /\ acts' = [acts EXCEPT ![Len(acts)].pos = frame.end]
    /\ Unchanged

(* The immediate is refused: FW_ERR, which the loop ignores, and the next  *)
(* opcode is the byte behind this one.                                     *)
RunRefused ==
    /\ Fetching /\ Imm = "refused" /\ Op # "norun"
    /\ sp >= Needs(Op)
    /\ Pop(IF Op = "set" THEN 1 ELSE 0)
    /\ acts' = Advanced /\ Unchanged

\* instr->run is NULL, or the cell is not an instruction at all.
RunNothing ==
    /\ Fetching
    /\ \/ Op \in {"norun", "hole"} /\ phase' = "crash"
       \/ Op = "hdr" /\ phase' = "wild"
    /\ UNCHANGED <<args, calling, acts, stack, sp, frame, locals, heap, result,
                   astray>>

\* FW_PUSH on a full stack, FW_POP on an empty one.
StackExits ==
    /\ Fetching
    /\ sp < Needs(Op) \/ (Grows(Op) /\ sp >= StackMax)
    /\ phase' = "exit"
    /\ UNCHANGED <<args, calling, acts, stack, sp, frame, locals, heap, result,
                   astray>>

-----------------------------------------------------------------------------
RunValue == \/ RunConst \/ RunWide \/ RunDrop \/ RunSelect
            \/ RunEqz \/ RunEq \/ RunGtS \/ RunNe

RunLocal == RunLocalGet \/ RunLocalSet \/ LocalFault

RunControl == \/ RunLoop \/ RunBlock \/ RunEnd \/ RunElse \/ RunIf \/ EndIf
              \/ UnknownInIf \/ RunCall \/ RunReturn \/ RunRefused
              \/ RunNothing

Host == HostRuns \/ HostFails \/ HostExits

Frames == \/ Enter \/ EnterNullary \/ EnterFails \/ EnterExits
          \/ EndFunc \/ UnknownInFunc

Outer == Start \/ StartFails \/ GetRet

Next == RunValue \/ RunLocal \/ RunControl \/ StackExits \/ Host \/ Frames
        \/ Outer

-----------------------------------------------------------------------------
(***************************************************************************)
(* Properties                                                              *)
(***************************************************************************)
Pointer == {Null, Wild} \cup DOMAIN heap

Addr == 1..(Len(prog.code) + 1)

Cursor == 1..(Len(prog.code) + 2)

Activation == [kind : {"func", "if"}, fn : Funcs, pos : Cursor, last : Addr,
               save : Pointer, resume : Addr \cup {0}, base : 0..StackMax]

(* Every cursor stays inside the code buffer, or one cell behind it when   *)
(* the last immediate is cut, and the stack inside its array.              *)
TypeOK ==
    /\ phase \in Phases
    /\ args \in Seq(ArgVals)
    /\ calling \in Funcs \cup {0}
    /\ acts \in Seq(Activation)
    /\ stack \in [0..(StackMax - 1) -> StackCell]
    /\ sp \in 0..StackMax
    /\ frame \in [end : Addr \cup {0}, depth : 0..(DepthMod - 1)]
    /\ locals \in Pointer
    /\ heap \in Seq([vals : Seq(Nat), live : BOOLEAN])
    /\ result \in Nat \cup {-1}
    /\ astray \in BOOLEAN

FuncActs == {i \in DOMAIN acts : acts[i].kind = "func"}

Live == {i \in DOMAIN heap : heap[i].live}

(* Who owns the locals.  As long as no err label was taken and no function *)
(* without slots was entered, a block of locals is allocated exactly when  *)
(* ctx->locals or the `save_locals' of one activation points to it, and    *)
(* no two of them point to the same: _fw_module_run_func may free          *)
(* ctx->locals at its end without freeing another's.                       *)
LocalsOwned ==
    ~astray =>
        /\ Live = ({locals} \cup {acts[i].save : i \in FuncActs}) \ {Null}
        /\ \A i \in FuncActs : acts[i].save # locals
        /\ \A i, j \in FuncActs : acts[i].save = acts[j].save => i = j

(* A block is freed twice, or a pointer that is none freed, only after an  *)
(* err label or an uninitialised `locals', whatever the program does.      *)
NoBadFree == phase = "bad_free" => astray

(* When the exported function has returned, no locals are left allocated.  *)
NoLocalsLeak == (phase = "ok" /\ ~astray) => Live = {}

-----------------------------------------------------------------------------
(***************************************************************************)
(* The inductive invariant behind them.                                    *)
(***************************************************************************)
\* What the validation pass leaves: a listed block lies inside the code.
TableReady ==
    /\ IsProgram(prog)
    /\ blk \in [Funcs -> Seq(1..Len(desc))]
    /\ \A f \in Funcs : \A m \in 1..Len(blk[f]) :
          LET b == desc[blk[f][m]]
          IN {b.els, b.end} \subseteq 2..(Len(prog.code) + 1)

(* The outermost activation is that of a function, which has set           *)
(* ctx->frame; a branch has a place to go on behind it.                    *)
ActsNest ==
    /\ acts # << >> => acts[1].kind = "func" /\ frame.end # 0
    /\ \A i \in 1..Len(acts) : acts[i].kind = "if" => acts[i].resume # 0
    /\ phase = "ok" => acts = << >>

\* The outermost function has found no locals, and puts that back.
OuterLocals ==
    ~astray => IF acts = << >> THEN locals = Null ELSE acts[1].save = Null

RunInv ==
    /\ TypeOK
    /\ TableReady
    /\ ActsNest
    /\ LocalsOwned
    /\ OuterLocals
    /\ NoBadFree

=============================================================================
