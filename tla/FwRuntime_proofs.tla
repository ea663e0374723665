-------------------------- MODULE FwRuntime_proofs --------------------------
(***************************************************************************)
(* A compiled module is run safely, whatever the program and whatever      *)
(* allocation fails: what the validation pass leaves in the block table is *)
(* what the interpreter needs of it, and what the interpreter keeps.       *)
(***************************************************************************)
EXTENDS FwRuntime, TLAPS

\* The two components again, with what has been proved of each.
CP == INSTANCE FwValidate_proofs

RP == INSTANCE FwExec_proofs WITH RunAllocMayFail <- AllocMayFail

-----------------------------------------------------------------------------
(***************************************************************************)
(* The components of the composition are those of the proofs               *)
(***************************************************************************)
LEMMA SameCode ==
    /\ \A p : /\ CP!IsProgram(p) <=> IsProgram(p)
              /\ RP!IsProgram(p) <=> IsProgram(p)
              /\ Compile!IsProgram(p) <=> IsProgram(p)
              /\ Run!IsProgram(p) <=> IsProgram(p)
    /\ CP!Funcs = Compile!Funcs /\ RP!Funcs = Run!Funcs /\ CP!Funcs = RP!Funcs
    /\ CP!Block = Compile!Block
<1>1. CP!Ops = Ops /\ Compile!Ops = Ops /\ RP!Ops = Ops /\ Run!Ops = Ops
  BY DEF CP!Ops, Compile!Ops, RP!Ops, Run!Ops, Ops,
         CP!Openers, Compile!Openers, RP!Openers, Run!Openers, Openers
<1>2. /\ CP!Instr = Instr /\ Compile!Instr = Instr
      /\ RP!Instr = Instr /\ Run!Instr = Instr
  BY <1>1 DEF CP!Instr, Compile!Instr, RP!Instr, Run!Instr, Instr,
     CP!Immediates, Compile!Immediates, RP!Immediates, Run!Immediates, Immediates,
     CP!WithImm, Compile!WithImm, RP!WithImm, Run!WithImm, WithImm,
     CP!Openers, Compile!Openers, RP!Openers, Run!Openers, Openers
<1>3. CP!Func = Func /\ Compile!Func = Func /\ RP!Func = Func /\ Run!Func = Func
  BY DEF CP!Func, Compile!Func, RP!Func, Run!Func, Func
<1>4. ASSUME NEW p
      PROVE  /\ CP!IsProgram(p) <=> IsProgram(p)
             /\ RP!IsProgram(p) <=> IsProgram(p)
             /\ Compile!IsProgram(p) <=> IsProgram(p)
             /\ Run!IsProgram(p) <=> IsProgram(p)
  BY <1>2, <1>3 DEF CP!IsProgram, Compile!IsProgram, RP!IsProgram, Run!IsProgram,
     IsProgram
<1> QED
  BY <1>4 DEF CP!Funcs, Compile!Funcs, RP!Funcs, Run!Funcs, CP!Block, Compile!Block

\* What the two components are proved under.
LEMMA SameAssumptions ==
    /\ \A p \in Programs : CP!IsProgram(p)
    /\ \A p \in Programs : RP!IsProgram(p)
BY SameCode, ProgramsAssumption

LEMMA SamePassInv == CP!PassInv <=> Compile!PassInv
<1>1. CP!TypeOK <=> Compile!TypeOK
  BY SameCode DEF CP!TypeOK, Compile!TypeOK, CP!VPhases, Compile!VPhases,
     CP!CursorInBody, Compile!CursorInBody
<1>2. CP!StartsOrdered <=> Compile!StartsOrdered
  BY DEF CP!StartsOrdered, Compile!StartsOrdered, CP!Ids, Compile!Ids
<1>3. CP!OpenBlocks <=> Compile!OpenBlocks
  BY DEF CP!OpenBlocks, Compile!OpenBlocks
<1>4. CP!ClosedBlocks <=> Compile!ClosedBlocks
  BY DEF CP!ClosedBlocks, Compile!ClosedBlocks, CP!Ids, Compile!Ids
<1>5. CP!ClosedBeforeOpen <=> Compile!ClosedBeforeOpen
  BY DEF CP!ClosedBeforeOpen, Compile!ClosedBeforeOpen, CP!Ids, Compile!Ids
<1>6. CP!BlocksNested <=> Compile!BlocksNested
  BY DEF CP!BlocksNested, Compile!BlocksNested
<1>7. CP!Listed <=> Compile!Listed
  BY SameCode DEF CP!Listed, Compile!Listed
<1>8. CP!BlocksInBody <=> Compile!BlocksInBody
  BY SameCode DEF CP!BlocksInBody, Compile!BlocksInBody
<1>9. CP!IfsOfBody <=> Compile!IfsOfBody
  BY DEF CP!IfsOfBody, Compile!IfsOfBody
<1> QED
  BY <1>1, <1>2, <1>3, <1>4, <1>5, <1>6, <1>7, <1>8, <1>9
     DEF CP!PassInv, Compile!PassInv, CP!TableInv, Compile!TableInv

LEMMA SamePass == (Compile!Init => CP!Init) /\ (Compile!Next => CP!Next)
<1>1. Compile!Init => CP!Init
  BY DEF Compile!Init, CP!Init
<1>2. \A ops : Compile!At(ops) <=> CP!At(ops)
  BY DEF Compile!At, CP!At
<1>3. Compile!Plain = CP!Plain /\ Compile!Openers = CP!Openers
  BY DEF Compile!Plain, CP!Plain, Compile!Ops, CP!Ops, Compile!Openers, CP!Openers
<1>13. /\ Compile!Imm = CP!Imm
       /\ \A i, last : Compile!Behind(i, last) = CP!Behind(i, last)
  BY DEF Compile!Imm, CP!Imm, Compile!Behind, CP!Behind
<1>14. Compile!Moved <=> CP!Moved
  BY <1>13 DEF Compile!Moved, CP!Moved
<1>4. /\ Compile!NewBlock = CP!NewBlock
      /\ \A b, here : Compile!Closed(b, here) = CP!Closed(b, here)
      /\ \A s : Compile!Last(s) = CP!Last(s) /\ Compile!Front(s) = CP!Front(s)
  BY <1>13 DEF Compile!NewBlock, CP!NewBlock, Compile!Closed, CP!Closed,
         Compile!Last, CP!Last, Compile!Front, CP!Front
<1>15. Compile!OpenBlock => CP!OpenBlock
  BY <1>4, <1>13, <1>14 DEF Compile!OpenBlock, CP!OpenBlock
<1>5. Compile!ConsumePlain => CP!ConsumePlain
  BY <1>2, <1>3, <1>13, <1>14 DEF Compile!ConsumePlain, CP!ConsumePlain
<1>6. Compile!ConsumeHole => CP!ConsumeHole
  BY <1>2 DEF Compile!ConsumeHole, CP!ConsumeHole
<1>7. Compile!ConsumeBlock => CP!ConsumeBlock
  BY <1>2, <1>15 DEF Compile!ConsumeBlock, CP!ConsumeBlock
<1>8. Compile!ConsumeIf => CP!ConsumeIf
  BY <1>2, <1>13, <1>15 DEF Compile!ConsumeIf, CP!ConsumeIf
<1>9. Compile!AllocFails => CP!AllocFails
  BY <1>2, <1>3, <1>13 DEF Compile!AllocFails, CP!AllocFails,
     Compile!EmptyType, CP!EmptyType, Compile!ValueTypes, CP!ValueTypes
<1>10. Compile!ConsumeElse => CP!ConsumeElse
  BY <1>2, <1>4 DEF Compile!ConsumeElse, CP!ConsumeElse
<1>11. Compile!ConsumeEnd => CP!ConsumeEnd
  BY <1>2, <1>4 DEF Compile!ConsumeEnd, CP!ConsumeEnd
<1>12. Compile!NextFunc => CP!NextFunc
  BY DEF Compile!NextFunc, CP!NextFunc
<1> QED
  BY <1>1, <1>5, <1>6, <1>7, <1>8, <1>9, <1>10, <1>11, <1>12
     DEF Compile!Next, CP!Next

(* The steps of the interpreter, one by one.                               *)
LEMMA SameRun == (Run!Init => RP!Init) /\ (Run!Next => RP!Next)
<1> USE DEF Run!Last, RP!Last, Run!Top, RP!Top, Run!F, RP!F,
            Run!Imm, RP!Imm, Run!Read, RP!Read, Run!Behind, RP!Behind,
            Run!Onward, RP!Onward, Run!Op, RP!Op, Run!Arg, RP!Arg, Run!Fetching, RP!Fetching,
            Run!Advanced, RP!Advanced, Run!Cell, RP!Cell,
            Run!Found, RP!Found, Run!FirstFound, RP!FirstFound,
            Run!Needs, RP!Needs, Run!Grows, RP!Grows, Run!At, RP!At,
            Run!Push, RP!Push, Run!Pop, RP!Pop, Run!I32, RP!I32,
            Run!Label, RP!Label, Run!Unchanged, RP!Unchanged
<1>1. Run!Init => RP!Init
  BY DEF Run!Init, RP!Init, Run!NoFrame, RP!NoFrame, Run!Null, RP!Null
<1>2. Run!RunConst => RP!RunConst
  BY DEF Run!RunConst, RP!RunConst
<1>3. Run!RunWide => RP!RunWide
  BY DEF Run!RunWide, RP!RunWide
<1>4. Run!RunDrop => RP!RunDrop
  BY DEF Run!RunDrop, RP!RunDrop
<1>5. Run!RunSelect => RP!RunSelect
  BY DEF Run!RunSelect, RP!RunSelect
<1>6. Run!RunEqz => RP!RunEqz
  BY DEF Run!RunEqz, RP!RunEqz, Run!Truth, RP!Truth
<1>7. Run!RunEq => RP!RunEq
  BY DEF Run!RunEq, RP!RunEq, Run!Truth, RP!Truth
<1>8. Run!RunGtS => RP!RunGtS
  BY DEF Run!RunGtS, RP!RunGtS, Run!Truth, RP!Truth
<1>9. Run!RunNe => RP!RunNe
  BY DEF Run!RunNe, RP!RunNe, Run!Truth, RP!Truth
<1>10. Run!RunLocalGet => RP!RunLocalGet
  BY DEF Run!RunLocalGet, RP!RunLocalGet, Run!LocalThere, RP!LocalThere
<1>11. Run!RunLocalSet => RP!RunLocalSet
  BY DEF Run!RunLocalSet, RP!RunLocalSet, Run!LocalThere, RP!LocalThere
<1>12. Run!LocalFault => RP!LocalFault
  BY DEF Run!LocalFault, RP!LocalFault, Run!LocalThere, RP!LocalThere,
         Run!Null, RP!Null
<1>13. Run!RunLoop => RP!RunLoop
  BY DEF Run!RunLoop, RP!RunLoop
<1>14. Run!RunBlock => RP!RunBlock
  BY DEF Run!RunBlock, RP!RunBlock
<1>15. Run!RunEnd => RP!RunEnd
  BY DEF Run!RunEnd, RP!RunEnd
<1>16. Run!RunElse => RP!RunElse
  BY DEF Run!RunElse, RP!RunElse
<1>17. Run!RunIf => RP!RunIf
  BY DEF Run!RunIf, RP!RunIf, Run!Null, RP!Null
<1>18. Run!EndIf => RP!EndIf
  BY DEF Run!EndIf, RP!EndIf, Run!Front, RP!Front
<1>19. Run!UnknownInIf => RP!UnknownInIf
  BY DEF Run!UnknownInIf, RP!UnknownInIf, Run!Front, RP!Front
<1>20. Run!RunCall => RP!RunCall
  BY DEF Run!RunCall, RP!RunCall, Run!Funcs, RP!Funcs
<1>21. Run!RunReturn => RP!RunReturn
  BY DEF Run!RunReturn, RP!RunReturn
<1>22. Run!RunNothing => RP!RunNothing
  BY DEF Run!RunNothing, RP!RunNothing
<1>23. Run!HostRuns => RP!HostRuns
  BY DEF Run!HostRuns, RP!HostRuns, Run!EnteringHost, RP!EnteringHost,
         Run!GoodArgs, RP!GoodArgs
<1>24. Run!HostFails => RP!HostFails
  BY DEF Run!HostFails, RP!HostFails, Run!EnteringHost, RP!EnteringHost,
         Run!GoodArgs, RP!GoodArgs
<1>25. Run!HostExits => RP!HostExits
  BY DEF Run!HostExits, RP!HostExits, Run!EnteringHost, RP!EnteringHost,
         Run!GoodArgs, RP!GoodArgs
<1>26. Run!Enter => RP!Enter
  BY DEF Run!Enter, RP!Enter, Run!Entering, RP!Entering,
         Run!Slots, RP!Slots, Run!LocalsOf, RP!LocalsOf,
         Run!Activate, RP!Activate
<1>27. Run!EnterNullary => RP!EnterNullary
  BY DEF Run!EnterNullary, RP!EnterNullary, Run!Entering, RP!Entering,
         Run!Slots, RP!Slots, Run!Garbage, RP!Garbage, Run!Null, RP!Null,
         Run!Wild, RP!Wild, Run!Activate, RP!Activate
<1>28. Run!EnterFails => RP!EnterFails
  BY DEF Run!EnterFails, RP!EnterFails, Run!Entering, RP!Entering,
         Run!Slots, RP!Slots, Run!Garbage, RP!Garbage, Run!Null, RP!Null,
         Run!Wild, RP!Wild
<1>29. Run!EnterExits => RP!EnterExits
  BY DEF Run!EnterExits, RP!EnterExits, Run!Entering, RP!Entering
<1>30. Run!EndFunc => RP!EndFunc
  BY DEF Run!EndFunc, RP!EndFunc, Run!Leave, RP!Leave,
         Run!Freeable, RP!Freeable, Run!Null, RP!Null,
         Run!Front, RP!Front
<1>31. Run!UnknownInFunc => RP!UnknownInFunc
  BY DEF Run!UnknownInFunc, RP!UnknownInFunc, Run!Leave, RP!Leave,
         Run!Freeable, RP!Freeable, Run!Null, RP!Null,
         Run!Front, RP!Front
<1>32. Run!Start => RP!Start
  BY DEF Run!Start, RP!Start
<1>33. Run!StartFails => RP!StartFails
  BY DEF Run!StartFails, RP!StartFails
<1>34. Run!GetRet => RP!GetRet
  BY DEF Run!GetRet, RP!GetRet
<1>35. Run!StackExits => RP!StackExits
  BY DEF Run!StackExits, RP!StackExits
<1>36. Run!RunRefused => RP!RunRefused
  BY DEF Run!RunRefused, RP!RunRefused
<1> HIDE DEF Run!Last, RP!Last, Run!Top, RP!Top, Run!F, RP!F,
             Run!Imm, RP!Imm, Run!Read, RP!Read, Run!Behind, RP!Behind,
             Run!Onward, RP!Onward, Run!Op, RP!Op, Run!Arg, RP!Arg, Run!Fetching, RP!Fetching,
             Run!Advanced, RP!Advanced, Run!Cell, RP!Cell,
             Run!Found, RP!Found, Run!FirstFound, RP!FirstFound,
             Run!Needs, RP!Needs, Run!Grows, RP!Grows, Run!At, RP!At,
             Run!Push, RP!Push, Run!Pop, RP!Pop, Run!I32, RP!I32,
             Run!Label, RP!Label, Run!Unchanged, RP!Unchanged
<1> QED
  BY <1>1, <1>2, <1>3, <1>4, <1>5, <1>6, <1>7, <1>8, <1>9, <1>10, <1>11,
     <1>12, <1>13, <1>14, <1>15, <1>16, <1>17, <1>18, <1>19, <1>20, <1>21,
     <1>22, <1>23, <1>24, <1>25, <1>26, <1>27, <1>28, <1>29, <1>30, <1>31,
     <1>32, <1>33, <1>34, <1>35, <1>36
     DEF Run!RunValue, RP!RunValue, Run!RunLocal, RP!RunLocal,
         Run!RunControl, RP!RunControl, Run!Host, RP!Host,
         Run!Frames, RP!Frames, Run!Outer, RP!Outer, Run!Next, RP!Next

LEMMA SameRunInv ==
    /\ RP!RunInv <=> Run!RunInv
    /\ RP!ExecConstants <=> Run!ExecConstants
<1>1. RP!ExecConstants <=> Run!ExecConstants
  BY DEF RP!ExecConstants, Run!ExecConstants
<1>2. /\ RP!Null = Run!Null /\ RP!Wild = Run!Wild /\ RP!Phases = Run!Phases
      /\ RP!Live = Run!Live /\ RP!FuncActs = Run!FuncActs
  BY DEF RP!Null, Run!Null, RP!Wild, Run!Wild, RP!Phases, Run!Phases,
         RP!Live, Run!Live, RP!FuncActs, Run!FuncActs
<1>3. RP!TypeOK <=> Run!TypeOK
  BY <1>2, SameCode DEF RP!TypeOK, Run!TypeOK, RP!StackCell, Run!StackCell,
     RP!CellTypes, Run!CellTypes, RP!Activation, Run!Activation, RP!Addr, Run!Addr,
     RP!Cursor, Run!Cursor, RP!Pointer, Run!Pointer
<1>4. RP!TableReady <=> Run!TableReady
  BY SameCode DEF RP!TableReady, Run!TableReady
<1>5. RP!ActsNest <=> Run!ActsNest
  BY DEF RP!ActsNest, Run!ActsNest
<1>6. RP!LocalsOwned <=> Run!LocalsOwned
  BY <1>2 DEF RP!LocalsOwned, Run!LocalsOwned
<1>7. RP!OuterLocals <=> Run!OuterLocals
  BY <1>2 DEF RP!OuterLocals, Run!OuterLocals
<1>8. RP!NoBadFree <=> Run!NoBadFree
  BY DEF RP!NoBadFree, Run!NoBadFree
<1> QED
  BY <1>1, <1>3, <1>4, <1>5, <1>6, <1>7, <1>8 DEF RP!RunInv, Run!RunInv

-----------------------------------------------------------------------------
(***************************************************************************)
(* What the pass leaves is what the interpreter needs                      *)
(***************************************************************************)
\* A listed block is closed: all its addresses are set, in a body.
LEMMA PassLeavesTable == CP!PassInv => RP!TableReady
<1> SUFFICES ASSUME CP!PassInv PROVE RP!TableReady
  OBVIOUS
<1>1. /\ CP!TypeOK /\ CP!Listed /\ CP!BlocksInBody
  BY DEF CP!PassInv, CP!TableInv
<1>2. RP!IsProgram(prog) /\ RP!Funcs = CP!Funcs
  BY <1>1, SameCode DEF CP!TypeOK
<1>3. blk \in [RP!Funcs -> Seq(1..Len(desc))]
  BY <1>1, <1>2 DEF CP!TypeOK
<1>4. ASSUME NEW f \in CP!Funcs, NEW m \in 1..Len(blk[f])
      PROVE  {desc[blk[f][m]].els, desc[blk[f][m]].end}
                \subseteq 2..(Len(prog.code) + 1)
  <2> DEFINE b == desc[blk[f][m]]
             g == prog.funcs[b.fn]
  <2>1. blk[f][m] \in 1..Len(desc) /\ b.end # 0
    BY <1>1, SameAssumptions, CP!Typed DEF CP!Listed
  <2>2. /\ b.fn \in CP!Funcs
        /\ b.open \in (g.first + 1)..g.last
        /\ b.els # 0 => b.els \in (b.open + 1)..g.last
        /\ b.end # 0 => b.els # 0 /\ b.end \in (b.open + 1)..g.last
    BY <1>1, <2>1 DEF CP!BlocksInBody
  <2>3. /\ Len(prog.code) \in Nat
        /\ g.first \in 1..(Len(prog.code) + 1)
        /\ g.last \in g.first..(Len(prog.code) + 1)
    <3>1. CP!IsProgram(prog)
      BY <1>1 DEF CP!TypeOK
    <3>2. Len(prog.code) \in Nat
      BY <3>1 DEF CP!IsProgram
    <3> QED  BY <2>2, <3>1, <3>2 DEF CP!IsProgram, CP!Funcs
  <2> HIDE DEF b, g
  <2>4. b.open \in 2..(Len(prog.code) + 1)
    BY <2>2, <2>3
  <2>5. b.els \in 2..(Len(prog.code) + 1) /\ b.end \in 2..(Len(prog.code) + 1)
    <3>1. g.last \in Nat /\ g.last <= Len(prog.code) + 1 /\ 2 <= b.open
      BY <2>3, <2>4
    <3>2. b.els \in (b.open + 1)..g.last /\ b.end \in (b.open + 1)..g.last
      BY <2>1, <2>2
    <3>3. \A e \in (b.open + 1)..g.last : e \in 2..(Len(prog.code) + 1)
      BY <2>3, <2>4, <3>1
    <3> QED  BY <3>2, <3>3
  <2> QED  BY <2>4, <2>5 DEF b
<1> QED  BY <1>2, <1>3, <1>4 DEF RP!TableReady

\* The pass moves nothing of the interpreter but the table.
LEMMA RunInvStays ==
    ASSUME RP!RunInv, RP!TableReady', prog' = prog, UNCHANGED runVars
    PROVE  RP!RunInv'
<1>1. /\ phase' = phase /\ args' = args /\ calling' = calling /\ acts' = acts
      /\ stack' = stack /\ sp' = sp /\ frame' = frame /\ locals' = locals
      /\ heap' = heap /\ result' = result /\ astray' = astray
  BY DEF runVars
<1>2. RP!TypeOK'
  BY <1>1 DEF RP!RunInv, RP!TypeOK, RP!Funcs, RP!Activation, RP!Addr, RP!Cursor,
     RP!Pointer
<1>3. RP!ActsNest' /\ RP!OuterLocals' /\ RP!NoBadFree'
  BY <1>1 DEF RP!RunInv, RP!ActsNest, RP!OuterLocals, RP!NoBadFree
<1>4. RP!LocalsOwned'
  BY <1>1 DEF RP!RunInv, RP!LocalsOwned, RP!FuncActs, RP!Live
<1> QED  BY <1>2, <1>3, <1>4 DEF RP!RunInv

LEMMA RuntimeConstants == RP!ExecConstants
BY RuntimeAssumption, SameRunInv

LEMMA InitRuntimeInv == Init => RuntimeInv
<1> SUFFICES ASSUME Init PROVE RuntimeInv
  OBVIOUS
<1>1. CP!PassInv
  BY SamePass, SameAssumptions, CP!InitPassInv DEF Init
<1>2. RP!RunInv
  BY <1>1, SameRun, PassLeavesTable, RuntimeConstants, SameAssumptions, RP!InitRunInv DEF Init
<1> QED  BY <1>1, <1>2, SamePassInv, SameRunInv DEF RuntimeInv

LEMMA StepRuntimeInv == RuntimeInv /\ [Next]_vars => RuntimeInv'
<1> SUFFICES ASSUME RuntimeInv, [Next]_vars PROVE CP!PassInv' /\ RP!RunInv'
  <2>1. /\ (CP!PassInv <=> Compile!PassInv)'
        /\ (RP!RunInv <=> Run!RunInv)'
    BY SamePassInv, SameRunInv, PTL
  <2> QED  BY <2>1 DEF RuntimeInv
<1>1. CP!PassInv /\ RP!RunInv
  BY SamePassInv, SameRunInv DEF RuntimeInv
<1>2. ASSUME CP!PassInv' PROVE RP!TableReady'
  <2>1. (CP!PassInv => RP!TableReady)'
    BY PassLeavesTable, PTL
  <2> QED  BY <1>2, <2>1
<1>3. CASE CompileStep
  <2>1. CP!Next /\ UNCHANGED runVars
    BY <1>3, SamePass DEF CompileStep
  <2>2. CP!PassInv'
    BY <1>1, <2>1, SameAssumptions, CP!StepPassInv
  <2>3. prog' = prog
    BY <2>1 DEF CP!Next, CP!ConsumePlain, CP!ConsumeHole, CP!ConsumeBlock,
       CP!OpenBlock, CP!ConsumeIf, CP!AllocFails, CP!ConsumeElse, CP!ConsumeEnd, CP!NextFunc
  <2> QED  BY <1>1, <1>2, <2>1, <2>2, <2>3, RunInvStays
<1>4. CASE RunStep
  <2>1. RP!Next /\ UNCHANGED compileVars
    BY <1>4, SameRun DEF RunStep
  <2>2. CP!PassInv'
    <3>1. UNCHANGED CP!vvars
      BY <2>1 DEF compileVars, CP!vvars
    <3> QED  BY <1>1, <3>1, SameAssumptions, CP!StepPassInv
  <2>3. RP!RunInv'
    <3>1. RP!TableKept
      BY <2>1 DEF compileVars, RP!TableKept
    <3> QED  BY <1>1, <2>1, <3>1, RuntimeConstants, SameAssumptions, RP!StepRunInv
  <2> QED  BY <2>2, <2>3
<1>5. CASE UNCHANGED vars
  <2>1. UNCHANGED CP!vvars /\ UNCHANGED runVars /\ prog' = prog
    BY <1>5 DEF vars, compileVars, CP!vvars
  <2>2. CP!PassInv'
    BY <1>1, <2>1, SameAssumptions, CP!StepPassInv
  <2> QED  BY <1>1, <1>2, <2>1, <2>2, RunInvStays
<1> QED  BY <1>3, <1>4, <1>5 DEF Next

-----------------------------------------------------------------------------
(***************************************************************************)
(* The theorems                                                            *)
(***************************************************************************)
(* From the first instruction the pass visits to the end of the run: the   *)
(* inductive invariant of fw_module_compile followed by fw_module_run.     *)
THEOREM RuntimeSafe == Spec => []RuntimeInv
<1> QED  BY InitRuntimeInv, StepRuntimeInv, PTL DEF Spec

(* Every program, run in any way, keeps its cursors inside the code buffer *)
(* (or one place behind it, when its last immediate is cut) and ctx->pos   *)
(* inside the stack array, until a handler without a guard stops it.  A    *)
(* cursor may well leave the body it started in (ReturnMarksEnd).          *)
THEOREM CursorsInside == Spec => []TypeOK
<1>1. RuntimeInv => TypeOK
  BY DEF RuntimeInv, Compile!PassInv, Compile!TableInv, Run!RunInv, TypeOK
<1> QED  BY <1>1, RuntimeSafe, PTL

(* The locals of a run have exactly one owner each, in every program, as   *)
(* long as no err label was taken and no function without slots entered.   *)
THEOREM OwnedLocals == Spec => []LocalsOwned
<1>1. RuntimeInv => LocalsOwned
  BY DEF RuntimeInv, Run!RunInv, LocalsOwned
<1> QED  BY <1>1, RuntimeSafe, PTL

(* _fw_module_run_func frees no pointer twice and none that is no block    *)
(* unless its err label or an uninitialised `locals' comes into it.        *)
THEOREM FreesRight == Spec => []NoBadFree
<1>1. RuntimeInv => NoBadFree
  BY DEF RuntimeInv, Run!RunInv, NoBadFree
<1> QED  BY <1>1, RuntimeSafe, PTL

(* A run that returns FW_OK has freed all the locals it allocated.         *)
THEOREM LeavesNoLocals == Spec => []NoLocalsLeak
<1>1. RuntimeInv => NoLocalsLeak
  <2>1. RP!NoLocalsLeak <=> Run!NoLocalsLeak
    BY DEF RP!NoLocalsLeak, Run!NoLocalsLeak, RP!Live, Run!Live
  <2> QED  BY <2>1, SameRunInv, SameAssumptions, RP!NothingLeaks DEF RuntimeInv, NoLocalsLeak
<1> QED  BY <1>1, RuntimeSafe, PTL

(* "recover locals": until an err label is taken or a function without     *)
(* slots is entered, every function of every program runs with a block of  *)
(* locals that is allocated, and finds it again behind each call.          *)
THEOREM LocalsRecovered == Spec => []LocalsHeld
<1>1. RuntimeInv => LocalsHeld
  <2> SUFFICES ASSUME RuntimeInv, ~astray, acts # << >>
               PROVE  /\ locals \in Run!Live
                      /\ \A i \in Run!FuncActs :
                            acts[i].save # 0 => acts[i].save \in Run!Live
    BY DEF LocalsHeld, LocalsUsable
  <2>1. RP!Live = Run!Live /\ RP!FuncActs = Run!FuncActs /\ RP!Null = 0
    BY DEF RP!Live, Run!Live, RP!FuncActs, Run!FuncActs, RP!Null
  <2>2. RP!RunInv
    BY SameRunInv DEF RuntimeInv
  <2>3. /\ locals \in RP!Live
        /\ \A i \in RP!FuncActs :
              acts[i].save # RP!Null => acts[i].save \in RP!Live
    BY <2>2, SameAssumptions, RP!LocalsAlive
  <2> QED  BY <2>1, <2>3
<1> QED  BY <1>1, RuntimeSafe, PTL

(* fw_instr_run_if finds in the table only addresses inside a body, also   *)
(* while the pass goes on and however the program was written.             *)
THEOREM TableInside == Spec => [](Compile!BlocksInBody /\ Compile!BlocksNested)
<1>1. RuntimeInv => Compile!BlocksInBody /\ Compile!BlocksNested
  BY DEF RuntimeInv, Compile!PassInv, Compile!TableInv
<1> QED  BY <1>1, RuntimeSafe, PTL

============================================================================
