----------------------------- MODULE FwRuntime ------------------------------
(***************************************************************************)
(* What bin/run.c does with a loaded module: fw_module_compile, whose      *)
(* validation pass builds the block table, then fw_module_run, which reads *)
(* it.  Both run to completion in one thread, one after the other.         *)
(***************************************************************************)
EXTENDS FwCode, SequencesExt

CONSTANTS AllocMayFail, StackMax, DepthMod, MaxActs, ArgVals, HostVals,
          HostArgsMax

VARIABLES cur, pos, blktmp, iftmp, vphase,
          phase, args, calling, acts, stack, sp, frame, locals, heap, result,
          astray

Compile == INSTANCE FwValidate

Run == INSTANCE FwExec WITH RunAllocMayFail <- AllocMayFail

ASSUME RuntimeAssumption == Run!ExecConstants

compileVars == <<prog, desc, blk, cur, pos, blktmp, iftmp, vphase>>

runVars == <<phase, args, calling, acts, stack, sp, frame, locals, heap,
             result, astray>>

vars == <<compileVars, runVars>>

Init == Compile!Init /\ Run!Init

CompileStep == Compile!Next /\ UNCHANGED runVars

RunStep == vphase = "done" /\ Run!Next /\ UNCHANGED compileVars

Next == CompileStep \/ RunStep

Spec == Init /\ [][Next]_vars /\ WF_vars(Next)

-----------------------------------------------------------------------------
(***************************************************************************)
(* Properties of the composition                                           *)
(***************************************************************************)
TypeOK == Compile!TypeOK /\ Run!TypeOK

LocalsOwned == Run!LocalsOwned

NoBadFree == Run!NoBadFree

NoLocalsLeak == Run!NoLocalsLeak

(* What a step of either part keeps: the table and its addresses, and what *)
(* the interpreter keeps given them.                                       *)
RuntimeInv == Compile!PassInv /\ Run!RunInv

(* A function never touches the operands its caller had below its          *)
(* arguments, nor leaves with fewer cells: there is one stack array, blocks *)
(* leave their labels on it, and nothing bounds a function to its own part *)
(* but the pushes and pops of the handlers.                                *)
CallerOperandsKept ==
    [][\A i \in DOMAIN acts \cap DOMAIN acts' :
          acts[i].kind = "func" =>
             LET own == acts[i].base - prog.funcs[acts[i].fn].nparam
             IN /\ sp' >= own
                /\ \A c \in 0..(own - 1) : stack'[c] = stack[c]]_vars

(* "mark function end" (fw_instr_run_return): a `return' puts the cursor   *)
(* at the end of the function it stands in, whatever the function called   *)
(* before.                                                                 *)
Returning == Run!At("return")

ReturnMarksEnd ==
    [][Returning => Last(acts').pos = prog.funcs[Last(acts).fn].last]_vars

(* The picture of fw_instr_run_return, stack_deepth at the first local:    *)
(* what a function leaves behind a `return' takes the place of its         *)
(* arguments, for the operands of the caller to be where it put them.      *)
ReturnDropsArguments ==
    [][Returning =>
          LET f == prog.funcs[Last(acts).fn]
              own == CHOOSE i \in Run!FuncActs : \A j \in Run!FuncActs : j <= i
          IN sp' = acts[own].base - f.nparam + f.nres]_vars

(* "recover locals" (_fw_module_run_func): whatever it called, a function   *)
(* with locals runs with a block of locals that is allocated, and so does  *)
(* its caller when the pointer it saved is put back.                       *)
LocalsUsable ==
    (phase = "run" /\ acts # << >>) =>
        /\ Run!Slots(Last(acts).fn) > 0 => locals \in Run!Live
        /\ \A i \in Run!FuncActs : acts[i].save # 0 => acts[i].save \in Run!Live

(* The same of every program and with any allocation failing: only an err  *)
(* label or a function without slots ever takes a caller's locals away.    *)
LocalsHeld == ~astray => LocalsUsable

(* The run of a compiled module ends, one way or another, or hangs in the  *)
(* handler of an immediate that does not end: a loop without branches, a   *)
(* `return' to another function's end and a call that failed all lead on.  *)
ReaderHangs ==
    \/ vphase = "validating" /\ Compile!HandlerHangs
    \/ Run!Fetching /\ Run!Imm = "endless"

RunEnds == <>(\/ phase \notin {"idle", "run"}
              \/ vphase \in {"crash", "corrupt", "astray"}
              \/ ReaderHangs)

=============================================================================
