------------------------------- MODULE FwCode -------------------------------
(***************************************************************************)
(* The program an instance of the interpreter works on, and the block      *)
(* table that fw_module_compile builds for fw_module_run.                  *)
(*                                                                         *)
(* The loader cuts the code section into function bodies, all of them      *)
(* pointers into one buffer (src/src/module/fw_loader.c:503-633), so code  *)
(* addresses of different functions are comparable.  An address is the     *)
(* index of a cell of prog.code: what the cursor of a body moves over in   *)
(* one turn, the opcode and its LEB128 immediates.  The bytes between two  *)
(* bodies (size and local declarations) are a cell "hdr".                  *)
(***************************************************************************)
EXTENDS Integers, Sequences, FiniteSets

CONSTANT Programs      \* the programs that may have been loaded

VARIABLES
    prog,              \* the loaded program
    desc,              \* every fw_module_func_block_t allocated, by identity
    blk                \* func->blk of every function: identities, in list order

(***************************************************************************)
(* The opcodes the two handlers of common_instr_handler tell apart:        *)
(*   wide     i64.const, f32.const, f64.const: a value that is not an i32; *)
(*   norun    consumed by the validation, `run' is NULL (br, i32.add ...); *)
(*   hole     an entry the table leaves out, `consume' and `run' are NULL; *)
(*   unknown  an opcode for which fw_get_instr answers NULL.               *)
(***************************************************************************)
Openers == {"block", "loop", "if"}

Ops == Openers \cup
       {"else", "end", "const", "wide", "get", "set", "tee", "drop", "select",
        "eqz", "eq", "ne", "gt_s", "call", "return",
        "norun", "hole", "unknown", "hdr"}

\* The opcodes whose handlers read immediates.
WithImm == Openers \cup {"const", "wide", "get", "set", "tee", "call", "norun"}

(***************************************************************************)
(* What the readers (fw_str_leb_getu) make of the immediates of a cell,    *)
(* whose first byte alone they compare with the end of the body:           *)
(*   whole    read, in the body;                                           *)
(*   refused  no byte left, or an encoding too long: the cell is the       *)
(*            opcode (and the labels of a br_table read so far), and the   *)
(*            bytes refused are cells of their own;                        *)
(*   cut      begins in the body and ends behind it: accepted;             *)
(*   endless  256 bytes that say one more follows: the reader's counter    *)
(*            comes back to 0 and the handler never returns.               *)
(***************************************************************************)
Immediates == {"whole", "refused", "cut", "endless"}

Instr == {i \in [op : Ops, arg : Nat, imm : Immediates] :
             i.op \in WithImm \/ i.imm = "whole"}

\* Where the cursor stands behind cell i of a body that ends before `last'.
Behind(i, last) == IF prog.code[i].imm = "cut" THEN last + 1 ELSE i + 1

(* The result type of a block is the argument of an opener.  Those a value *)
(* or nothing is given by take one byte.                                   *)
EmptyType == 64        \* 0x40
I32Type   == 127       \* 0x7f
ValueTypes == 124..127 \* 0x7c .. 0x7f

(***************************************************************************)
(* A function: an import answered by the host, or a body                   *)
(* [first, last) of prog.code.  An import has an empty body.               *)
(***************************************************************************)
Func == [host : BOOLEAN, nparam : Nat, nres : {0, 1}, nlocal : Nat,
         first : Nat, last : Nat]

IsProgram(p) ==
    /\ p.code \in Seq(Instr)
    /\ p.funcs \in Seq(Func)
    /\ p.main \in 1..Len(p.funcs)
    /\ \A f \in 1..Len(p.funcs) :
          /\ p.funcs[f].first \in 1..(Len(p.code) + 1)
          /\ p.funcs[f].last \in p.funcs[f].first..(Len(p.code) + 1)
          /\ p.funcs[f].host => p.funcs[f].first = p.funcs[f].last
          /\ \A i \in p.funcs[f].first..(p.funcs[f].last - 1) :
                p.code[i].imm = "cut" => i = p.funcs[f].last - 1

ASSUME ProgramsAssumption == \A p \in Programs : IsProgram(p)

Funcs == 1..Len(prog.funcs)

(* fw_module_func_block_t; 0 is NULL.  fn and open are history fields: the *)
(* function, and the address of the cell behind the opener.                *)
Block == [fn : Nat, open : Nat, start : Nat, els : Nat, end : Nat]

=============================================================================
