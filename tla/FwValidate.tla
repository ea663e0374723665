----------------------------- MODULE FwValidate -----------------------------
(***************************************************************************)
(* The validation pass of fw_module_compile: it visits the functions in    *)
(* order (for_each_funcs), walks each body once and runs the `consume'     *)
(* handler of every instruction.  The handlers of block, loop, if, else    *)
(* and end build the table the interpreter finds its branch targets in.    *)
(*                                                                         *)
(* blktmp and iftmp belong to a function and are empty when the loader     *)
(* creates it; only those of the function being visited are kept here.     *)
(* fw_module_validate_inst drops what a handler returns and always answers *)
(* FW_OK, so no handler result appears in the model.                       *)
(***************************************************************************)
EXTENDS FwCode, SequencesExt

CONSTANT AllocMayFail  \* whether fw_calloc may answer NULL in this pass

VARIABLES
    cur,               \* the function being visited
    pos,               \* body.pos
    blktmp,            \* the open blocks, outermost first
    iftmp,             \* the `if' blocks no `else' has taken, oldest first
    vphase             \* "validating", "done", or how the process was lost

vvars == <<prog, desc, blk, cur, pos, blktmp, iftmp, vphase>>

(* A process that follows a NULL handler is lost ("crash"); one that takes *)
(* an entry from an empty list writes over its own fw_module_func_t        *)
(* ("corrupt"); a byte of an immediate decoded as an opcode that may be    *)
(* any, whose own immediates the cells do not show, is followed no further *)
(* ("astray").                                                             *)
VPhases == {"validating", "done", "crash", "corrupt", "astray"}

-----------------------------------------------------------------------------
Init ==
    /\ prog \in Programs
    /\ desc = << >>
    /\ blk = [f \in 1..Len(prog.funcs) |-> << >>]
    /\ cur = 1
    /\ pos = prog.funcs[1].first
    /\ blktmp = << >>
    /\ iftmp = << >>
    /\ vphase = "validating"

At(ops) ==
    /\ vphase = "validating"
    /\ pos < prog.funcs[cur].last
    /\ prog.code[pos].op \in ops

Imm == prog.code[pos].imm

Moved == pos' = Behind(pos, prog.funcs[cur].last)

Plain == Ops \ (Openers \cup {"else", "end", "hole"})

(* consume_none, _32, _64 and _brtbl move the cursor, whatever they read;  *)
(* an opcode without a handler takes one byte.                             *)
ConsumePlain ==
    /\ At(Plain)
    /\ Imm # "endless"
    /\ Moved
    /\ UNCHANGED <<prog, desc, blk, cur, blktmp, iftmp, vphase>>

\* instr->consume is NULL for an opcode the handler table leaves out.
ConsumeHole ==
    /\ At({"hole"})
    /\ vphase' = "crash"
    /\ UNCHANGED <<prog, desc, blk, cur, pos, blktmp, iftmp>>

(* The block is in blktmp before its result type is read, and stays there, *)
(* without a start, when that is refused.                                  *)
NewBlock ==
    [fn |-> cur, open |-> pos + 1,
     start |-> IF Imm = "refused" THEN 0 ELSE Behind(pos, prog.funcs[cur].last),
     els |-> 0, end |-> 0]

OpenBlock ==
    /\ Imm # "endless"
    /\ desc' = Append(desc, NewBlock)
    /\ blktmp' = Append(blktmp, Len(desc) + 1)
    /\ Moved
    /\ UNCHANGED <<prog, blk, cur, vphase>>

ConsumeBlock ==
    /\ At({"block", "loop"})
    /\ OpenBlock
    /\ UNCHANGED iftmp

\* Variant: an `if' whose result type is refused goes into iftmp as well.
ConsumeIfAlways ==
    /\ At({"if"})
    /\ OpenBlock
    /\ iftmp' = Append(iftmp, Len(desc) + 1)

ConsumeIf ==
    /\ At({"if"})
    /\ OpenBlock
    /\ iftmp' = IF Imm = "refused" THEN iftmp ELSE Append(iftmp, Len(desc) + 1)

(* The handler gives up before it reads the result type, which is then     *)
(* decoded as an opcode: 0x40 is a hole of the table, the value types are  *)
(* opcodes without immediates, another one may be any opcode.  The bytes   *)
(* of a type of several bytes that say one more follows have no handler,   *)
(* or one that reads nothing.                                              *)
AllocFails ==
    /\ AllocMayFail
    /\ At(Openers)
    /\ \/ /\ Imm = "whole" /\ prog.code[pos].arg = EmptyType
          /\ vphase' = "crash" /\ UNCHANGED pos
       \/ /\ Imm = "whole" /\ prog.code[pos].arg \notin ValueTypes \cup {EmptyType}
          /\ vphase' = "astray" /\ UNCHANGED pos
       \/ /\ Imm # "whole" \/ prog.code[pos].arg \in ValueTypes
          /\ pos' = pos + 1 /\ UNCHANGED vphase
    /\ UNCHANGED <<prog, desc, blk, cur, blktmp, iftmp>>

\* Variant: the `if' stays in iftmp when its `else' has been seen.
ConsumeElseKeeps ==
    /\ At({"else"})
    /\ IF iftmp = << >>
       THEN vphase' = "corrupt" /\ UNCHANGED <<desc, pos>>
       ELSE /\ desc' = [desc EXCEPT ![Last(iftmp)].els = pos + 1]
            /\ pos' = pos + 1
            /\ UNCHANGED vphase
    /\ UNCHANGED <<prog, blk, cur, blktmp, iftmp>>

ConsumeElse ==
    /\ At({"else"})
    /\ IF iftmp = << >>
       THEN /\ vphase' = "corrupt"
            /\ UNCHANGED <<desc, iftmp, pos>>
       ELSE /\ desc' = [desc EXCEPT ![Last(iftmp)].els = pos + 1]
            /\ iftmp' = Front(iftmp)
            /\ pos' = pos + 1
            /\ UNCHANGED vphase
    /\ UNCHANGED <<prog, blk, cur, blktmp>>

\* Variant: a block ends before its `end'.
ClosedBefore(b, here) ==
    [b EXCEPT !.end = here - 1, !.els = IF b.els = 0 THEN here - 1 ELSE b.els]

Closed(b, here) ==
    [b EXCEPT !.end = here, !.els = IF b.els = 0 THEN here ELSE b.els]

\* Variant: the block opened first is closed, not the last.
ConsumeEndOldest ==
    /\ At({"end"})
    /\ pos' = pos + 1
    /\ IF blktmp = << >>
       THEN UNCHANGED <<desc, blk, blktmp>>
       ELSE /\ desc' = [desc EXCEPT ![Head(blktmp)] = Closed(@, pos + 1)]
            /\ blk' = [blk EXCEPT ![cur] = Append(@, Head(blktmp))]
            /\ blktmp' = Tail(blktmp)
    /\ UNCHANGED <<prog, cur, iftmp, vphase>>

\* Variant: the block is listed and left in blktmp as well.
ConsumeEndKeeps ==
    /\ At({"end"})
    /\ pos' = pos + 1
    /\ IF blktmp = << >>
       THEN UNCHANGED <<desc, blk>>
       ELSE /\ desc' = [desc EXCEPT ![Last(blktmp)] = Closed(@, pos + 1)]
            /\ blk' = [blk EXCEPT ![cur] = Append(@, Last(blktmp))]
    /\ UNCHANGED <<prog, cur, blktmp, iftmp, vphase>>

\* Variant: an `end' takes the last `if' out of iftmp, whatever it closes.
ConsumeEndTakesIf ==
    /\ At({"end"})
    /\ pos' = pos + 1
    /\ iftmp' = SubSeq(iftmp, 1, Len(iftmp) - 1)
    /\ IF blktmp = << >>
       THEN UNCHANGED <<desc, blk, blktmp>>
       ELSE /\ desc' = [desc EXCEPT ![Last(blktmp)] = Closed(@, pos + 1)]
            /\ blk' = [blk EXCEPT ![cur] = Append(@, Last(blktmp))]
            /\ blktmp' = Front(blktmp)
    /\ UNCHANGED <<prog, cur, vphase>>

\* The `end' of the function body finds no open block and changes nothing.
ConsumeEnd ==
    /\ At({"end"})
    /\ pos' = pos + 1
    /\ IF blktmp = << >>
       THEN UNCHANGED <<desc, blk, blktmp>>
       ELSE /\ desc' = [desc EXCEPT ![Last(blktmp)] = Closed(@, pos + 1)]
            /\ blk' = [blk EXCEPT ![cur] = Append(@, Last(blktmp))]
            /\ blktmp' = Front(blktmp)
    /\ UNCHANGED <<prog, cur, iftmp, vphase>>

\* Variant: iftmp is one list of the module and outlives the function.
NextFuncKeepsIfs ==
    /\ vphase = "validating"
    /\ pos >= prog.funcs[cur].last
    /\ IF cur = Len(prog.funcs)
       THEN vphase' = "done" /\ UNCHANGED <<cur, pos, blktmp>>
       ELSE /\ cur' = cur + 1
            /\ pos' = prog.funcs[cur + 1].first
            /\ blktmp' = << >>
            /\ UNCHANGED vphase
    /\ UNCHANGED <<prog, desc, blk, iftmp>>

\* Variant: the cursor is not set to the next body.
NextFuncHere ==
    /\ vphase = "validating"
    /\ pos >= prog.funcs[cur].last
    /\ IF cur = Len(prog.funcs)
       THEN vphase' = "done" /\ UNCHANGED <<cur, blktmp, iftmp>>
       ELSE /\ cur' = cur + 1
            /\ blktmp' = << >>
            /\ iftmp' = << >>
            /\ UNCHANGED vphase
    /\ UNCHANGED <<prog, desc, blk, pos>>

\* Variant: the loop runs until the cursor is at the end, not behind it.
NextFuncAtEnd ==
    /\ vphase = "validating"
    /\ pos = prog.funcs[cur].last
    /\ IF cur = Len(prog.funcs)
       THEN vphase' = "done" /\ UNCHANGED <<cur, pos, blktmp, iftmp>>
       ELSE /\ cur' = cur + 1
            /\ pos' = prog.funcs[cur + 1].first
            /\ blktmp' = << >>
            /\ iftmp' = << >>
            /\ UNCHANGED vphase
    /\ UNCHANGED <<prog, desc, blk>>

NextFunc ==
    /\ vphase = "validating"
    /\ pos >= prog.funcs[cur].last
    /\ IF cur = Len(prog.funcs)
       THEN /\ vphase' = "done"
            /\ UNCHANGED <<cur, pos, blktmp, iftmp>>
       ELSE /\ cur' = cur + 1
            /\ pos' = prog.funcs[cur + 1].first
            /\ blktmp' = << >>
            /\ iftmp' = << >>
            /\ UNCHANGED vphase
    /\ UNCHANGED <<prog, desc, blk>>

Next == \/ ConsumePlain
        \/ ConsumeHole
        \/ ConsumeBlock
        \/ ConsumeIf
        \/ AllocFails
        \/ ConsumeElse
        \/ ConsumeEnd
        \/ NextFunc

(* The pass is one loop of one thread: it goes on as long as it can.       *)
Spec == Init /\ [][Next]_vvars /\ WF_vvars(Next)

-----------------------------------------------------------------------------
(***************************************************************************)
(* What the table should hold, read off the code alone.                    *)
(***************************************************************************)
Count(ops, from, to) == Cardinality({i \in from..to : prog.code[i].op \in ops})

Opener(b) == b.open - 1

\* The cells of a body at which the block opened before `s' is closed.
ClosersOf(f, s) ==
    {e \in s..(prog.funcs[f].last - 1) :
        /\ prog.code[e].op = "end"
        /\ Count(Openers, s, e) = Count({"end"}, s, e) - 1}

\* The cells `else' directly inside the block opened before `s'.
ElsesOf(f, s) ==
    {e \in s..(prog.funcs[f].last - 1) :
        /\ prog.code[e].op = "else"
        /\ Count(Openers, s, e) = Count({"end"}, s, e)
        /\ \A c \in ClosersOf(f, s) : e < c}

IfsOf(f) == {i \in prog.funcs[f].first..(prog.funcs[f].last - 1) :
                prog.code[i].op = "if"}

(* The body of a function as the format defines it: immediates are whole,  *)
(* blocks are closed, the last cell is the `end' of the body, every `else' *)
(* has an `if' of its own and every `if' at most one `else'.               *)
Structured(f) ==
    /\ \A i \in prog.funcs[f].first..(prog.funcs[f].last - 1) :
          prog.code[i].imm = "whole"
    /\ \A i \in prog.funcs[f].first..(prog.funcs[f].last - 2) :
          Count({"end"}, prog.funcs[f].first, i)
            <= Count(Openers, prog.funcs[f].first, i)
    /\ Count({"end"}, prog.funcs[f].first, prog.funcs[f].last - 1)
         = Count(Openers, prog.funcs[f].first, prog.funcs[f].last - 1) + 1
    /\ prog.code[prog.funcs[f].last - 1].op = "end"
    /\ \A i \in IfsOf(f) : Cardinality(ElsesOf(f, i + 1)) <= 1
    /\ \A e \in prog.funcs[f].first..(prog.funcs[f].last - 1) :
          prog.code[e].op = "else" => \E i \in IfsOf(f) : e \in ElsesOf(f, i + 1)

(* No `if' without an `else' inside the first branch of one that has it.   *)
NoElselessInThen(f) ==
    \A i, j \in IfsOf(f) :
        (\E e \in ElsesOf(f, i + 1) : i < j /\ j < e) => ElsesOf(f, j + 1) # {}

Min0(S) == IF S = {} THEN 0 ELSE CHOOSE x \in S : \A y \in S : x <= y

RefEnd(b) == IF ClosersOf(b.fn, b.open) = {} THEN 0
             ELSE Min0(ClosersOf(b.fn, b.open)) + 1

RefEls(b) == IF prog.code[Opener(b)].op = "if" /\ ElsesOf(b.fn, b.open) # {}
             THEN Min0(ElsesOf(b.fn, b.open)) + 1
             ELSE RefEnd(b)

Done == vphase = "done"

-----------------------------------------------------------------------------
(***************************************************************************)
(* Properties                                                              *)
(***************************************************************************)
(* The cursor leaves a body only behind an immediate that the body's last  *)
(* cell cuts.                                                              *)
CursorInBody ==
    LET f == prog.funcs[cur]
    IN /\ pos \in f.first..(f.last + 1)
       /\ pos > f.last => f.first < f.last /\ prog.code[f.last - 1].imm = "cut"

\* The two lists hold allocated blocks, the cursor is where it may be.
TypeOK ==
    /\ IsProgram(prog)
    /\ desc \in Seq(Block)
    /\ blk \in [Funcs -> Seq(1..Len(desc))]
    /\ cur \in Funcs
    /\ CursorInBody
    /\ blktmp \in Seq(1..Len(desc))
    /\ iftmp \in Seq(1..Len(desc))
    /\ vphase \in VPhases

(* Two blocks of a function the table lists lie one after the other or one *)
(* inside the other, and none is empty: fw_instr_run_if bounds its nested  *)
(* loop with these addresses, and blktmp is popped from its tail           *)
(* (consume_end) after allocation failures as well.                        *)
BlocksNested ==
    \A i, j \in 1..Len(desc) :
        LET a == desc[i]
            b == desc[j]
        IN (i < j /\ a.fn = b.fn /\ a.end # 0 /\ b.end # 0)
              => /\ a.open < a.end /\ b.open < b.end
                 /\ a.end <= b.open \/ b.end <= a.end

(* fw_instr_find_blk looks a block up by its start address and answers the *)
(* first of the list: an address names at most one block of a function,    *)
(* and none (the start of a block whose result type was refused) never     *)
(* stands for the address of an instruction; a block is listed once, only  *)
(* when it is closed, and only by its own function.                        *)
FindBlkUnique ==
    /\ \A i, j \in 1..Len(desc) :
          (desc[i].fn = desc[j].fn /\ desc[i].start = desc[j].start
             /\ desc[i].start # 0) => i = j
    /\ \A f \in Funcs : \A m, n \in 1..Len(blk[f]) :
          /\ desc[blk[f][m]].fn = f /\ desc[blk[f][m]].end # 0
          /\ blk[f][m] = blk[f][n] => m = n

(* Every address the table holds for a function lies in the body of that   *)
(* function, and both branches of a listed block are set, behind its       *)
(* start: an `else' too many may give a block that is closed already, or   *)
(* the `if' outside, a second branch anywhere behind its start, and        *)
(* fw_instr_run_if jumps to it unchecked, but never into another function. *)
BlocksInBody ==
    \A i \in 1..Len(desc) :
        LET b == desc[i]
            f == prog.funcs[b.fn]
        IN /\ b.fn \in Funcs
           /\ b.open \in (f.first + 1)..f.last
           /\ \/ b.start \in {0, b.open}
              \/ b.start = f.last + 1 /\ b.open = f.last
           /\ b.els # 0 => b.els \in (b.open + 1)..f.last
           /\ b.end # 0 => b.els # 0 /\ b.end \in (b.open + 1)..f.last

(* When every allocation succeeds, the table has exactly the blocks that   *)
(* have an `end', each with the address behind the `end' that closes it.   *)
EndsMatch ==
    /\ \A i \in 1..Len(desc) : desc[i].end # 0 => desc[i].end = RefEnd(desc[i])
    /\ Done => \A i \in 1..Len(desc) : desc[i].end = RefEnd(desc[i])

(* In a structured body where no `if' without `else' sits in the first     *)
(* branch of one with `else', els is the address of the second branch, or  *)
(* the end of a block that has none.                                       *)
ElsesMatch ==
    Done => \A i \in 1..Len(desc) :
               LET b == desc[i]
               IN (b.end # 0 /\ Structured(b.fn) /\ NoElselessInThen(b.fn))
                     => b.els = RefEls(b)

(* "the else block belongs to latest if block" (consume_else): in every    *)
(* structured body an `else' is the second branch of the `if' it stands in.*)
ElseBelongsToItsIf ==
    Done => \A i \in 1..Len(desc) :
               LET b == desc[i]
               IN (b.end # 0 /\ Structured(b.fn)) => b.els = RefEls(b)

(* An `else' always finds an entry in iftmp, and an opcode its handler,    *)
(* while the body is structured and uses opcodes that have one: however    *)
(* `end' and `else' have emptied the two lists before (consume_else,       *)
(* fw_module_validate_inst).                                               *)
StructuredNeverLost ==
    vphase \in {"crash", "corrupt"} =>
        \/ ~Structured(cur)
        \/ Count({"hole"}, prog.funcs[cur].first, prog.funcs[cur].last - 1) > 0

(* The pass ends on every body, balanced or not, or hangs in the handler   *)
(* of an immediate that does not end: whatever else the readers refuse or  *)
(* read behind the body, the cursor moves on and the loop comes to its end.*)
HandlerHangs == pos < prog.funcs[cur].last /\ Imm = "endless"

Terminates == <>(vphase # "validating" \/ HandlerHangs)

-----------------------------------------------------------------------------
(***************************************************************************)
(* The inductive invariant behind BlocksNested and FindBlkUnique.          *)
(***************************************************************************)
Ids == 1..Len(desc)

\* Addresses grow with identity: the cursor only moves forward in a body.
StartsOrdered ==
    /\ \A i \in Ids : /\ desc[i].fn <= cur
                      /\ desc[i].fn = cur => desc[i].open <= pos
    /\ \A i, j \in Ids : (i < j /\ desc[i].fn = desc[j].fn)
                            => desc[i].open < desc[j].open

\* blktmp holds open blocks of the function, in the order they were opened.
OpenBlocks ==
    /\ \A m \in 1..Len(blktmp) : /\ desc[blktmp[m]].fn = cur
                                 /\ desc[blktmp[m]].end = 0
    /\ \A m, n \in 1..Len(blktmp) : m < n => blktmp[m] < blktmp[n]

ClosedBlocks ==
    \A i \in Ids : desc[i].end # 0 =>
        /\ desc[i].open < desc[i].end
        /\ desc[i].fn = cur => desc[i].end <= pos

\* A block opened before an open one and closed since was closed before it.
ClosedBeforeOpen ==
    \A i \in Ids : \A m \in 1..Len(blktmp) :
        (i < blktmp[m] /\ desc[i].fn = cur /\ desc[i].end # 0)
            => desc[i].end <= desc[blktmp[m]].open

Listed ==
    \A f \in Funcs : \A m \in 1..Len(blk[f]) :
        /\ desc[blk[f][m]].fn = f /\ desc[blk[f][m]].end # 0
        /\ \A n \in 1..Len(blk[f]) : blk[f][m] = blk[f][n] => m = n

(* What a step of the pass keeps: the identities are in the order of the   *)
(* code, the open blocks are a stack, and a closed block ends before the   *)
(* cursor and before every block opened after it that is still open.       *)
TableInv ==
    /\ TypeOK
    /\ StartsOrdered
    /\ OpenBlocks
    /\ ClosedBlocks
    /\ ClosedBeforeOpen
    /\ BlocksNested
    /\ Listed

\* An `else' writes to a block of the body it stands in.
IfsOfBody == \A m \in 1..Len(iftmp) : desc[iftmp[m]].fn = cur

\* What the pass keeps of the table and of the addresses in it.
PassInv == TableInv /\ IfsOfBody /\ BlocksInBody

-----------------------------------------------------------------------------
(***************************************************************************)
(* The inductive invariant behind EndsMatch and StructuredNeverLost, when  *)
(* every allocation succeeds: what the two lists count.                    *)
(***************************************************************************)
\* How far the cells of the body have been consumed.
Reached == IF pos > prog.funcs[cur].last THEN prog.funcs[cur].last ELSE pos

(* Behind an open block as many blocks were opened and not closed as there *)
(* are entries of blktmp behind its own, and its `end' is still to come.   *)
OpenDepth ==
    \A m \in 1..Len(blktmp) :
        LET b == desc[blktmp[m]]
        IN /\ Count(Openers, b.open, Reached - 1)
                = Count({"end"}, b.open, Reached - 1) + (Len(blktmp) - m)
           /\ \A e \in ClosersOf(b.fn, b.open) : Reached <= e

\* A block without an end is in blktmp, or its body ended without one.
OpenKept ==
    \A i \in Ids : desc[i].end = 0 =>
        IF desc[i].fn = cur
        THEN \E m \in 1..Len(blktmp) : blktmp[m] = i
        ELSE ClosersOf(desc[i].fn, desc[i].open) = {}

ClosedRight ==
    \A i \in Ids : desc[i].end # 0 =>
        /\ desc[i].end - 1 \in ClosersOf(desc[i].fn, desc[i].open)
        /\ \A e \in ClosersOf(desc[i].fn, desc[i].open) : desc[i].end - 1 <= e

(* iftmp has one entry for every `if' more than `else' seen in the body,   *)
(* the ifs left aside whose result type was refused.                       *)
IfsTaken(to) ==
    Cardinality({i \in prog.funcs[cur].first..to :
                    prog.code[i].op = "if" /\ prog.code[i].imm # "refused"})

IfsLeft ==
    IfsTaken(Reached - 1)
      = Count({"else"}, prog.funcs[cur].first, Reached - 1) + Len(iftmp)

\* Why the pass stands where it stands.
StopsWhere ==
    /\ vphase = "done" => pos >= prog.funcs[cur].last
    /\ vphase = "crash" => /\ pos < prog.funcs[cur].last
                           /\ prog.code[pos].op = "hole"
    /\ vphase = "corrupt" => /\ pos < prog.funcs[cur].last
                             /\ prog.code[pos].op = "else"
                             /\ iftmp = << >>

CountInv ==
    /\ OpenDepth
    /\ OpenKept
    /\ ClosedRight
    /\ IfsLeft
    /\ StopsWhere

=============================================================================
