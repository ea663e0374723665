--------------------------- MODULE FwExec_proofs ----------------------------
(***************************************************************************)
(* Every step of the interpreter keeps RunInv, whatever the program, the   *)
(* arguments and the answers of malloc: the cursors stay inside the code   *)
(* and the stack inside its array, and as long as no err label was taken   *)
(* the blocks of locals have one owner each.                               *)
(***************************************************************************)
EXTENDS FwExec, FwLemmas

-----------------------------------------------------------------------------
(***************************************************************************)
(* What a step of the interpreter leaves alone                             *)
(***************************************************************************)
\* The code and the table are read only.
TableKept == UNCHANGED <<prog, desc, blk>>

HeapBlock == [vals : Seq(Nat), live : BOOLEAN]

HeapSet == Seq(HeapBlock)

StackTyped == stack \in [0..(StackMax - 1) -> StackCell] /\ sp \in 0..StackMax

\* The activations change, not what they save for their callers.
SavesKept ==
    /\ FuncActs' = FuncActs
    /\ \A i \in FuncActs : acts'[i].save = acts[i].save
    /\ acts' = << >> <=> acts = << >>
    /\ acts # << >> => acts'[1].kind = acts[1].kind /\ acts'[1].save = acts[1].save
    /\ \A i \in 1..Len(acts') : acts'[i].kind = "if" => acts'[i].resume # 0

\* The heap grows or stays: what pointed into it still does.
LEMMA PointersStay ==
    ASSUME heap \in HeapSet, heap' \in HeapSet, Len(heap) <= Len(heap'),
           prog' = prog
    PROVE  /\ Pointer \subseteq Pointer'
           /\ Addr' = Addr /\ Cursor' = Cursor /\ Funcs' = Funcs
           /\ Activation \subseteq Activation'
           /\ Seq(Activation) \subseteq Seq(Activation')
<1>1. DOMAIN heap = 1..Len(heap) /\ DOMAIN heap' = 1..Len(heap')
      /\ Len(heap) \in Nat /\ Len(heap') \in Nat
  BY LenProperties
<1>2. Pointer \subseteq Pointer'
  BY <1>1 DEF Pointer
<1>3. Addr' = Addr /\ Cursor' = Cursor /\ Funcs' = Funcs
  BY DEF Addr, Cursor, Funcs
<1>4. Activation \subseteq Activation'
  BY <1>2, <1>3 DEF Activation
<1>5. Seq(Activation) \subseteq Seq(Activation')
  BY <1>4, SeqMonotonic
<1> QED  BY <1>2, <1>3, <1>4, <1>5

LEMMA TableReadyStays == TableReady /\ TableKept => TableReady'
BY DEF TableReady, TableKept, Funcs

\* Who owns the locals does not depend on where the cursors are.
LEMMA OwnersStay ==
    ASSUME LocalsOwned, OuterLocals, SavesKept, Live' = Live,
           UNCHANGED <<locals, astray>>
    PROVE  LocalsOwned' /\ OuterLocals'
<1>1. LocalsOwned'
  <2> SUFFICES ASSUME ~astray
               PROVE  /\ Live' = ({locals'} \cup {acts'[i].save : i \in FuncActs'}) \ {Null}
                      /\ \A i \in FuncActs' : acts'[i].save # locals'
                      /\ \A i, j \in FuncActs' : acts'[i].save = acts'[j].save => i = j
    BY DEF LocalsOwned
  <2>1. {acts'[i].save : i \in FuncActs'} = {acts[i].save : i \in FuncActs}
    BY DEF SavesKept
  <2>2. \A i \in FuncActs' : i \in FuncActs /\ acts'[i].save = acts[i].save
    BY DEF SavesKept
  <2> QED  BY <2>1, <2>2 DEF LocalsOwned
<1>2. OuterLocals'
  BY DEF OuterLocals, SavesKept
<1> QED  BY <1>1, <1>2

(* A handler that allocates and frees nothing.                             *)
LEMMA HandlerKeeps ==
    ASSUME RunInv, TableKept,
           UNCHANGED <<args, frame, locals, astray>>,
           phase' \in Phases \ {"bad_free"}, phase' = "ok" => acts' = << >>,
           calling' \in Funcs \cup {0}, result' \in Nat \cup {-1},
           StackTyped',
           heap' \in HeapSet, Len(heap') = Len(heap), Live' = Live,
           acts' \in Seq(Activation), SavesKept
    PROVE  RunInv'
<1>1. TypeOK /\ TableReady /\ ActsNest /\ LocalsOwned /\ OuterLocals
  BY DEF RunInv
<1>2. prog' = prog /\ heap \in HeapSet /\ Len(heap) \in Nat
  BY <1>1, LenProperties DEF TableKept, TypeOK, HeapSet, HeapBlock
<1>3. /\ Pointer \subseteq Pointer' /\ Addr' = Addr /\ Funcs' = Funcs
      /\ acts' \in Seq(Activation')
  BY <1>2, PointersStay
<1>4. TypeOK'
  BY <1>1, <1>3 DEF TypeOK, StackTyped, HeapSet, HeapBlock
<1>5. ActsNest'
  BY <1>1 DEF ActsNest, SavesKept
<1>6. TableReady'
  BY <1>1, TableReadyStays
<1>7. LocalsOwned' /\ OuterLocals'
  BY <1>1, OwnersStay
<1>8. NoBadFree'
  BY DEF NoBadFree
<1> QED  BY <1>4, <1>5, <1>6, <1>7, <1>8 DEF RunInv

-----------------------------------------------------------------------------
(***************************************************************************)
(* The instruction and the stack                                           *)
(***************************************************************************)
LEMMA TopTyped ==
    ASSUME RunInv, acts # << >>
    PROVE  /\ Len(acts) \in Nat \ {0} /\ acts \in Seq(Activation)
           /\ Top = acts[Len(acts)] /\ Top \in Activation
           /\ \A i \in 1..Len(acts) : acts[i] \in Activation
           /\ FuncActs = {i \in 1..Len(acts) : acts[i].kind = "func"}
<1>1. acts \in Seq(Activation)
  BY DEF RunInv, TypeOK
<1>2. Len(acts) \in Nat \ {0} /\ DOMAIN acts = 1..Len(acts)
  BY <1>1, EmptySeq, LenProperties
<1>3. Top = acts[Len(acts)]
  BY DEF Top, Last
<1>4. \A i \in 1..Len(acts) : acts[i] \in Activation
  BY <1>1, ElementOfSeq
<1>5. Len(acts) \in 1..Len(acts)
  BY <1>2
<1> QED  BY <1>1, <1>2, <1>3, <1>4, <1>5 DEF FuncActs

\* Putting the cursor of an activation elsewhere in the code.
LEMMA CursorSet ==
    ASSUME NEW s \in Seq(Activation), s # << >>, NEW k \in 1..Len(s),
           NEW p \in Cursor
    PROVE  LET t == [s EXCEPT ![k].pos = p] IN
           /\ t \in Seq(Activation)
           /\ Len(t) = Len(s)
           /\ \A i \in 1..Len(s) : /\ t[i].kind = s[i].kind
                                   /\ t[i].save = s[i].save
                                   /\ t[i].resume = s[i].resume
<1> DEFINE a == [s[k] EXCEPT !.pos = p]
<1>1. s[k] \in Activation
  BY ElementOfSeq
<1>2. /\ a \in Activation
      /\ a.kind = s[k].kind /\ a.save = s[k].save /\ a.resume = s[k].resume
  BY <1>1 DEF Activation
<1>3. /\ [s EXCEPT ![k] = a] \in Seq(Activation)
      /\ Len([s EXCEPT ![k] = a]) = Len(s)
      /\ \A i \in 1..Len(s) : [s EXCEPT ![k] = a][i] = IF i = k THEN a ELSE s[i]
  BY <1>2, ExceptSeq
<1>4. [s EXCEPT ![k].pos = p] = [s EXCEPT ![k] = a]
  OBVIOUS
<1> HIDE DEF a
<1> QED  BY <1>2, <1>3, <1>4

\* A step that moves the running activation's cursor inside the code.
LEMMA CursorKeeps ==
    ASSUME RunInv, acts # << >>, NEW p \in Cursor,
           acts' = [acts EXCEPT ![Len(acts)].pos = p]
    PROVE  acts' \in Seq(Activation) /\ SavesKept
<1>1. /\ Len(acts) \in Nat \ {0} /\ acts \in Seq(Activation)
      /\ FuncActs = {i \in 1..Len(acts) : acts[i].kind = "func"}
  BY TopTyped
<1>2. Len(acts) \in 1..Len(acts)
  BY <1>1
<1>3. /\ acts' \in Seq(Activation) /\ Len(acts') = Len(acts)
      /\ \A i \in 1..Len(acts) : /\ acts'[i].kind = acts[i].kind
                                 /\ acts'[i].save = acts[i].save
                                 /\ acts'[i].resume = acts[i].resume
  BY <1>1, <1>2, CursorSet
<1>4. DOMAIN acts' = 1..Len(acts)
  BY <1>3, LenProperties
<1>5. FuncActs' = {i \in 1..Len(acts) : acts'[i].kind = "func"}
  BY <1>4 DEF FuncActs
<1>6. FuncActs' = FuncActs
  BY <1>1, <1>3, <1>5
<1>7. acts' # << >>
  BY <1>1, <1>3, EmptySeq
<1>8. 1 \in 1..Len(acts)
  BY <1>1
<1>9. \A i \in 1..Len(acts') : acts'[i].kind = "if" => acts'[i].resume # 0
  BY <1>3 DEF RunInv, ActsNest
<1>10. \A i \in FuncActs : acts'[i].save = acts[i].save
  BY <1>1, <1>3
<1> QED  BY <1>3, <1>6, <1>7, <1>8, <1>9, <1>10 DEF SavesKept

LEMMA AddrCursor == ASSUME RunInv PROVE Addr \subseteq Cursor
<1>1. Len(prog.code) \in Nat
  BY LenProperties DEF RunInv, TableReady, IsProgram
<1> QED  BY <1>1 DEF Addr, Cursor

LEMMA InstrThere ==
    ASSUME RunInv, Fetching
    PROVE  /\ acts # << >>
           /\ Top \in Activation /\ Onward \in Cursor
           /\ Arg \in Nat /\ Op \in Ops
           /\ StackTyped
<1>1. acts # << >> /\ Top \in Activation /\ Top.pos < Top.last
  BY TopTyped DEF Fetching
<1>2. prog.code \in Seq(Instr) /\ Len(prog.code) \in Nat
  BY LenProperties DEF RunInv, TableReady, IsProgram
<1>3. Top.pos \in 1..Len(prog.code) /\ Onward \in Cursor
  <2>1. Top.pos \in Cursor /\ Top.last \in Addr
    BY <1>1 DEF Activation
  <2> QED  BY <1>1, <1>2, <2>1 DEF Addr, Cursor, Onward, Behind
<1>4. prog.code[Top.pos] \in Instr
  BY <1>2, <1>3, ElementOfSeq
<1>5. StackTyped
  BY DEF RunInv, TypeOK, StackTyped
<1> QED  BY <1>1, <1>3, <1>4, <1>5 DEF Arg, Op, Instr

LEMMA CellTyped ==
    ASSUME ExecConstants, StackTyped, NEW k \in 1..sp
    PROVE  Cell(k) \in StackCell /\ Cell(k).v \in Nat
<1>1. sp - k \in 0..(StackMax - 1)
  BY DEF StackTyped, ExecConstants
<1>2. Cell(k) \in StackCell
  BY <1>1 DEF StackTyped, Cell
<1> QED  BY <1>2 DEF StackCell

LEMMA PushTyped ==
    ASSUME ExecConstants, StackTyped, NEW k \in Nat, k <= sp, sp - k < StackMax,
           NEW c \in StackCell, Push(k, c)
    PROVE  StackTyped'
<1>1. sp - k \in 0..(StackMax - 1) /\ sp - k + 1 \in 0..StackMax
  BY DEF StackTyped, ExecConstants
<1>2. stack' = [stack EXCEPT ![sp - k] = c] /\ sp' = sp - k + 1
  BY DEF Push
<1>3. stack' \in [0..(StackMax - 1) -> StackCell]
  BY <1>1, <1>2 DEF StackTyped
<1> QED  BY <1>1, <1>2, <1>3 DEF StackTyped

LEMMA PopTyped ==
    ASSUME ExecConstants, StackTyped, NEW k \in Nat, k <= sp, Pop(k)
    PROVE  StackTyped'
<1>1. sp - k \in 0..StackMax
  BY DEF StackTyped, ExecConstants
<1> QED  BY <1>1 DEF StackTyped, Pop

\* A handler that ends behind its instruction.
LEMMA HandlerAdvances ==
    ASSUME RunInv, TableKept, Fetching, acts' = Advanced, StackTyped', Unchanged
    PROVE  RunInv'
<1>1. acts # << >> /\ Onward \in Cursor
  BY InstrThere
<1>2. acts' = [acts EXCEPT ![Len(acts)].pos = Onward]
  BY DEF Advanced
<1>3. acts' \in Seq(Activation) /\ SavesKept
  BY <1>1, <1>2, CursorKeeps
<1>4. /\ UNCHANGED <<phase, args, calling, frame, heap, locals, result, astray>>
      /\ TypeOK /\ phase = "run"
  BY DEF Unchanged, RunInv, Fetching
<1>5. /\ phase' \in Phases \ {"bad_free"} /\ phase' # "ok"
      /\ calling' \in Funcs \cup {0} /\ result' \in Nat \cup {-1}
      /\ heap' \in HeapSet /\ Len(heap') = Len(heap) /\ Live' = Live
  BY <1>4 DEF TypeOK, HeapSet, HeapBlock, Live, Phases
<1> QED  BY <1>3, <1>4, <1>5, HandlerKeeps

\* A handler that ends the run.
LEMMA RunStops ==
    ASSUME RunInv, TableKept, phase' \in Phases \ {"bad_free", "ok"},
           UNCHANGED <<args, calling, acts, stack, sp, frame, locals, heap, result,
                       astray>>
    PROVE  RunInv'
<1>1. TypeOK /\ ActsNest
  BY DEF RunInv
<1>2. StackTyped' /\ acts' \in Seq(Activation)
  BY <1>1 DEF TypeOK, StackTyped
<1>3. SavesKept
  BY <1>1 DEF SavesKept, ActsNest, FuncActs
<1>4. /\ calling' \in Funcs \cup {0} /\ result' \in Nat \cup {-1}
      /\ heap' \in HeapSet /\ Len(heap') = Len(heap) /\ Live' = Live
  BY <1>1 DEF TypeOK, HeapSet, HeapBlock, Live
<1> QED  BY <1>2, <1>3, <1>4, HandlerKeeps

-----------------------------------------------------------------------------
(***************************************************************************)
(* The handlers: values                                                    *)
(***************************************************************************)
\* What At says of an opcode: it is fetched, and its cells are there.
LEMMA AtThere ==
    ASSUME ExecConstants, RunInv, NEW op, At(op)
    PROVE  /\ Fetching /\ Op = op /\ Read
           /\ Needs(op) <= sp /\ (Grows(op) => sp < StackMax)
           /\ StackTyped /\ Arg \in Nat /\ sp \in Nat /\ StackMax \in Nat \ {0}
           /\ sp <= StackMax
<1>1. StackTyped /\ Fetching /\ Arg \in Nat
  BY InstrThere DEF At
<1>2. sp \in Nat /\ StackMax \in Nat \ {0} /\ sp <= StackMax
  BY <1>1 DEF StackTyped, ExecConstants
<1>3. Op = op /\ Read /\ (Grows(op) => sp < StackMax) /\ sp >= Needs(op)
  BY DEF At
<1>4. Needs(op) <= sp
  <2>1. Needs(op) \in {0, 1, 2, 3}
    BY DEF Needs
  <2> QED  BY <1>2, <1>3, <2>1
<1> QED  BY <1>1, <1>2, <1>3, <1>4

LEMMA TruthTyped == \A b \in BOOLEAN : I32(Truth(b)) \in StackCell
BY DEF I32, Truth, StackCell, CellTypes

LEMMA ValueKeeps ==
    ASSUME ExecConstants, RunInv, TableKept, RunValue
    PROVE  RunInv'
<1>1. CASE RunConst
  <2>1. At("const") /\ Push(0, I32(Arg)) /\ acts' = Advanced /\ Unchanged
    BY <1>1 DEF RunConst
  <2>2. Fetching /\ StackTyped /\ sp < StackMax /\ I32(Arg) \in StackCell /\ sp \in Nat
    BY <2>1, AtThere DEF Grows, I32, StackCell, CellTypes
  <2>3. StackTyped'
    BY <2>1, <2>2, PushTyped
  <2> QED  BY <2>1, <2>2, <2>3, HandlerAdvances
<1>2. CASE RunWide
  <2> DEFINE c == [t |-> "wide", v |-> Arg]
  <2>1. At("wide") /\ Push(0, c) /\ acts' = Advanced /\ Unchanged
    BY <1>2 DEF RunWide
  <2>2. Fetching /\ StackTyped /\ sp < StackMax /\ c \in StackCell /\ sp \in Nat
    BY <2>1, AtThere DEF Grows, StackCell, CellTypes
  <2> HIDE DEF c
  <2>3. StackTyped'
    BY <2>1, <2>2, PushTyped
  <2> QED  BY <2>1, <2>2, <2>3, HandlerAdvances
<1>3. CASE RunDrop
  <2>1. At("drop") /\ Pop(1) /\ acts' = Advanced /\ Unchanged
    BY <1>3 DEF RunDrop
  <2>2. Fetching /\ StackTyped /\ 1 <= sp
    BY <2>1, AtThere DEF Needs
  <2>3. StackTyped'
    BY <2>1, <2>2, PopTyped
  <2> QED  BY <2>1, <2>2, <2>3, HandlerAdvances
<1>4. CASE RunSelect
  <2> DEFINE c == IF Cell(1).v # 0 THEN Cell(3) ELSE Cell(2)
  <2>1. At("select") /\ Push(3, c) /\ acts' = Advanced /\ Unchanged
    BY <1>4 DEF RunSelect
  <2>2. Fetching /\ StackTyped /\ 3 <= sp /\ sp <= StackMax /\ sp \in Nat /\ StackMax \in Nat
    BY <2>1, AtThere DEF Needs
  <2>3. c \in StackCell
    BY <2>2, CellTyped
  <2>4. sp - 3 < StackMax
    BY <2>2
  <2> HIDE DEF c
  <2>5. StackTyped'
    BY <2>1, <2>2, <2>3, <2>4, PushTyped
  <2> QED  BY <2>1, <2>2, <2>5, HandlerAdvances
<1>5. CASE RunEqz
  <2> DEFINE c == I32(Truth(Cell(1).v = 0))
  <2>1. At("eqz") /\ Push(1, c) /\ acts' = Advanced /\ Unchanged
    BY <1>5 DEF RunEqz
  <2>2. Fetching /\ StackTyped /\ 1 <= sp /\ sp - 1 < StackMax
    BY <2>1, AtThere DEF Needs
  <2>3. c \in StackCell
    BY TruthTyped
  <2> HIDE DEF c
  <2>4. StackTyped'
    BY <2>1, <2>2, <2>3, PushTyped
  <2> QED  BY <2>1, <2>2, <2>4, HandlerAdvances
<1>6. CASE RunEq \/ RunGtS
  <2>1. PICK b \in BOOLEAN : Push(2, I32(Truth(b)))
    <3>1. (Cell(2).v = Cell(1).v) \in BOOLEAN /\ (Cell(2).v > Cell(1).v) \in BOOLEAN
      OBVIOUS
    <3> QED  BY <1>6, <3>1 DEF RunEq, RunGtS
  <2>2. (At("eq") \/ At("gt_s")) /\ acts' = Advanced /\ Unchanged
    BY <1>6 DEF RunEq, RunGtS
  <2>3. Fetching /\ StackTyped /\ 2 <= sp /\ sp - 2 < StackMax
    BY <2>2, AtThere DEF Needs
  <2>4. StackTyped'
    BY <2>1, <2>3, TruthTyped, PushTyped
  <2> QED  BY <2>2, <2>3, <2>4, HandlerAdvances
<1>7. CASE RunNe
  <2>1. At("ne") /\ acts' = Advanced /\ Unchanged
    BY <1>7 DEF RunNe
  <2>2. Fetching /\ StackTyped /\ 2 <= sp /\ sp - 2 < StackMax
    BY <2>1, AtThere DEF Needs
  <2>3. CASE Pop(2)
    <3>1. StackTyped'
      BY <2>2, <2>3, PopTyped
    <3> QED  BY <2>1, <2>2, <3>1, HandlerAdvances
  <2>4. CASE ~Pop(2)
    <3> DEFINE b == Cell(2).v # Cell(1).v
    <3>1. Push(2, I32(Truth(b)))
      BY <1>7, <2>4 DEF RunNe
    <3>2. b \in BOOLEAN
      OBVIOUS
    <3> HIDE DEF b
    <3>3. StackTyped'
      BY <2>2, <3>1, <3>2, TruthTyped, PushTyped
    <3> QED  BY <2>1, <2>2, <3>3, HandlerAdvances
  <2> QED  BY <2>3, <2>4
<1> QED  BY <1>1, <1>2, <1>3, <1>4, <1>5, <1>6, <1>7 DEF RunValue

-----------------------------------------------------------------------------
(***************************************************************************)
(* The handlers: locals                                                    *)
(***************************************************************************)
LEMMA BlockTyped ==
    ASSUME heap \in HeapSet, NEW i \in DOMAIN heap
    PROVE  heap[i] \in HeapBlock /\ heap[i].vals \in Seq(Nat) /\ heap[i].live \in BOOLEAN
<1>1. i \in 1..Len(heap)
  BY LenProperties DEF HeapSet
<1>2. heap[i] \in HeapBlock
  BY <1>1, ElementOfSeq DEF HeapSet
<1> QED  BY <1>2 DEF HeapBlock

\* Writing a local leaves its block allocated, or not, as it was.
LEMMA LocalWritten ==
    ASSUME heap \in HeapSet, locals \in DOMAIN heap, NEW k, NEW v \in Nat,
           heap' = [heap EXCEPT ![locals].vals[k] = v]
    PROVE  /\ heap' \in HeapSet /\ Len(heap') = Len(heap) /\ Live' = Live
<1> DEFINE o == heap[locals]
           n == [o EXCEPT !.vals = [o.vals EXCEPT ![k] = v]]
<1>1. DOMAIN heap = 1..Len(heap) /\ o \in HeapBlock /\ o \in [vals : Seq(Nat), live : BOOLEAN]
  <2>1. DOMAIN heap = 1..Len(heap)
    BY LenProperties DEF HeapSet
  <2> QED  BY <2>1, BlockTyped DEF HeapBlock
<1>2. [o.vals EXCEPT ![k] = v] \in Seq(Nat)
  <2>1. o.vals \in Seq(Nat) /\ DOMAIN o.vals = 1..Len(o.vals)
    BY <1>1, LenProperties
  <2>2. CASE k \in 1..Len(o.vals)
    BY <2>1, <2>2, ExceptSeq
  <2>3. CASE k \notin 1..Len(o.vals)
    <3> HIDE DEF o
    <3>1. [o.vals EXCEPT ![k] = v] = o.vals
      BY <2>1, <2>3, LenProperties
    <3> QED  BY <2>1, <3>1
  <2> QED  BY <2>2, <2>3
<1>3. n \in HeapBlock /\ n.live = o.live
  BY <1>1, <1>2 DEF HeapBlock
<1>4. heap' = [heap EXCEPT ![locals] = n]
  OBVIOUS
<1>5. /\ heap' \in HeapSet /\ Len(heap') = Len(heap)
      /\ \A i \in 1..Len(heap) : heap'[i] = IF i = locals THEN n ELSE heap[i]
  <2> HIDE DEF n, o
  <2>1. heap \in Seq(HeapBlock) /\ locals \in 1..Len(heap) /\ n \in HeapBlock
    BY <1>1, <1>3 DEF HeapSet
  <2>2. /\ [heap EXCEPT ![locals] = n] \in Seq(HeapBlock)
        /\ Len([heap EXCEPT ![locals] = n]) = Len(heap)
        /\ \A i \in 1..Len(heap) :
              [heap EXCEPT ![locals] = n][i] = IF i = locals THEN n ELSE heap[i]
    BY <2>1, ExceptSeq
  <2> QED  BY <1>4, <2>2 DEF HeapSet
<1> HIDE DEF n
<1>6. Live' = Live
  <2>1. DOMAIN heap' = 1..Len(heap)
    BY <1>5, LenProperties DEF HeapSet
  <2> QED  BY <1>1, <1>3, <1>5, <2>1 DEF Live
<1> QED  BY <1>5, <1>6

LEMMA LocalKeeps ==
    ASSUME ExecConstants, RunInv, TableKept, RunLocal
    PROVE  RunInv'
<1>1. TypeOK /\ heap \in HeapSet
  BY DEF RunInv, TypeOK, HeapSet, HeapBlock
<1>2. CASE RunLocalGet
  <2> DEFINE x == heap[locals].vals[Arg + 1]
  <2>1. /\ At("get") /\ LocalThere /\ Push(0, I32(x))
        /\ acts' = Advanced /\ Unchanged
    BY <1>2 DEF RunLocalGet
  <2>2. Fetching /\ StackTyped /\ sp < StackMax /\ sp \in Nat /\ Arg \in Nat
    BY <2>1, AtThere DEF Grows
  <2>3. heap[locals].vals \in Seq(Nat)
    BY <1>1, <2>1, BlockTyped DEF LocalThere
  <2>4. x \in Nat
    <3>1. Arg + 1 \in 1..Len(heap[locals].vals)
      BY <2>1, <2>2, <2>3, LenProperties DEF LocalThere
    <3> QED  BY <2>3, <3>1, ElementOfSeq
  <2> HIDE DEF x
  <2>5. I32(x) \in StackCell
    BY <2>4 DEF I32, StackCell, CellTypes
  <2>6. StackTyped'
    BY <2>1, <2>2, <2>5, PushTyped
  <2> QED  BY <2>1, <2>2, <2>6, HandlerAdvances
<1>3. CASE RunLocalSet
  <2>1. /\ At("set") \/ At("tee")
        /\ heap' = [heap EXCEPT ![locals].vals[Arg + 1] = Cell(1).v]
        /\ acts' = Advanced
        /\ UNCHANGED <<phase, args, calling, frame, locals, result, astray>>
        /\ LocalThere
    BY <1>3 DEF RunLocalSet
  <2>2. Fetching /\ StackTyped /\ 1 <= sp /\ sp \in Nat
    BY <2>1, AtThere DEF Needs
  <2>3. StackTyped'
    BY <1>3, <2>2, PopTyped DEF RunLocalSet
  <2>4. Cell(1).v \in Nat
    BY <2>2, CellTyped
  <2>5. heap' \in HeapSet /\ Len(heap') = Len(heap) /\ Live' = Live
    BY <1>1, <2>1, <2>4, LocalWritten DEF LocalThere
  <2>6. acts # << >> /\ Onward \in Cursor
    BY <2>2, InstrThere
  <2>7. acts' = [acts EXCEPT ![Len(acts)].pos = Onward]
    BY <2>1 DEF Advanced
  <2>8. acts' \in Seq(Activation) /\ SavesKept
    BY <2>6, <2>7, CursorKeeps
  <2>9. /\ phase' \in Phases \ {"bad_free"} /\ phase' # "ok"
        /\ calling' \in Funcs \cup {0} /\ result' \in Nat \cup {-1}
    BY <1>1, <2>1, <2>2 DEF TypeOK, Phases, Fetching
  <2> QED  BY <2>1, <2>3, <2>5, <2>8, <2>9, HandlerKeeps
<1>4. CASE LocalFault
  <2>1. phase' \in {"crash", "bad_access"}
    BY <1>4 DEF LocalFault
  <2>2. UNCHANGED <<args, calling, acts, stack, sp, frame, locals, heap, result, astray>>
    BY <1>4 DEF LocalFault
  <2> QED  BY <2>1, <2>2, RunStops DEF Phases
<1> QED  BY <1>2, <1>3, <1>4 DEF RunLocal

-----------------------------------------------------------------------------
(***************************************************************************)
(* The handlers: control                                                   *)
(***************************************************************************)
\* fw_instr_find_blk answers a block of the table, when it answers one.
LEMMA FoundInTable ==
    ASSUME RunInv, acts # << >>, Found # {}
    PROVE  LET b == desc[FirstFound]
           IN b.start = Onward /\ {b.els, b.end} \subseteq 2..(Len(prog.code) + 1)
<1> DEFINE l == blk[Top.fn]
<1>1. Top.fn \in Funcs
  BY TopTyped DEF Activation
<1>2. Found \subseteq 1..Len(l) /\ Len(l) \in Nat
  BY <1>1, LenProperties DEF RunInv, TableReady, Found
<1>3. Found \in SUBSET Nat
  BY <1>2
<1>4. \E m \in Found : \A n \in Found : m <= n
  BY <1>3, Least
<1>5. PICK m \in Found : FirstFound = l[m]
  BY <1>4 DEF FirstFound
<1>6. desc[l[m]].start = Onward
  BY DEF Found
<1>7. {desc[l[m]].els, desc[l[m]].end} \subseteq 2..(Len(prog.code) + 1)
  <2> HIDE <1>3, <1>4, <1>5, <1>6
  <2> QED  BY <1>1, <1>2 DEF RunInv, TableReady
<1> QED  BY <1>5, <1>6, <1>7

\* The activation of a branch of an `if' comes on top.
LEMMA BranchEntered ==
    ASSUME RunInv, acts # << >>, NEW s \in Seq(Activation), Len(s) = Len(acts),
           \A i \in 1..Len(acts) : /\ s[i].kind = acts[i].kind
                                   /\ s[i].save = acts[i].save
                                   /\ s[i].resume = acts[i].resume,
           NEW a \in Activation, a.kind = "if", a.resume # 0,
           acts' = Append(s, a)
    PROVE  acts' \in Seq(Activation) /\ SavesKept
<1>1. /\ Len(acts) \in Nat \ {0}
      /\ FuncActs = {i \in 1..Len(acts) : acts[i].kind = "func"}
      /\ \A i \in 1..Len(acts) : acts[i].kind = "if" => acts[i].resume # 0
  BY TopTyped DEF RunInv, ActsNest
<1>2. /\ acts' \in Seq(Activation) /\ acts' # << >> /\ Len(acts') = Len(acts) + 1
      /\ \A i \in 1..Len(acts) : acts'[i] = s[i]
      /\ acts'[Len(acts) + 1] = a
  BY AppendProperties
<1>3. FuncActs' = {i \in 1..(Len(acts) + 1) : acts'[i].kind = "func"}
  BY <1>2, LenProperties DEF FuncActs
<1>4. \A i \in 1..(Len(acts) + 1) : i \in 1..Len(acts) \/ i = Len(acts) + 1
  BY <1>1
<1>5. 1 \in 1..Len(acts) /\ \A i \in 1..Len(acts) : i \in 1..(Len(acts) + 1)
  BY <1>1
<1>6. FuncActs' = FuncActs
  BY <1>1, <1>2, <1>3, <1>4, <1>5
<1>7. \A i \in FuncActs : acts'[i].save = acts[i].save
  BY <1>1, <1>2
<1>8. \A i \in 1..Len(acts') : acts'[i].kind = "if" => acts'[i].resume # 0
  BY <1>1, <1>2, <1>4
<1> QED  BY <1>2, <1>5, <1>6, <1>7, <1>8 DEF SavesKept

\* The activation of a branch is left.
LEMMA BranchLeft ==
    ASSUME RunInv, acts # << >>, Top.kind = "if"
    PROVE  /\ Len(acts) - 1 \in 1..Len(Front(acts)) /\ Front(acts) # << >>
           /\ Len(Front(acts)) = Len(acts) - 1 /\ Front(acts) \in Seq(Activation)
           /\ \A s \in Seq(Activation) :
                 ( /\ acts' = s /\ Len(s) = Len(Front(acts))
                   /\ \A i \in 1..Len(s) : /\ s[i].kind = Front(acts)[i].kind
                                           /\ s[i].save = Front(acts)[i].save
                                           /\ s[i].resume = Front(acts)[i].resume )
                 => acts' \in Seq(Activation) /\ SavesKept
<1>1. /\ Len(acts) \in Nat \ {0} /\ acts \in Seq(Activation)
      /\ Top = acts[Len(acts)]
      /\ FuncActs = {i \in 1..Len(acts) : acts[i].kind = "func"}
      /\ acts[1].kind = "func"
      /\ \A i \in 1..Len(acts) : acts[i].kind = "if" => acts[i].resume # 0
  BY TopTyped DEF RunInv, ActsNest
<1>2. Len(acts) # 1
  BY <1>1
<1>3. /\ Front(acts) \in Seq(Activation) /\ Len(Front(acts)) = Len(acts) - 1
      /\ \A i \in 1..(Len(acts) - 1) : Front(acts)[i] = acts[i]
  BY <1>1, FrontSeq
<1>4. Len(acts) - 1 \in 1..Len(Front(acts)) /\ Front(acts) # << >>
  BY <1>1, <1>2, <1>3, EmptySeq
<1>5. ASSUME NEW s \in Seq(Activation), acts' = s, Len(s) = Len(Front(acts)),
             \A i \in 1..Len(s) : /\ s[i].kind = Front(acts)[i].kind
                                  /\ s[i].save = Front(acts)[i].save
                                  /\ s[i].resume = Front(acts)[i].resume
      PROVE  acts' \in Seq(Activation) /\ SavesKept
  <2>1. \A i \in 1..(Len(acts) - 1) : /\ acts'[i].kind = acts[i].kind
                                      /\ acts'[i].save = acts[i].save
                                      /\ acts'[i].resume = acts[i].resume
    BY <1>3, <1>5
  <2>2. FuncActs' = {i \in 1..(Len(acts) - 1) : acts'[i].kind = "func"}
    BY <1>3, <1>5, LenProperties DEF FuncActs
  <2>3. \A i \in 1..Len(acts) : i \in 1..(Len(acts) - 1) \/ i = Len(acts)
    BY <1>1
  <2>4. 1 \in 1..(Len(acts) - 1) /\ \A i \in 1..(Len(acts) - 1) : i \in 1..Len(acts)
    BY <1>1, <1>2
  <2>5. FuncActs' = FuncActs
    BY <1>1, <2>1, <2>2, <2>3, <2>4
  <2>6. \A i \in FuncActs : acts'[i].save = acts[i].save
    BY <2>1, <2>2, <2>5
  <2>7. \A i \in 1..Len(acts') : acts'[i].kind = "if" => acts'[i].resume # 0
    <3>1. Len(acts') = Len(acts) - 1
      BY <1>3, <1>5
    <3> QED  BY <1>1, <2>1, <2>4, <3>1
  <2>8. acts' # << >>
    BY <1>3, <1>4, <1>5, EmptySeq
  <2> QED  BY <1>5, <2>1, <2>4, <2>5, <2>6, <2>7, <2>8 DEF SavesKept
<1> QED  BY <1>3, <1>4, <1>5

\* A handler that moves the cursors and nothing of the heap.
LEMMA ActsMove ==
    ASSUME RunInv, TableKept, phase = "run", Unchanged, StackTyped',
           acts' \in Seq(Activation), SavesKept
    PROVE  RunInv'
<1>1. /\ UNCHANGED <<phase, args, calling, frame, heap, locals, result, astray>>
      /\ TypeOK
  BY DEF Unchanged, RunInv
<1>2. /\ phase' \in Phases \ {"bad_free"} /\ phase' # "ok"
      /\ calling' \in Funcs \cup {0} /\ result' \in Nat \cup {-1}
      /\ heap' \in HeapSet /\ Len(heap') = Len(heap) /\ Live' = Live
  BY <1>1 DEF TypeOK, HeapSet, HeapBlock, Live, Phases
<1> QED  BY <1>1, <1>2, HandlerKeeps

LEMMA LabelTyped == \A n \in Nat : Label(n) \in StackCell
BY DEF Label, StackCell, CellTypes

\* fw_instr_run_loop, _block, _end and _else.
LEMMA LabelsKeep ==
    ASSUME ExecConstants, RunInv, TableKept, RunLoop \/ RunBlock \/ RunEnd \/ RunElse
    PROVE  RunInv'
<1>1. CASE RunLoop
  <2>1. At("loop") /\ Push(0, Label(Arg)) /\ acts' = Advanced /\ Unchanged
    BY <1>1 DEF RunLoop
  <2>2. Fetching /\ StackTyped /\ sp < StackMax /\ sp \in Nat /\ Label(Arg) \in StackCell
    BY <2>1, AtThere, LabelTyped DEF Grows
  <2>3. StackTyped'
    BY <2>1, <2>2, PushTyped
  <2> QED  BY <2>1, <2>2, <2>3, HandlerAdvances
<1>2. CASE RunBlock
  <2>1. At("block") /\ acts' = Advanced /\ Unchanged
    BY <1>2 DEF RunBlock
  <2>2. Fetching /\ StackTyped /\ sp \in Nat /\ Label(Arg) \in StackCell
        /\ (Found # {} => sp < StackMax)
    BY <2>1, AtThere, LabelTyped DEF Grows
  <2>3. (Found # {} /\ Push(0, Label(Arg))) \/ Pop(0)
    BY <1>2 DEF RunBlock
  <2>4. StackTyped'
    BY <2>2, <2>3, PushTyped, PopTyped
  <2> QED  BY <2>1, <2>2, <2>4, HandlerAdvances
<1>3. CASE RunEnd
  <2>1. At("end") /\ Pop(0) /\ acts' = Advanced /\ Unchanged
    BY <1>3 DEF RunEnd
  <2>2. Fetching /\ StackTyped /\ 0 <= sp
    BY <2>1, AtThere
  <2>3. StackTyped'
    BY <2>1, <2>2, PopTyped
  <2> QED  BY <2>1, <2>2, <2>3, HandlerAdvances
<1>4. CASE RunElse
  <2>1. At("else") /\ Pop(1) /\ acts' = Advanced /\ Unchanged
    BY <1>4 DEF RunElse
  <2>2. Fetching /\ StackTyped /\ 1 <= sp
    BY <2>1, AtThere DEF Needs
  <2>3. StackTyped'
    BY <2>1, <2>2, PopTyped
  <2> QED  BY <2>1, <2>2, <2>3, HandlerAdvances
<1> QED  BY <1>1, <1>2, <1>3, <1>4

LEMMA IfKeeps ==
    ASSUME ExecConstants, RunInv, TableKept, RunIf
    PROVE  RunInv'
<1>1. At("if") /\ Unchanged
  BY DEF RunIf
<1>2. /\ Fetching /\ StackTyped /\ sp \in Nat /\ sp <= StackMax /\ StackMax \in Nat
      /\ (Found # {} => 1 <= sp)
  BY <1>1, AtThere DEF Needs
<1>3. acts # << >> /\ Top \in Activation /\ Onward \in Cursor /\ phase = "run"
  BY <1>2, InstrThere DEF Fetching
<1>4. CASE acts' = Advanced
  <2>1. StackTyped'
    <3>1. Pop(0) \/ (Found # {} /\ Pop(1))
      BY DEF RunIf
    <3> QED  BY <1>2, <3>1, PopTyped
  <2> QED  BY <1>1, <1>2, <1>4, <2>1, HandlerAdvances
<1>5. CASE acts' # Advanced
  <2> DEFINE b == desc[FirstFound]
             yes == Cell(1).v # 0
             a == [kind |-> "if", fn |-> Top.fn,
                   pos |-> IF yes THEN b.start ELSE b.els,
                   last |-> IF yes THEN b.els - 1 ELSE b.end,
                   save |-> Null, resume |-> b.end, base |-> sp - 1]
  <2>1. Found # {} /\ Pop(1) /\ acts' = Append(Advanced, a)
    BY <1>5 DEF RunIf
  <2>2. StackTyped'
    BY <1>2, <2>1, PopTyped
  <2>3. b.start = Onward /\ {b.els, b.end} \subseteq 2..(Len(prog.code) + 1)
    BY <1>3, <2>1, FoundInTable
  <2>4. Len(prog.code) \in Nat
    BY LenProperties DEF RunInv, TableReady, IsProgram
  <2>5. /\ b.start \in Cursor /\ b.els \in Cursor /\ b.els - 1 \in Addr
        /\ b.end \in Addr /\ b.end # 0
    <3> HIDE DEF b
    <3> QED  BY <1>3, <2>3, <2>4 DEF Addr, Cursor
  <2>6. sp - 1 \in 0..StackMax
    BY <1>2, <2>1
  <2>7. Top.fn \in Funcs /\ Null \in Pointer
    BY <1>3 DEF Activation, Pointer
  <2>8. a \in Activation /\ a.kind = "if" /\ a.resume # 0
    <3> HIDE DEF b, yes
    <3> QED  BY <2>5, <2>6, <2>7 DEF Activation
  <2> HIDE DEF a
  <2>9. /\ Advanced \in Seq(Activation) /\ Len(Advanced) = Len(acts)
        /\ \A i \in 1..Len(acts) : /\ Advanced[i].kind = acts[i].kind
                                   /\ Advanced[i].save = acts[i].save
                                   /\ Advanced[i].resume = acts[i].resume
    <3>1. Advanced = [acts EXCEPT ![Len(acts)].pos = Onward]
      BY DEF Advanced
    <3>2. Len(acts) \in 1..Len(acts) /\ acts \in Seq(Activation)
      BY <1>3, TopTyped
    <3> QED  BY <1>3, <3>1, <3>2, CursorSet
  <2>10. acts' \in Seq(Activation) /\ SavesKept
    BY <1>3, <2>1, <2>8, <2>9, BranchEntered
  <2> QED  BY <1>1, <1>3, <2>2, <2>10, ActsMove
<1> QED  BY <1>4, <1>5

\* A branch ends, or an opcode in it is unknown.
LEMMA BranchEnds ==
    ASSUME ExecConstants, RunInv, TableKept, EndIf \/ UnknownInIf
    PROVE  RunInv'
<1>1. /\ phase = "run" /\ acts # << >> /\ Top.kind = "if" /\ Pop(0) /\ Unchanged
  BY DEF EndIf, UnknownInIf, Fetching
<1>2. StackTyped /\ TypeOK /\ 0 <= sp
  BY DEF RunInv, TypeOK, StackTyped
<1>3. StackTyped'
  BY <1>1, <1>2, PopTyped
<1>4. /\ Len(acts) - 1 \in 1..Len(Front(acts)) /\ Front(acts) # << >>
      /\ Len(Front(acts)) = Len(acts) - 1 /\ Front(acts) \in Seq(Activation)
      /\ \A s \in Seq(Activation) :
            ( /\ acts' = s /\ Len(s) = Len(Front(acts))
              /\ \A i \in 1..Len(s) : /\ s[i].kind = Front(acts)[i].kind
                                      /\ s[i].save = Front(acts)[i].save
                                      /\ s[i].resume = Front(acts)[i].resume )
            => acts' \in Seq(Activation) /\ SavesKept
  BY <1>1, BranchLeft
<1>5. CASE UnknownInIf
  <2>1. acts' = Front(acts)
    BY <1>5 DEF UnknownInIf
  <2>2. acts' \in Seq(Activation) /\ SavesKept
    BY <1>4, <2>1
  <2> QED  BY <1>1, <1>3, <2>2, ActsMove
<1>6. CASE EndIf
  <2> DEFINE p == IF Top.pos > Top.last THEN Top.pos ELSE Top.resume
             t == [Front(acts) EXCEPT ![Len(acts) - 1].pos = p]
  <2>1. acts' = t
    BY <1>6 DEF EndIf
  <2>2. p \in Cursor
    <3>1. /\ Top \in Activation /\ Top = acts[Len(acts)] /\ Len(acts) \in Nat \ {0}
          /\ \A i \in 1..Len(acts) : acts[i].kind = "if" => acts[i].resume # 0
      BY <1>1, TopTyped DEF RunInv, ActsNest
    <3>2. Top.resume # 0
      BY <1>1, <3>1
    <3>3. Top.pos \in Cursor /\ Top.resume \in Addr \cup {0}
      BY <3>1 DEF Activation
    <3> QED  BY <3>2, <3>3, AddrCursor
  <2>3. /\ t \in Seq(Activation) /\ Len(t) = Len(Front(acts))
        /\ \A i \in 1..Len(Front(acts)) : /\ t[i].kind = Front(acts)[i].kind
                                          /\ t[i].save = Front(acts)[i].save
                                          /\ t[i].resume = Front(acts)[i].resume
    <3> HIDE DEF p
    <3> QED  BY <1>4, <2>2, CursorSet
  <2> HIDE DEF t
  <2>4. acts' \in Seq(Activation) /\ SavesKept
    BY <1>4, <2>1, <2>3
  <2> QED  BY <1>1, <1>3, <2>4, ActsMove
<1> QED  BY <1>5, <1>6

LEMMA ReturnKeeps ==
    ASSUME ExecConstants, RunInv, TableKept, RunReturn
    PROVE  RunInv'
<1> DEFINE n == F(Top.fn).nres
           to == frame.depth
<1>1. /\ At("return") /\ Unchanged
      /\ acts' = [acts EXCEPT ![Len(acts)].pos = frame.end]
  BY DEF RunReturn
<1>2. /\ Fetching /\ StackTyped /\ sp \in Nat /\ sp <= StackMax /\ StackMax \in Nat \ {0}
  BY <1>1, AtThere
<1>3. acts # << >> /\ Top \in Activation /\ phase = "run"
  BY <1>2, InstrThere DEF Fetching
<1>4. frame.end \in Addr /\ to \in 0..(StackMax - 1) /\ to \in Nat
  <2>1. frame \in [end : Addr \cup {0}, depth : 0..(DepthMod - 1)]
    BY DEF RunInv, TypeOK
  <2>2. frame.end # 0
    BY <1>3 DEF RunInv, ActsNest
  <2> QED  BY <2>1, <2>2 DEF ExecConstants
<1>5. n \in {0, 1}
  <2>1. prog.funcs \in Seq(Func) /\ Top.fn \in 1..Len(prog.funcs)
    BY <1>3 DEF RunInv, TableReady, IsProgram, Activation, Funcs
  <2>2. F(Top.fn) \in Func
    BY <2>1, ElementOfSeq DEF F
  <2> QED  BY <2>2 DEF Func
<1>6. StackTyped'
  <2>1. CASE sp - n = to
    <3>1. Pop(0)
      BY <2>1 DEF RunReturn
    <3> QED  BY <1>2, <3>1, PopTyped
  <2>2. CASE sp - n # to /\ sp - n >= 0
    <3>1. /\ stack' = IF n = 1 THEN [stack EXCEPT ![to] = Cell(1)] ELSE stack
          /\ sp' = to + n
      BY <2>2 DEF RunReturn
    <3>2. sp' \in 0..StackMax
      BY <1>2, <1>4, <1>5, <3>1
    <3>3. n = 1 => Cell(1) \in StackCell
      BY <1>2, <2>2, CellTyped
    <3> HIDE DEF n, to
    <3>4. stack' \in [0..(StackMax - 1) -> StackCell]
      BY <1>2, <1>4, <3>1, <3>3 DEF StackTyped
    <3> QED  BY <3>2, <3>4 DEF StackTyped
  <2>3. CASE sp - n # to /\ ~(sp - n >= 0)
    <3>1. stack' = stack /\ sp' = to
      BY <2>3 DEF RunReturn
    <3> QED  BY <1>2, <1>4, <3>1 DEF StackTyped
  <2> QED  BY <2>1, <2>2, <2>3
<1>7. acts' \in Seq(Activation) /\ SavesKept
  BY <1>1, <1>3, <1>4, AddrCursor, CursorKeeps
<1> QED  BY <1>1, <1>3, <1>6, <1>7, ActsMove

LEMMA CallKeeps ==
    ASSUME ExecConstants, RunInv, TableKept, RunCall
    PROVE  RunInv'
<1>1. /\ At("call")
      /\ UNCHANGED <<args, stack, sp, frame, locals, heap, result, astray>>
  BY DEF RunCall
<1>2. Fetching /\ StackTyped /\ acts # << >> /\ Onward \in Cursor /\ TypeOK
  BY <1>1, AtThere, InstrThere DEF RunInv
<1>3. CASE Arg \in Funcs
  <2>1. calling' = Arg /\ acts' = Advanced /\ phase' = phase
    BY <1>3 DEF RunCall
  <2>2. acts' = [acts EXCEPT ![Len(acts)].pos = Onward]
    BY <2>1 DEF Advanced
  <2>3. acts' \in Seq(Activation) /\ SavesKept
    BY <1>2, <2>2, CursorKeeps
  <2>4. StackTyped'
    BY <1>1, <1>2 DEF StackTyped
  <2>5. /\ phase' \in Phases \ {"bad_free"} /\ phase' # "ok"
        /\ calling' \in Funcs \cup {0} /\ result' \in Nat \cup {-1}
        /\ heap' \in HeapSet /\ Len(heap') = Len(heap) /\ Live' = Live
    BY <1>1, <1>2, <1>3, <2>1 DEF TypeOK, HeapSet, HeapBlock, Live, Phases, Fetching
  <2> QED  BY <1>1, <2>3, <2>4, <2>5, HandlerKeeps
<1>4. CASE Arg \notin Funcs
  <2>1. phase' = "bad_access" /\ UNCHANGED <<calling, acts>>
    BY <1>4 DEF RunCall
  <2> QED  BY <1>1, <2>1, RunStops DEF Phases
<1> QED  BY <1>3, <1>4

LEMMA ControlKeeps ==
    ASSUME ExecConstants, RunInv, TableKept, RunControl
    PROVE  RunInv'
<1>1. CASE RunNothing
  <2>1. phase' \in {"crash", "wild"}
        /\ UNCHANGED <<args, calling, acts, stack, sp, frame, locals, heap, result,
                       astray>>
    BY <1>1 DEF RunNothing
  <2> QED  BY <2>1, RunStops DEF Phases
<1>2. CASE RunRefused
  <2> DEFINE k == IF Op = "set" THEN 1 ELSE 0
  <2>1. /\ Fetching /\ Pop(k) /\ acts' = Advanced /\ Unchanged
        /\ sp >= Needs(Op)
    BY <1>2 DEF RunRefused
  <2>2. StackTyped /\ sp \in Nat /\ k \in Nat
    BY <2>1, InstrThere DEF StackTyped, ExecConstants
  <2>3. k <= sp
    BY <2>1, <2>2 DEF Needs
  <2> HIDE DEF k
  <2>4. StackTyped'
    BY <2>1, <2>2, <2>3, PopTyped
  <2> QED  BY <2>1, <2>4, HandlerAdvances
<1> QED
  BY <1>1, <1>2, LabelsKeep, IfKeeps, BranchEnds, CallKeeps, ReturnKeeps DEF RunControl

-----------------------------------------------------------------------------
(***************************************************************************)
(* Host functions                                                          *)
(***************************************************************************)
LEMMA CalleeTyped ==
    ASSUME RunInv, calling # 0
    PROVE  calling \in Funcs /\ F(calling) \in Func
<1>1. calling \in Funcs /\ prog.funcs \in Seq(Func)
  BY DEF RunInv, TypeOK, TableReady, IsProgram
<1> QED  BY <1>1, ElementOfSeq DEF F, Funcs

\* The arguments popped are on the stack.
LEMMA GoodArgsBound ==
    ASSUME ExecConstants, RunInv, EnteringHost
    PROVE  GoodArgs \in Nat /\ GoodArgs <= sp /\ GoodArgs <= F(calling).nparam
<1> DEFINE n == F(calling).nparam
           bad == {k \in 1..n : k > sp \/ (k <= sp /\ Cell(k).t # "i32")}
<1>1. n \in Nat /\ sp \in Nat
  <2>1. F(calling) \in Func /\ sp \in 0..StackMax /\ StackMax \in Nat
    BY CalleeTyped DEF EnteringHost, RunInv, TypeOK, ExecConstants
  <2> QED  BY <2>1 DEF Func
<1>2. GoodArgs = IF bad = {} THEN n ELSE (CHOOSE k \in bad : \A j \in bad : k <= j) - 1
  BY DEF GoodArgs
<1>3. CASE bad = {}
  <2>1. GoodArgs = n
    BY <1>2, <1>3
  <2>2. n <= sp
    <3> SUFFICES ASSUME n > sp PROVE FALSE
      BY <1>1
    <3>1. n \in bad
      BY <1>1
    <3> QED  BY <1>3, <3>1
  <2> QED  BY <1>1, <2>1, <2>2
<1>4. CASE bad # {}
  <2> DEFINE m == CHOOSE k \in bad : \A j \in bad : k <= j
  <2>1. bad \in SUBSET Nat
    BY <1>1
  <2>2. \E k \in bad : \A j \in bad : k <= j
    <3> HIDE DEF bad
    <3> QED  BY <1>4, <2>1, Least
  <2>3. m \in bad /\ \A j \in bad : m <= j
    <3> HIDE DEF bad
    <3> QED  BY <2>2
  <2>4. GoodArgs = m - 1
    BY <1>2, <1>4
  <2>5. m \in 1..n
    BY <2>3
  <2>6. m - 1 <= sp
    <3> SUFFICES ASSUME m - 1 > sp PROVE FALSE
      BY <1>1, <2>5
    <3>1. sp + 1 \in 1..n /\ sp + 1 > sp /\ sp + 1 < m
      BY <1>1, <2>5
    <3>2. sp + 1 \in bad
      BY <3>1
    <3> HIDE DEF bad, m
    <3> QED  BY <1>1, <2>3, <2>5, <3>1, <3>2
  <2> HIDE DEF m
  <2> QED  BY <1>1, <2>4, <2>5, <2>6
<1> QED  BY <1>3, <1>4

LEMMA HostKeeps ==
    ASSUME ExecConstants, RunInv, TableKept, Host
    PROVE  RunInv'
<1>1. CASE HostExits
  <2>1. /\ phase' = "exit"
        /\ UNCHANGED <<args, calling, acts, stack, sp, frame, locals, heap, result,
                       astray>>
    BY <1>1 DEF HostExits
  <2> QED  BY <2>1, RunStops DEF Phases
<1>2. CASE HostRuns \/ HostFails
  <2>1. /\ EnteringHost /\ calling' = 0 /\ phase' \in {"run", "fail"}
        /\ UNCHANGED <<args, acts, frame, heap, locals, result, astray>>
    BY <1>2 DEF HostRuns, HostFails, EnteringHost
  <2>2. /\ GoodArgs \in Nat /\ GoodArgs <= sp /\ StackTyped /\ TypeOK /\ ActsNest
        /\ sp \in Nat /\ StackMax \in Nat
    BY <2>1, GoodArgsBound DEF RunInv, TypeOK, StackTyped, ExecConstants
  <2>3. StackTyped'
    <3>1. CASE \E k \in {0, GoodArgs, GoodArgs + 1} : k <= sp /\ Pop(k)
      <4>1. PICK k \in {0, GoodArgs, GoodArgs + 1} : k <= sp /\ Pop(k)
        BY <3>1
      <4>2. k \in Nat
        BY <2>2
      <4> QED  BY <2>2, <4>1, <4>2, PopTyped
    <3>2. CASE HostRuns /\ F(calling).nres = 1
      <4>1. PICK r \in HostVals : Push(GoodArgs, I32(r))
        BY <3>2 DEF HostRuns
      <4>2. I32(r) \in StackCell
        BY DEF I32, StackCell, CellTypes, ExecConstants
      <4>3. sp - GoodArgs < StackMax
        BY <3>2 DEF HostRuns
      <4> QED  BY <2>2, <4>1, <4>2, <4>3, PushTyped
    <3>3. CASE HostRuns /\ F(calling).nres # 1
      <4>1. Pop(GoodArgs)
        BY <3>3 DEF HostRuns
      <4> QED  BY <2>2, <4>1, PopTyped
    <3>4. CASE HostFails
      <4>1. \/ GoodArgs < sp /\ Pop(GoodArgs + 1)
            \/ Pop(GoodArgs)
            \/ Pop(0)
        BY <3>4 DEF HostFails
      <4>2. GoodArgs < sp => GoodArgs + 1 <= sp
        BY <2>2
      <4>3. 0 <= sp
        BY <2>2
      <4> QED  BY <2>2, <3>1, <4>1, <4>2, <4>3
    <3> QED  BY <1>2, <3>2, <3>3, <3>4
  <2>4. SavesKept /\ acts' \in Seq(Activation)
    BY <2>1, <2>2 DEF SavesKept, ActsNest, FuncActs, TypeOK
  <2>5. /\ phase' \in Phases \ {"bad_free"} /\ phase' # "ok"
        /\ calling' \in Funcs \cup {0} /\ result' \in Nat \cup {-1}
        /\ heap' \in HeapSet /\ Len(heap') = Len(heap) /\ Live' = Live
    BY <2>1, <2>2 DEF TypeOK, HeapSet, HeapBlock, Live, Phases
  <2> QED  BY <2>1, <2>3, <2>4, <2>5, HandlerKeeps
<1> QED  BY <1>1, <1>2 DEF Host

-----------------------------------------------------------------------------
(***************************************************************************)
(* Functions are entered                                                   *)
(***************************************************************************)
\* The activation that is entered, its frame and the cursors' type.
LEMMA ActivationTyped ==
    ASSUME ExecConstants, RunInv, TableKept, Entering, NEW loc, Activate(loc),
           heap' \in HeapSet, Len(heap) <= Len(heap'), loc \in Pointer',
           astray' \in BOOLEAN
    PROVE  /\ TypeOK' /\ ActsNest' /\ TableReady' /\ NoBadFree'
           /\ acts \in Seq(Activation) /\ acts' \in Seq(Activation')
           /\ Len(acts) \in Nat /\ Len(acts') = Len(acts) + 1
           /\ \A i \in 1..Len(acts) : acts'[i] = acts[i]
           /\ acts'[Len(acts) + 1].save = locals
           /\ acts'[Len(acts) + 1].kind = "func"
           /\ FuncActs' = FuncActs \cup {Len(acts) + 1}
           /\ FuncActs = {i \in 1..Len(acts) : acts[i].kind = "func"}
<1> DEFINE a == [kind |-> "func", fn |-> calling,
                 pos |-> F(calling).first, last |-> F(calling).last,
                 save |-> locals, resume |-> 0, base |-> sp]
<1>1. /\ acts' = Append(acts, a) /\ locals' = loc /\ calling' = 0
      /\ frame' = [end |-> F(calling).last, depth |-> sp % DepthMod]
      /\ UNCHANGED <<phase, args, stack, sp, result>>
      /\ phase = "run" /\ calling # 0
  BY DEF Activate, Entering
<1>2. /\ TypeOK /\ ActsNest /\ TableReady /\ heap \in HeapSet /\ prog' = prog
      /\ acts \in Seq(Activation)
  BY DEF RunInv, TypeOK, TableKept, HeapSet, HeapBlock
<1>3. /\ Pointer \subseteq Pointer' /\ Addr' = Addr /\ Funcs' = Funcs
      /\ Cursor' = Cursor /\ Addr \subseteq Cursor
      /\ Activation \subseteq Activation' /\ acts \in Seq(Activation')
  BY <1>2, PointersStay, AddrCursor
<1>4. /\ calling \in Funcs /\ F(calling).first \in Addr /\ F(calling).last \in Addr
      /\ F(calling).last # 0
  <2>1. calling \in Funcs /\ Len(prog.code) \in Nat
    BY <1>1, CalleeTyped, LenProperties DEF RunInv, TableReady, IsProgram
  <2>2. /\ F(calling).first \in 1..(Len(prog.code) + 1)
        /\ F(calling).last \in F(calling).first..(Len(prog.code) + 1)
    BY <1>2, <2>1 DEF TableReady, IsProgram, F, Funcs
  <2> QED  BY <2>1, <2>2 DEF Addr
<1>5. locals \in Pointer /\ sp \in 0..StackMax /\ locals \in Pointer'
  BY <1>2, <1>3 DEF TypeOK
<1>6. a \in Activation'
  BY <1>3, <1>4, <1>5 DEF Activation
<1>7. a.kind = "func" /\ a.save = locals
  OBVIOUS
<1> HIDE DEF a
<1>8. /\ acts' \in Seq(Activation') /\ Len(acts') = Len(acts) + 1 /\ acts' # << >>
      /\ \A i \in 1..Len(acts) : acts'[i] = acts[i]
      /\ acts'[Len(acts) + 1] = a
  BY <1>1, <1>3, <1>6, AppendProperties
<1>9. Len(acts) \in Nat /\ DOMAIN acts = 1..Len(acts) /\ DOMAIN acts' = 1..(Len(acts) + 1)
  BY <1>2, <1>8, LenProperties
<1>10. sp % DepthMod \in 0..(DepthMod - 1)
  BY <1>5 DEF ExecConstants
<1>11. frame' \in [end : Addr \cup {0}, depth : 0..(DepthMod - 1)] /\ frame'.end # 0
  BY <1>1, <1>4, <1>10
<1>12. TypeOK'
  BY <1>1, <1>2, <1>3, <1>8, <1>11 DEF TypeOK, HeapSet, HeapBlock
<1>13. \A i \in 1..(Len(acts) + 1) : i \in 1..Len(acts) \/ i = Len(acts) + 1
  BY <1>9
<1>14. ActsNest'
  <2>1. acts'[1].kind = "func"
    <3>1. CASE acts = << >>
      BY <1>7, <1>8, <3>1, EmptySeq
    <3>2. CASE acts # << >>
      <4>1. 1 \in 1..Len(acts) /\ acts[1].kind = "func"
        BY <1>2, <1>9, <3>2, EmptySeq DEF ActsNest
      <4> QED  BY <1>8, <4>1
    <3> QED  BY <3>1, <3>2
  <2>2. \A i \in 1..Len(acts') : acts'[i].kind = "if" => acts'[i].resume # 0
    BY <1>2, <1>7, <1>8, <1>13 DEF ActsNest
  <2> QED  BY <1>1, <1>11, <2>1, <2>2 DEF ActsNest
<1>15. TableReady'
  BY <1>2, TableReadyStays
<1>16. NoBadFree'
  BY <1>1 DEF NoBadFree
<1>17. FuncActs' = {i \in 1..(Len(acts) + 1) : acts'[i].kind = "func"}
       /\ FuncActs = {i \in 1..Len(acts) : acts[i].kind = "func"}
  BY <1>9 DEF FuncActs
<1>18. FuncActs' = FuncActs \cup {Len(acts) + 1}
  <2>1. Len(acts) + 1 \in 1..(Len(acts) + 1) /\ 1..Len(acts) \subseteq 1..(Len(acts) + 1)
    BY <1>9
  <2> QED  BY <1>7, <1>8, <1>13, <1>17, <2>1
<1> QED
  BY <1>2, <1>7, <1>8, <1>9, <1>12, <1>14, <1>15, <1>16, <1>17, <1>18

\* What the locals of a function are when it is entered.
LEMMA LocalsOfTyped ==
    ASSUME ExecConstants, RunInv, Entering, sp >= F(calling).nparam
    PROVE  LocalsOf(calling) \in Seq(Nat)
<1>1. /\ F(calling).nparam \in Nat /\ F(calling).nlocal \in Nat
      /\ StackTyped /\ sp \in Nat /\ sp <= StackMax /\ StackMax \in Nat
  BY CalleeTyped DEF Entering, Func, RunInv, TypeOK, StackTyped, ExecConstants
<1>2. Slots(calling) \in Nat
  BY <1>1 DEF Slots
<1> DEFINE v(i) == IF i <= F(calling).nparam
                   THEN stack[sp - F(calling).nparam + i - 1].v ELSE 0
<1>3. ASSUME NEW i \in 1..Slots(calling) PROVE v(i) \in Nat
  <2>1. CASE i <= F(calling).nparam
    <3>1. sp - F(calling).nparam + i - 1 \in 0..(StackMax - 1)
      BY <1>1, <2>1
    <3>2. stack[sp - F(calling).nparam + i - 1] \in StackCell
      BY <1>1, <3>1 DEF StackTyped
    <3> QED  BY <2>1, <3>2 DEF StackCell
  <2> QED  BY <2>1
<1>4. LocalsOf(calling) = [i \in 1..Slots(calling) |-> v(i)]
  BY DEF LocalsOf
<1> HIDE DEF v
<1>5. [i \in 1..Slots(calling) |-> v(i)] \in Seq(Nat)
  BY <1>2, <1>3, IsASeq
<1> QED  BY <1>4, <1>5

LEMMA EnterKeeps ==
    ASSUME ExecConstants, RunInv, TableKept, Enter
    PROVE  RunInv'
<1> DEFINE o == [vals |-> LocalsOf(calling), live |-> TRUE]
<1>1. /\ Entering /\ sp >= F(calling).nparam /\ astray' = astray
      /\ heap' = Append(heap, o) /\ Activate(Len(heap) + 1)
  BY DEF Enter
<1>2. o \in HeapBlock /\ o.live = TRUE
  BY <1>1, LocalsOfTyped DEF HeapBlock
<1>3. heap \in HeapSet /\ Len(heap) \in Nat /\ DOMAIN heap = 1..Len(heap)
      /\ TypeOK /\ LocalsOwned /\ OuterLocals /\ locals \in Pointer
  BY LenProperties DEF RunInv, TypeOK, HeapSet, HeapBlock
<1> HIDE DEF o
<1>4. /\ heap' \in HeapSet /\ Len(heap') = Len(heap) + 1
      /\ \A i \in 1..Len(heap) : heap'[i] = heap[i]
      /\ heap'[Len(heap) + 1] = o
      /\ DOMAIN heap' = 1..(Len(heap) + 1)
  BY <1>1, <1>2, <1>3, AppendProperties, LenProperties DEF HeapSet
<1>5. Len(heap) + 1 \in Pointer' /\ astray' \in BOOLEAN /\ Len(heap) <= Len(heap')
  BY <1>1, <1>3, <1>4 DEF Pointer, TypeOK
<1>6. /\ TypeOK' /\ ActsNest' /\ TableReady' /\ NoBadFree'
      /\ acts \in Seq(Activation) /\ acts' \in Seq(Activation')
      /\ Len(acts) \in Nat /\ Len(acts') = Len(acts) + 1
      /\ \A i \in 1..Len(acts) : acts'[i] = acts[i]
      /\ acts'[Len(acts) + 1].save = locals
      /\ FuncActs' = FuncActs \cup {Len(acts) + 1}
      /\ FuncActs = {i \in 1..Len(acts) : acts[i].kind = "func"}
  BY <1>1, <1>4, <1>5, ActivationTyped
<1>7. Live' = Live \cup {Len(heap) + 1}
  <2>1. \A i \in 1..(Len(heap) + 1) : i \in 1..Len(heap) \/ i = Len(heap) + 1
    BY <1>3
  <2>2. Len(heap) + 1 \in 1..(Len(heap) + 1) /\ 1..Len(heap) \subseteq 1..(Len(heap) + 1)
    BY <1>3
  <2> QED  BY <1>2, <1>3, <1>4, <2>1, <2>2 DEF Live
<1>8. locals' = Len(heap) + 1
  BY <1>1 DEF Activate
<1>9. \A p \in Pointer : p # Len(heap) + 1
  BY <1>3 DEF Pointer, Null, Wild
<1>10. \A i \in FuncActs : acts[i].save \in Pointer /\ i \in 1..Len(acts) /\ i # Len(acts) + 1
  <2>1. \A i \in FuncActs : acts[i] \in Activation
    BY <1>6, ElementOfSeq
  <2> QED  BY <1>6, <2>1 DEF Activation
<1>11. \A i \in FuncActs : acts'[i].save = acts[i].save
  BY <1>6, <1>10
<1>12. LocalsOwned'
  <2> SUFFICES ASSUME ~astray
               PROVE  /\ Live' = ({locals'} \cup {acts'[i].save : i \in FuncActs'}) \ {Null}
                      /\ \A i \in FuncActs' : acts'[i].save # locals'
                      /\ \A i, j \in FuncActs' : acts'[i].save = acts'[j].save => i = j
    BY <1>1 DEF LocalsOwned
  <2>1. /\ Live = ({locals} \cup {acts[i].save : i \in FuncActs}) \ {Null}
        /\ \A i \in FuncActs : acts[i].save # locals
        /\ \A i, j \in FuncActs : acts[i].save = acts[j].save => i = j
    BY <1>3 DEF LocalsOwned
  <2>2. {acts'[i].save : i \in FuncActs'} = {acts[i].save : i \in FuncActs} \cup {locals}
    BY <1>6, <1>11
  <2>3. Len(heap) + 1 # Null
    BY <1>3 DEF Null
  <2>4. Live' = ({locals'} \cup {acts'[i].save : i \in FuncActs'}) \ {Null}
    BY <1>7, <1>8, <2>1, <2>2, <2>3
  <2>5. \A i \in FuncActs' : acts'[i].save \in Pointer
    BY <1>3, <1>6, <1>10, <1>11
  <2>6. \A i \in FuncActs' : acts'[i].save # locals'
    BY <1>8, <1>9, <2>5
  <2>7. \A i, j \in FuncActs' : acts'[i].save = acts'[j].save => i = j
    BY <1>6, <1>11, <2>1
  <2> QED  BY <2>4, <2>6, <2>7
<1>13. OuterLocals'
  <2> SUFFICES ASSUME ~astray PROVE acts' # << >> /\ acts'[1].save = Null
    BY <1>1 DEF OuterLocals
  <2>1. CASE acts = << >>
    <3>1. Len(acts) = 0 /\ locals = Null
      BY <1>3, <2>1, EmptySeq DEF OuterLocals
    <3> QED  BY <1>6, <3>1, EmptySeq
  <2>2. CASE acts # << >>
    <3>1. acts[1].save = Null /\ 1 \in 1..Len(acts)
      BY <1>3, <1>6, <2>2, EmptySeq DEF OuterLocals
    <3> QED  BY <1>6, <3>1, EmptySeq
  <2> QED  BY <2>1, <2>2
<1> QED  BY <1>6, <1>12, <1>13 DEF RunInv

\* The uninitialised `locals', and the err label behind calloc.
LEMMA StrayEntryKeeps ==
    ASSUME ExecConstants, RunInv, TableKept, EnterNullary \/ EnterFails
    PROVE  RunInv'
<1>1. TypeOK /\ heap \in HeapSet /\ Len(heap) \in Nat /\ Entering
  BY LenProperties DEF RunInv, TypeOK, HeapSet, HeapBlock, EnterNullary, EnterFails
<1>2. astray' = TRUE
  BY DEF EnterNullary, EnterFails
<1>3. LocalsOwned' /\ OuterLocals' /\ NoBadFree'
  BY <1>2 DEF LocalsOwned, OuterLocals, NoBadFree
<1>4. CASE EnterNullary
  <2>1. PICK loc \in Garbage : Activate(loc)
    BY <1>4 DEF EnterNullary
  <2>2. heap' = heap
    BY <1>4 DEF EnterNullary
  <2>3. /\ loc \in Pointer' /\ heap' \in HeapSet /\ Len(heap) <= Len(heap')
        /\ astray' \in BOOLEAN
    BY <1>1, <1>2, <2>1, <2>2 DEF Garbage, Pointer
  <2>4. TypeOK' /\ ActsNest' /\ TableReady'
    BY <1>1, <2>1, <2>3, ActivationTyped
  <2> QED  BY <1>3, <2>4 DEF RunInv
<1>5. CASE EnterFails
  <2>1. UNCHANGED <<args, acts, stack, sp, frame, locals, result>>
    BY <1>5 DEF EnterFails
  <2>2. PICK save \in Garbage :
          \/ /\ save = Null
             /\ calling' = 0
             /\ UNCHANGED <<phase, heap>>
          \/ /\ save \in DOMAIN heap /\ heap[save].live
             /\ calling' = 0
             /\ heap' = [heap EXCEPT ![save].live = FALSE]
             /\ UNCHANGED phase
          \/ /\ save = Wild \/ (save \in DOMAIN heap /\ ~heap[save].live)
             /\ phase' = "bad_free"
             /\ UNCHANGED <<calling, heap>>
    BY <1>5 DEF EnterFails
  <2>3. heap' \in HeapSet /\ Len(heap') = Len(heap)
    <3>1. CASE heap' = heap
      BY <1>1, <3>1
    <3>2. CASE /\ save \in DOMAIN heap
               /\ heap' = [heap EXCEPT ![save].live = FALSE]
      <4> DEFINE o == [heap[save] EXCEPT !.live = FALSE]
      <4>1. save \in 1..Len(heap)
        BY <1>1, <3>2, LenProperties DEF HeapSet
      <4>2. o \in HeapBlock
        BY <1>1, <3>2, BlockTyped DEF HeapBlock
      <4>3. heap' = [heap EXCEPT ![save] = o]
        BY <3>2
      <4> HIDE DEF o
      <4> QED  BY <1>1, <4>1, <4>2, <4>3, ExceptSeq DEF HeapSet
    <3> QED  BY <2>2, <3>1, <3>2
  <2>4. phase' \in Phases /\ calling' \in Funcs \cup {0} /\ phase' # "ok"
    BY <1>1, <2>2 DEF TypeOK, Phases, Entering
  <2>5. prog' = prog
    BY DEF TableKept
  <2>6. /\ Pointer \subseteq Pointer' /\ Addr' = Addr /\ Funcs' = Funcs
        /\ acts \in Seq(Activation')
    BY <1>1, <2>3, <2>5, PointersStay DEF TypeOK
  <2>7. TypeOK'
    BY <1>1, <1>2, <2>1, <2>3, <2>4, <2>6 DEF TypeOK, HeapSet, HeapBlock
  <2>8. ActsNest'
    BY <2>1, <2>4 DEF RunInv, ActsNest
  <2>9. TableReady'
    BY TableReadyStays DEF RunInv
  <2> QED  BY <1>3, <2>7, <2>8, <2>9 DEF RunInv
<1> QED  BY <1>4, <1>5

-----------------------------------------------------------------------------
(***************************************************************************)
(* Functions are left                                                      *)
(***************************************************************************)
LEMMA Freed ==
    ASSUME heap \in HeapSet, NEW ptrs,
           heap' = [i \in DOMAIN heap |->
                       [heap[i] EXCEPT !.live = @ /\ \A j \in DOMAIN ptrs : ptrs[j] # i]]
    PROVE  /\ heap' \in HeapSet /\ Len(heap') = Len(heap)
           /\ Live' = Live \ {ptrs[j] : j \in DOMAIN ptrs}
<1>1. DOMAIN heap = 1..Len(heap) /\ Len(heap) \in Nat
  BY LenProperties DEF HeapSet
<1> DEFINE keep(i) == heap[i].live /\ \A j \in DOMAIN ptrs : ptrs[j] # i
           o(i) == [heap[i] EXCEPT !.live = keep(i)]
<1>2. \A i \in DOMAIN heap : o(i) \in HeapBlock /\ (o(i).live <=> keep(i))
  <2> SUFFICES ASSUME NEW i \in DOMAIN heap
               PROVE  o(i) \in HeapBlock /\ (o(i).live <=> keep(i))
    OBVIOUS
  <2>1. heap[i] \in [vals : Seq(Nat), live : BOOLEAN]
    BY BlockTyped DEF HeapBlock
  <2>2. keep(i) \in BOOLEAN
    OBVIOUS
  <2> HIDE DEF keep
  <2> QED  BY <2>1, <2>2 DEF HeapBlock
<1>3. heap' = [i \in 1..Len(heap) |-> o(i)]
  BY <1>1
<1>4. heap' \in Seq(HeapBlock)
  <2> HIDE DEF o, keep
  <2> QED  BY <1>1, <1>2, <1>3, IsASeq
<1>5. DOMAIN heap' = 1..Len(heap)
  BY <1>3
<1>6. Len(heap') = Len(heap)
  BY <1>1, <1>4, <1>5, LenProperties
<1>7. \A i \in 1..Len(heap) : heap'[i].live <=> keep(i)
  <2>1. \A i \in 1..Len(heap) : heap'[i] = o(i)
    <3> HIDE DEF o, keep
    <3> QED  BY <1>3
  <2> HIDE DEF o, keep
  <2> QED  BY <1>1, <1>2, <2>1
<1>8. Live' = {i \in 1..Len(heap) : heap'[i].live}
  BY <1>5 DEF Live
<1>9. Live' = {i \in 1..Len(heap) : keep(i)}
  <2> HIDE DEF keep
  <2> QED  BY <1>7, <1>8
<1>10. Live' = Live \ {ptrs[j] : j \in DOMAIN ptrs}
  BY <1>1, <1>9 DEF Live
<1> QED  BY <1>4, <1>6, <1>10 DEF HeapSet

\* An activation of a function is left with ctx->locals as given.
LEMMA LeaveTyped ==
    ASSUME RunInv, TableKept, phase = "run", acts # << >>, Top.kind = "func",
           NEW ptrs, NEW loc \in Pointer, NEW err \in BOOLEAN, Leave(ptrs, loc, err),
           Freeable(ptrs), UNCHANGED <<args, calling, stack, sp, frame, result>>
    PROVE  /\ TypeOK' /\ ActsNest' /\ TableReady' /\ NoBadFree'
           /\ Live' = Live \ {ptrs[j] : j \in DOMAIN ptrs}
           /\ locals' = loc /\ astray' = (astray \/ err)
           /\ Len(acts) \in Nat \ {0} /\ Len(acts') = Len(acts) - 1
           /\ Top = acts[Len(acts)] /\ Len(acts) \in FuncActs
           /\ FuncActs \subseteq 1..Len(acts)
           /\ \A i \in 1..(Len(acts) - 1) : acts'[i] = acts[i]
           /\ FuncActs' = FuncActs \ {Len(acts)}
           /\ acts' = << >> <=> Len(acts) = 1
<1>1. /\ heap' = [i \in DOMAIN heap |->
                     [heap[i] EXCEPT !.live = @ /\ \A j \in DOMAIN ptrs : ptrs[j] # i]]
      /\ locals' = loc /\ acts' = Front(acts) /\ astray' = (astray \/ err)
      /\ phase' = phase
  BY DEF Leave
<1>2. /\ TypeOK /\ ActsNest /\ heap \in HeapSet /\ Len(heap) \in Nat /\ prog' = prog
  BY LenProperties DEF RunInv, TypeOK, TableKept, HeapSet, HeapBlock
<1>3. /\ Len(acts) \in Nat \ {0} /\ acts \in Seq(Activation)
      /\ Top = acts[Len(acts)]
      /\ FuncActs = {i \in 1..Len(acts) : acts[i].kind = "func"}
  BY TopTyped
<1>4. /\ heap' \in HeapSet /\ Len(heap') = Len(heap)
      /\ Live' = Live \ {ptrs[j] : j \in DOMAIN ptrs}
  BY <1>1, <1>2, Freed
<1>5. /\ acts' \in Seq(Activation) /\ Len(acts') = Len(acts) - 1
      /\ \A i \in 1..(Len(acts) - 1) : acts'[i] = acts[i]
  BY <1>1, <1>3, FrontSeq
<1>6. /\ Pointer \subseteq Pointer' /\ Addr' = Addr /\ Funcs' = Funcs
      /\ acts' \in Seq(Activation')
  BY <1>2, <1>4, <1>5, PointersStay
<1>7. TypeOK'
  <2>1. astray' \in BOOLEAN
    BY <1>1, <1>2 DEF TypeOK
  <2> QED  BY <1>1, <1>2, <1>4, <1>6, <2>1 DEF TypeOK, HeapSet, HeapBlock
<1>8. acts' = << >> <=> Len(acts) = 1
  BY <1>3, <1>5, EmptySeq
<1>9. \A i \in 1..(Len(acts) - 1) : i \in 1..Len(acts) /\ i # Len(acts)
  BY <1>3
<1>10. \A i \in 1..Len(acts) : i \in 1..(Len(acts) - 1) \/ i = Len(acts)
  BY <1>3
<1>11. Len(acts) \in FuncActs /\ FuncActs \subseteq 1..Len(acts)
  BY <1>3
<1>12. FuncActs' = FuncActs \ {Len(acts)}
  <2>1. FuncActs' = {i \in 1..(Len(acts) - 1) : acts'[i].kind = "func"}
    BY <1>5, LenProperties DEF FuncActs
  <2> QED  BY <1>3, <1>5, <1>9, <1>10, <2>1
<1>13. ActsNest'
  <2>1. acts' # << >> => acts'[1].kind = "func"
    <3> SUFFICES ASSUME Len(acts) # 1 PROVE acts'[1].kind = "func"
      BY <1>8
    <3>1. \A n \in Nat \ {0} : n # 1 => 1 \in 1..(n - 1)
      OBVIOUS
    <3>2. 1 \in 1..(Len(acts) - 1)
      BY <1>3, <3>1
    <3> QED  BY <1>2, <1>5, <3>2 DEF ActsNest
  <2>2. \A i \in 1..Len(acts') : acts'[i].kind = "if" => acts'[i].resume # 0
    BY <1>2, <1>5, <1>9 DEF ActsNest
  <2> QED  BY <1>1, <1>2, <2>1, <2>2 DEF ActsNest
<1>14. TableReady'
  BY TableReadyStays DEF RunInv
<1>15. NoBadFree'
  BY <1>1 DEF NoBadFree
<1> QED
  BY <1>1, <1>3, <1>4, <1>5, <1>7, <1>8, <1>11, <1>12, <1>13, <1>14, <1>15

(* ctx->locals and the saved pointer of a running function are different   *)
(* blocks, allocated both of them, unless they are NULL.                   *)
LEMMA OwnedApart ==
    ASSUME RunInv, ~astray, acts # << >>, Top.kind = "func"
    PROVE  /\ locals # Top.save
           /\ \A p \in {locals, Top.save} :
                 p # Null => p \in DOMAIN heap /\ heap[p].live
<1>1. /\ Top = acts[Len(acts)] /\ Len(acts) \in Nat \ {0}
      /\ FuncActs = {i \in 1..Len(acts) : acts[i].kind = "func"}
  BY TopTyped
<1>2. Len(acts) \in FuncActs
  BY <1>1
<1>3. /\ Live = ({locals} \cup {acts[i].save : i \in FuncActs}) \ {Null}
      /\ \A i \in FuncActs : acts[i].save # locals
  BY DEF RunInv, LocalsOwned
<1>4. \A p \in {locals, Top.save} : p # Null => p \in Live
  BY <1>1, <1>2, <1>3
<1> QED  BY <1>1, <1>2, <1>3, <1>4 DEF Live

\* Nothing is freed that is not: the run is not the one that ends so.
LEMMA LeaveFails ==
    ASSUME RunInv, TableKept, astray, NEW ptrs, NEW loc, NEW err, Leave(ptrs, loc, err),
           ~Freeable(ptrs), UNCHANGED <<args, calling, stack, sp, frame, result>>
    PROVE  RunInv'
<1>1. /\ phase' = "bad_free"
      /\ UNCHANGED <<heap, locals, acts, astray>>
  BY DEF Leave
<1>2. TypeOK /\ ActsNest /\ TableReady /\ prog' = prog
  BY DEF RunInv, TableKept
<1>3. TypeOK'
  BY <1>1, <1>2 DEF TypeOK, Phases, Funcs, Activation, Addr, Cursor, Pointer
<1>4. ActsNest'
  BY <1>1, <1>2 DEF ActsNest
<1>5. TableReady'
  BY <1>2, TableReadyStays
<1>6. LocalsOwned' /\ OuterLocals' /\ NoBadFree'
  BY <1>1 DEF LocalsOwned, OuterLocals, NoBadFree
<1> QED  BY <1>3, <1>4, <1>5, <1>6 DEF RunInv

\* The function is at its end: its block goes, its caller's comes back.
LEMMA CleanEnd ==
    ASSUME RunInv, TableKept, phase = "run", acts # << >>, Top.kind = "func", ~astray,
           Leave(<< locals >>, Top.save, FALSE),
           UNCHANGED <<args, calling, stack, sp, frame, result>>
    PROVE  RunInv'
<1> DEFINE k == Len(acts)
<1>1. Freeable(<< locals >>)
  BY OwnedApart DEF Freeable
<1>2. Top.save \in Pointer
  BY TopTyped DEF Activation
<1>3. /\ TypeOK' /\ ActsNest' /\ TableReady' /\ NoBadFree'
      /\ Live' = Live \ {<< locals >>[j] : j \in DOMAIN << locals >>}
      /\ locals' = Top.save /\ astray' = (astray \/ FALSE)
      /\ k \in Nat \ {0} /\ Len(acts') = k - 1
      /\ Top = acts[k] /\ k \in FuncActs /\ FuncActs \subseteq 1..k
      /\ \A i \in 1..(k - 1) : acts'[i] = acts[i]
      /\ FuncActs' = FuncActs \ {k}
      /\ acts' = << >> <=> k = 1
  BY <1>1, <1>2, LeaveTyped
<1>4. Live' = Live \ {locals}
  BY <1>3
<1>5. /\ Live = ({locals} \cup {acts[i].save : i \in FuncActs}) \ {Null}
      /\ \A i \in FuncActs : acts[i].save # locals
      /\ \A i, j \in FuncActs : acts[i].save = acts[j].save => i = j
  BY DEF RunInv, LocalsOwned
<1>6. \A i \in FuncActs' : i \in 1..(k - 1)
  <2>1. \A i \in 1..k : i # k => i \in 1..(k - 1)
    BY <1>3
  <2> QED  BY <1>3, <2>1
<1>7. \A i \in FuncActs' : acts'[i].save = acts[i].save /\ i \in FuncActs /\ i # k
  BY <1>3, <1>6
<1> HIDE DEF k
<1>8. LocalsOwned'
  <2>1. {acts'[i].save : i \in FuncActs'} = {acts[i].save : i \in FuncActs \ {k}}
    BY <1>3, <1>7
  <2>2. {acts[i].save : i \in FuncActs}
          = {acts[i].save : i \in FuncActs \ {k}} \cup {Top.save}
    BY <1>3
  <2>3. Live' = ({locals'} \cup {acts'[i].save : i \in FuncActs'}) \ {Null}
    <3>1. locals \notin {acts[i].save : i \in FuncActs}
      BY <1>5
    <3> QED  BY <1>3, <1>4, <1>5, <2>1, <2>2, <3>1
  <2>4. \A i \in FuncActs' : acts'[i].save # locals'
    BY <1>3, <1>5, <1>7
  <2>5. \A i, j \in FuncActs' : acts'[i].save = acts'[j].save => i = j
    BY <1>5, <1>7
  <2> QED  BY <2>3, <2>4, <2>5 DEF LocalsOwned
<1>9. OuterLocals'
  <2>1. acts[1].save = Null
    BY DEF RunInv, OuterLocals
  <2>2. CASE k = 1
    BY <1>3, <2>1, <2>2 DEF OuterLocals
  <2>3. CASE k # 1
    <3>1. 1 \in 1..(k - 1)
      BY <1>3, <2>3
    <3> QED  BY <1>3, <2>1, <2>3, <3>1 DEF OuterLocals
  <2> QED  BY <2>2, <2>3
<1> QED  BY <1>3, <1>8, <1>9 DEF RunInv

LEMMA StrayEnd ==
    ASSUME RunInv, TableKept, phase = "run", acts # << >>, Top.kind = "func",
           NEW ptrs, NEW loc \in Pointer, NEW err \in BOOLEAN, Leave(ptrs, loc, err),
           astray \/ (err /\ Freeable(ptrs)),
           UNCHANGED <<args, calling, stack, sp, frame, result>>
    PROVE  RunInv'
<1>1. CASE Freeable(ptrs)
  <2>1. /\ TypeOK' /\ ActsNest' /\ TableReady' /\ NoBadFree'
        /\ astray' = (astray \/ err)
    BY <1>1, LeaveTyped
  <2>2. LocalsOwned' /\ OuterLocals'
    BY <2>1 DEF LocalsOwned, OuterLocals
  <2> QED  BY <2>1, <2>2 DEF RunInv
<1>2. CASE ~Freeable(ptrs)
  BY <1>2, LeaveFails
<1> QED  BY <1>1, <1>2

LEMMA EndKeeps ==
    ASSUME RunInv, TableKept, EndFunc \/ UnknownInFunc
    PROVE  RunInv'
<1>1. /\ phase = "run" /\ acts # << >> /\ Top.kind = "func"
      /\ UNCHANGED <<args, calling, stack, sp, frame, result>>
  BY DEF EndFunc, UnknownInFunc, Fetching
<1>2. Top.save \in Pointer /\ locals \in Pointer
  BY <1>1, TopTyped DEF Activation, RunInv, TypeOK
<1>3. CASE EndFunc /\ Top.pos = Top.last
  <2>1. Leave(<< locals >>, Top.save, FALSE)
    BY <1>3 DEF EndFunc
  <2>2. CASE astray
    BY <1>1, <1>2, <2>1, <2>2, StrayEnd
  <2>3. CASE ~astray
    BY <1>1, <2>1, <2>3, CleanEnd
  <2> QED  BY <2>2, <2>3
<1>4. CASE EndFunc /\ Top.pos # Top.last
  <2>1. Leave(<< locals, Top.save >>, Top.save, TRUE)
    BY <1>4 DEF EndFunc
  <2>2. ~astray => Freeable(<< locals, Top.save >>)
    <3> SUFFICES ASSUME ~astray PROVE Freeable(<< locals, Top.save >>)
      OBVIOUS
    <3>1. /\ locals # Top.save
          /\ locals # Null => locals \in DOMAIN heap /\ heap[locals].live
          /\ Top.save # Null => Top.save \in DOMAIN heap /\ heap[Top.save].live
      BY <1>1, OwnedApart
    <3> QED  BY <3>1 DEF Freeable
  <2> QED  BY <1>1, <1>2, <2>1, <2>2, StrayEnd
<1>5. CASE UnknownInFunc
  <2>1. Leave(<< Top.save >>, locals, TRUE)
    BY <1>5 DEF UnknownInFunc
  <2>2. ~astray => Freeable(<< Top.save >>)
    BY <1>1, OwnedApart DEF Freeable
  <2> QED  BY <1>1, <1>2, <2>1, <2>2, StrayEnd
<1> QED  BY <1>3, <1>4, <1>5

LEMMA FramesKeep ==
    ASSUME ExecConstants, RunInv, TableKept, Frames
    PROVE  RunInv'
<1>1. CASE EnterExits
  <2>1. /\ phase' \in {"exit", "crash"}
        /\ UNCHANGED <<args, calling, acts, stack, sp, frame, locals, heap, result,
                       astray>>
    BY <1>1 DEF EnterExits
  <2> QED  BY <2>1, RunStops DEF Phases
<1> QED  BY <1>1, EnterKeeps, StrayEntryKeeps, EndKeeps DEF Frames

-----------------------------------------------------------------------------
(***************************************************************************)
(* The whole run                                                           *)
(***************************************************************************)
\* The arguments become the bottom of the stack.
LEMMA StartKeeps ==
    ASSUME ExecConstants, RunInv, TableKept, Start
    PROVE  RunInv'
<1> DEFINE n == F(prog.main).nparam
<1>1. /\ UNCHANGED <<acts, frame, locals, heap, result, astray>>
      /\ phase = "idle"
  BY DEF Start
<1>2. /\ TypeOK /\ TableReady /\ ActsNest /\ LocalsOwned /\ OuterLocals /\ prog' = prog
  BY DEF RunInv, TableKept
<1>3. /\ prog.main \in Funcs /\ n \in Nat
  <2>1. prog.funcs \in Seq(Func) /\ prog.main \in 1..Len(prog.funcs)
    BY <1>2 DEF TableReady, IsProgram
  <2>2. F(prog.main) \in Func
    BY <2>1, ElementOfSeq DEF F
  <2> QED  BY <2>1, <2>2 DEF Func, Funcs
<1>4. args' \in Seq(ArgVals) /\ Len(args') \in Nat
  <2>1. PICK k \in 0..(n + 1) : args' \in [1..k -> ArgVals]
    BY DEF Start
  <2>2. k \in Nat
    BY <1>3, <2>1
  <2>3. args' \in Seq(ArgVals)
    BY <2>1, <2>2
  <2> QED  BY <2>3, LenProperties
<1>5. /\ phase' \in {"fail", "exit", "run"} /\ calling' \in {calling, prog.main}
      /\ \/ UNCHANGED <<stack, sp>>
         \/ /\ n <= StackMax /\ n <= Len(args')
            /\ stack' = [i \in 0..(StackMax - 1) |->
                            IF i < n THEN I32(args'[i + 1]) ELSE stack[i]]
            /\ sp' = n
  <2> HIDE DEF n
  <2>1. CASE Len(args') < n
    BY <2>1 DEF Start, n
  <2>2. CASE Len(args') >= n /\ n > StackMax
    <3>1. ~(Len(args') < n)
      BY <1>3, <1>4, <2>2
    <3> QED  BY <2>2, <3>1 DEF Start, n
  <2>3. CASE Len(args') >= n /\ ~(n > StackMax)
    <3>1. ~(Len(args') < n) /\ n <= StackMax /\ n <= Len(args')
      BY <1>3, <1>4, <2>3 DEF ExecConstants
    <3> QED  BY <2>3, <3>1 DEF Start, n
  <2>4. Len(args') < n \/ Len(args') >= n
    BY <1>3, <1>4
  <2> QED  BY <2>1, <2>2, <2>3, <2>4
<1>6. StackTyped'
  <2>1. StackTyped
    BY <1>2 DEF TypeOK, StackTyped
  <2>2. CASE UNCHANGED <<stack, sp>>
    BY <2>1, <2>2 DEF StackTyped
  <2>3. CASE /\ n <= StackMax /\ n <= Len(args')
             /\ stack' = [i \in 0..(StackMax - 1) |->
                             IF i < n THEN I32(args'[i + 1]) ELSE stack[i]]
             /\ sp' = n
    <3> HIDE DEF n
    <3>1. ASSUME NEW i \in 0..(StackMax - 1), i < n PROVE I32(args'[i + 1]) \in StackCell
      <4>1. i + 1 \in 1..Len(args')
        BY <1>3, <1>4, <2>3, <3>1 DEF ExecConstants
      <4>2. args'[i + 1] \in ArgVals
        BY <1>4, <4>1, ElementOfSeq
      <4> QED  BY <4>2 DEF I32, StackCell, CellTypes, ExecConstants
    <3>2. stack' \in [0..(StackMax - 1) -> StackCell]
      BY <2>1, <2>3, <3>1 DEF StackTyped
    <3>3. sp' \in 0..StackMax
      BY <1>3, <2>3 DEF ExecConstants
    <3> QED  BY <3>2, <3>3 DEF StackTyped
  <2> QED  BY <1>5, <2>2, <2>3
<1>7. calling' \in Funcs \cup {0}
  BY <1>2, <1>3, <1>5 DEF TypeOK
<1>8. TypeOK'
  <2> HIDE DEF n
  <2>1. phase' \in Phases
    BY <1>5 DEF Phases
  <2> QED
    BY <1>1, <1>2, <1>4, <1>6, <1>7, <2>1
       DEF TypeOK, StackTyped, Funcs, Activation, Addr, Cursor, Pointer
<1>9. ActsNest' /\ NoBadFree'
  BY <1>1, <1>2, <1>5 DEF ActsNest, NoBadFree
<1>10. LocalsOwned' /\ OuterLocals'
  BY <1>1, <1>2 DEF LocalsOwned, OuterLocals, FuncActs, Live
<1>11. TableReady'
  BY <1>2, TableReadyStays
<1> QED  BY <1>8, <1>9, <1>10, <1>11 DEF RunInv

LEMMA GetRetKeeps ==
    ASSUME ExecConstants, RunInv, TableKept, GetRet
    PROVE  RunInv'
<1>1. /\ phase' \in {"ok", "exit"} /\ acts = << >>
      /\ UNCHANGED <<args, calling, acts, stack, frame, locals, heap, astray>>
      /\ \/ UNCHANGED <<sp, result>>
         \/ sp # 0 /\ sp' = sp - 1 /\ result' = Cell(1).v
  BY DEF GetRet
<1>2. /\ TypeOK /\ ActsNest /\ StackTyped /\ sp \in Nat /\ sp <= StackMax
      /\ StackMax \in Nat
  BY DEF RunInv, TypeOK, StackTyped, ExecConstants
<1>3. StackTyped' /\ result' \in Nat \cup {-1}
  <2>1. CASE UNCHANGED <<sp, result>>
    BY <1>1, <1>2, <2>1 DEF StackTyped, TypeOK
  <2>2. CASE sp # 0 /\ sp' = sp - 1 /\ result' = Cell(1).v
    <3>1. 1 \in 1..sp
      BY <1>2, <2>2
    <3>2. Cell(1).v \in Nat
      BY <1>2, <3>1, CellTyped
    <3>3. sp' \in 0..StackMax
      BY <1>2, <2>2
    <3> QED  BY <1>1, <1>2, <2>2, <3>2, <3>3 DEF StackTyped
  <2> QED  BY <1>1, <2>1, <2>2
<1>4. SavesKept /\ acts' \in Seq(Activation)
  BY <1>1, <1>2 DEF SavesKept, ActsNest, FuncActs, TypeOK
<1>5. /\ phase' \in Phases \ {"bad_free"} /\ calling' \in Funcs \cup {0}
      /\ heap' \in HeapSet /\ Len(heap') = Len(heap) /\ Live' = Live
  BY <1>1, <1>2 DEF TypeOK, HeapSet, HeapBlock, Live, Phases
<1> QED  BY <1>1, <1>3, <1>4, <1>5, HandlerKeeps

\* RunInv is inductive.
LEMMA StepRunInv ==
    ASSUME ExecConstants, RunInv, TableKept, [Next]_evars
    PROVE  RunInv'
<1>1. CASE UNCHANGED evars
  <2>1. /\ prog' = prog /\ desc' = desc /\ blk' = blk
        /\ phase' = phase /\ args' = args /\ calling' = calling /\ acts' = acts
        /\ stack' = stack /\ sp' = sp /\ frame' = frame /\ locals' = locals
        /\ heap' = heap /\ result' = result /\ astray' = astray
    BY <1>1 DEF evars, TableKept
  <2>2. TypeOK'
    BY <2>1 DEF RunInv, TypeOK, Funcs, Activation, Addr, Cursor, Pointer
  <2>3. TableReady'
    BY TableReadyStays DEF RunInv
  <2>4. ActsNest' /\ OuterLocals' /\ NoBadFree'
    BY <2>1 DEF RunInv, ActsNest, OuterLocals, NoBadFree
  <2>5. LocalsOwned'
    BY <2>1 DEF RunInv, LocalsOwned, FuncActs, Live
  <2> QED  BY <2>2, <2>3, <2>4, <2>5 DEF RunInv
<1>2. CASE StackExits
  <2>1. /\ phase' = "exit"
        /\ UNCHANGED <<args, calling, acts, stack, sp, frame, locals, heap, result,
                       astray>>
    BY <1>2 DEF StackExits
  <2> QED  BY <2>1, RunStops DEF Phases
<1>3. CASE StartFails
  <2>1. /\ phase' = "fail"
        /\ UNCHANGED <<args, calling, acts, stack, sp, frame, locals, heap, result,
                       astray>>
    BY <1>3 DEF StartFails
  <2> QED  BY <2>1, RunStops DEF Phases
<1>4. CASE Outer
  BY <1>3, <1>4, StartKeeps, GetRetKeeps DEF Outer
<1> QED
  BY <1>1, <1>2, <1>4, ValueKeeps, LocalKeeps, ControlKeeps, HostKeeps, FramesKeep
     DEF Next

\* A program that has been loaded and whose table is ready may be run.
LEMMA InitRunInv ==
    ASSUME ExecConstants, TableReady, Init
    PROVE  RunInv
<1>1. /\ phase = "idle" /\ args = << >> /\ calling = 0 /\ acts = << >> /\ sp = 0
      /\ stack = [i \in 0..(StackMax - 1) |-> I32(0)]
      /\ frame = NoFrame /\ locals = Null /\ heap = << >> /\ result = -1
      /\ astray = FALSE
  BY DEF Init
<1>2. I32(0) \in StackCell
  BY DEF I32, StackCell, CellTypes
<1>3. /\ << >> \in Seq(ArgVals) /\ << >> \in Seq(Activation)
      /\ << >> \in Seq([vals : Seq(Nat), live : BOOLEAN])
      /\ Len(<< >>) = 0 /\ DOMAIN << >> = {}
  BY EmptySeq
<1>4. frame \in [end : Addr \cup {0}, depth : 0..(DepthMod - 1)]
  BY <1>1 DEF NoFrame, ExecConstants
<1>5. TypeOK
  BY <1>1, <1>2, <1>3, <1>4 DEF TypeOK, Phases, Pointer, ExecConstants
<1>6. ActsNest
  BY <1>1, <1>3 DEF ActsNest
<1>7. FuncActs = {} /\ Live = {}
  BY <1>1, <1>3 DEF FuncActs, Live
<1>8. LocalsOwned /\ OuterLocals /\ NoBadFree
  BY <1>1, <1>7 DEF LocalsOwned, OuterLocals, NoBadFree
<1> QED  BY <1>5, <1>6, <1>8 DEF RunInv

\* The outermost function frees its block and puts NULL back.
LEMMA NothingLeaks == RunInv => NoLocalsLeak
<1> SUFFICES ASSUME RunInv, phase = "ok", ~astray PROVE Live = {}
  BY DEF NoLocalsLeak
<1>1. acts = << >> /\ locals = Null
  BY DEF RunInv, ActsNest, OuterLocals
<1>2. FuncActs = {}
  BY <1>1, EmptySeq DEF FuncActs
<1> QED  BY <1>1, <1>2 DEF RunInv, LocalsOwned

(* The outermost function has saved NULL and no two save the same, hence   *)
(* whatever runs has locals, and so has every function it returns to.      *)
LEMMA LocalsAlive ==
    ASSUME RunInv, ~astray, acts # << >>
    PROVE  /\ locals \in Live
           /\ \A i \in FuncActs : acts[i].save # Null => acts[i].save \in Live
<1>1. /\ Live = ({locals} \cup {acts[i].save : i \in FuncActs}) \ {Null}
      /\ \A i \in FuncActs : acts[i].save # locals
  BY DEF RunInv, LocalsOwned
<1>2. acts[1].kind = "func" /\ acts[1].save = Null /\ acts \in Seq(Activation)
  BY DEF RunInv, ActsNest, OuterLocals, TypeOK
<1>3. 1 \in DOMAIN acts
  <2>1. Len(acts) \in Nat \ {0} /\ DOMAIN acts = 1..Len(acts)
    BY <1>2, EmptySeq, LenProperties
  <2> QED  BY <2>1
<1>4. locals # Null
  BY <1>1, <1>2, <1>3 DEF FuncActs
<1> QED  BY <1>1, <1>4

=============================================================================
