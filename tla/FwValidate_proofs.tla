------------------------- MODULE FwValidate_proofs --------------------------
(***************************************************************************)
(* The block table is right for every program: type correctness, nesting,  *)
(* and the uniqueness fw_instr_find_blk relies on, with or without         *)
(* allocation failures.                                                    *)
(*                                                                         *)
(* When every allocation succeeds, the pass also gives each block the      *)
(* `end' the format gives it, whatever the body, and an `else' of a        *)
(* structured body an `if': blktmp and iftmp count what the body has       *)
(* opened and not closed, and every `if' no `else' has followed.           *)
(***************************************************************************)
EXTENDS FwValidate, FwLemmas, FiniteSetTheorems

-----------------------------------------------------------------------------
(***************************************************************************)
(* The invariant step by step                                              *)
(***************************************************************************)
LEMMA InitTableInv == Init => TableInv
<1> SUFFICES ASSUME Init PROVE TableInv
  OBVIOUS
<1>1. IsProgram(prog)
  BY ProgramsAssumption DEF Init
<1>2. /\ Len(prog.funcs) \in Nat \ {0}
      /\ 1 \in Funcs
      /\ prog.funcs[1].first \in 1..(Len(prog.code) + 1)
      /\ prog.funcs[1].last \in prog.funcs[1].first..(Len(prog.code) + 1)
  BY <1>1 DEF IsProgram, Funcs
<1>3. TypeOK
  BY <1>1, <1>2 DEF Init, TypeOK, CursorInBody, Funcs, VPhases, IsProgram
<1> QED
  BY <1>3 DEF Init, TableInv, StartsOrdered, OpenBlocks, ClosedBlocks,
              ClosedBeforeOpen, BlocksNested, Listed, Ids, Funcs

\* The types, read off entry by entry.
LEMMA Typed ==
    ASSUME TypeOK
    PROVE  /\ Len(desc) \in Nat /\ Len(blktmp) \in Nat /\ Len(iftmp) \in Nat
           /\ cur \in Nat /\ pos \in Nat
           /\ prog.funcs[cur].first \in Nat /\ prog.funcs[cur].last \in Nat
           /\ prog.funcs[cur].first <= pos
           /\ \A i \in 1..Len(desc) :
                 /\ desc[i] \in Block
                 /\ desc[i].fn \in Nat /\ desc[i].open \in Nat
                 /\ desc[i].els \in Nat /\ desc[i].end \in Nat
                 /\ desc[i].start \in Nat
           /\ \A m \in 1..Len(blktmp) : blktmp[m] \in 1..Len(desc)
           /\ \A m \in 1..Len(iftmp) : iftmp[m] \in 1..Len(desc)
           /\ \A f \in Funcs :
                 /\ blk[f] \in Seq(1..Len(desc)) /\ Len(blk[f]) \in Nat
                 /\ \A m \in 1..Len(blk[f]) : blk[f][m] \in 1..Len(desc)
<1>1. /\ Len(desc) \in Nat /\ Len(blktmp) \in Nat /\ Len(iftmp) \in Nat
      /\ Len(prog.funcs) \in Nat
  BY LenProperties DEF TypeOK, IsProgram
<1>2. /\ prog.funcs[cur].first \in Nat /\ prog.funcs[cur].last \in Nat
      /\ cur \in Nat
  <2>1. cur \in 1..Len(prog.funcs) /\ prog.funcs \in Seq(Func)
    BY DEF TypeOK, IsProgram, Funcs
  <2>2. prog.funcs[cur] \in Func
    BY <2>1, ElementOfSeq
  <2>3. \A f \in Func : f.first \in Nat /\ f.last \in Nat
    BY DEF Func
  <2>4. cur \in Nat
    BY <1>1, <2>1
  <2> QED  BY <2>2, <2>3, <2>4
<1>3. \A i \in 1..Len(desc) : desc[i] \in Block
  BY ElementOfSeq DEF TypeOK
<1>4. \A i \in 1..Len(desc) : /\ desc[i].fn \in Nat /\ desc[i].open \in Nat
                               /\ desc[i].els \in Nat /\ desc[i].end \in Nat
                               /\ desc[i].start \in Nat
  BY <1>3 DEF Block
<1>5. /\ \A m \in 1..Len(blktmp) : blktmp[m] \in 1..Len(desc)
      /\ \A m \in 1..Len(iftmp) : iftmp[m] \in 1..Len(desc)
  BY ElementOfSeq DEF TypeOK
<1>6. ASSUME NEW f \in Funcs
      PROVE  /\ blk[f] \in Seq(1..Len(desc)) /\ Len(blk[f]) \in Nat
             /\ \A m \in 1..Len(blk[f]) : blk[f][m] \in 1..Len(desc)
  <2>1. blk[f] \in Seq(1..Len(desc))
    BY DEF TypeOK
  <2> QED  BY <2>1, LenProperties, ElementOfSeq
<1>7. pos \in prog.funcs[cur].first..(prog.funcs[cur].last + 1)
  BY DEF TypeOK, CursorInBody
<1> QED  BY <1>1, <1>2, <1>3, <1>4, <1>5, <1>6, <1>7

(* Where a handler leaves the cursor: behind the cell, or behind the body  *)
(* when the cell is cut, which then is the body's last.                    *)
LEMMA Forwards ==
    ASSUME TypeOK, prog' = prog, cur' = cur, pos < prog.funcs[cur].last,
           pos' = pos + 1 \/ Moved
    PROVE  /\ pos' \in Nat /\ pos + 1 <= pos' /\ CursorInBody'
           /\ Reached = pos /\ Reached' = pos + 1
<1>1. /\ prog.funcs[cur].first \in Nat /\ prog.funcs[cur].last \in Nat
      /\ pos \in Nat /\ prog.funcs[cur].first <= pos
  BY Typed
<1>4. Reached = pos
  BY <1>1 DEF Reached
<1>2. CASE pos' = pos + 1
  BY <1>1, <1>2, <1>4 DEF CursorInBody, Reached
<1>3. CASE Moved /\ prog.code[pos].imm = "cut"
  <2>1. pos' = prog.funcs[cur].last + 1
    BY <1>3 DEF Moved, Behind
  <2>2. pos \in prog.funcs[cur].first..(prog.funcs[cur].last - 1)
    BY <1>1
  <2>3. pos = prog.funcs[cur].last - 1
    BY <1>3, <2>2 DEF TypeOK, IsProgram, Funcs
  <2>4. prog.code[prog.funcs[cur].last - 1].imm = "cut"
    BY <1>3, <2>3
  <2> QED  BY <1>1, <1>4, <2>1, <2>3, <2>4 DEF CursorInBody, Reached
<1> QED  BY <1>2, <1>3 DEF Moved, Behind

LEMMA NewBlockType == ASSUME TypeOK PROVE NewBlock \in Block
<1>1. cur \in Nat /\ pos \in Nat /\ prog.funcs[cur].last \in Nat
  BY Typed
<1> DEFINE s == IF Imm = "refused" THEN 0 ELSE Behind(pos, prog.funcs[cur].last)
<1>2. s \in Nat
  BY <1>1 DEF Behind
<1> HIDE DEF s
<1>3. [fn |-> cur, open |-> pos + 1, start |-> s, els |-> 0, end |-> 0] \in Block
  BY <1>1, <1>2 DEF Block
<1> QED  BY <1>3 DEF s, NewBlock

\* A step that moves the cursor forward in the body and touches no list.
LEMMA CursorMoves ==
    ASSUME TableInv,
           UNCHANGED <<prog, desc, blk, cur, blktmp, iftmp>>,
           pos' \in Nat, pos <= pos', CursorInBody',
           vphase' \in VPhases
    PROVE  TableInv'
<1>1. /\ TypeOK /\ prog' = prog /\ desc' = desc /\ blk' = blk /\ cur' = cur
      /\ blktmp' = blktmp /\ iftmp' = iftmp
  BY DEF TableInv
<1>2. pos' \in Nat /\ pos <= pos'
  OBVIOUS
<1>3. TypeOK'
  BY <1>1 DEF TypeOK, Funcs
<1>4. /\ pos \in Nat /\ pos' \in Nat /\ pos <= pos'
      /\ \A i \in 1..Len(desc) : desc[i].open \in Nat /\ desc[i].end \in Nat
  BY <1>1, <1>2, Typed
<1>5. StartsOrdered'
  <2>1. StartsOrdered
    BY DEF TableInv
  <2>2. \A i \in Ids : desc[i].fn = cur => desc[i].open <= pos'
    <3> SUFFICES ASSUME NEW i \in Ids, desc[i].fn = cur
                 PROVE  desc[i].open <= pos'
      OBVIOUS
    <3>1. desc[i].open <= pos
      BY <2>1 DEF StartsOrdered
    <3> QED  BY <1>4, <3>1 DEF Ids
  <2> QED  BY <1>1, <2>1, <2>2 DEF StartsOrdered, Ids
<1>6. ClosedBlocks'
  <2>1. ClosedBlocks
    BY DEF TableInv
  <2> QED  BY <1>1, <1>4, <2>1 DEF ClosedBlocks, Ids
<1>7. (OpenBlocks /\ ClosedBeforeOpen /\ BlocksNested /\ Listed)'
  BY <1>1 DEF TableInv, OpenBlocks, ClosedBeforeOpen, BlocksNested, Listed, Ids,
              Funcs
<1> QED  BY <1>3, <1>5, <1>6, <1>7 DEF TableInv

(* A new open block with the greatest identity and start address.          *)
LEMMA OpenedInOrder ==
    ASSUME TableInv, TypeOK',
           prog' = prog, blk' = blk, cur' = cur,
           pos' \in Nat, pos + 1 <= pos',
           Len(desc') = Len(desc) + 1,
           \A i \in 1..Len(desc) : desc'[i] = desc[i],
           desc'[Len(desc')].fn = cur,
           desc'[Len(desc')].open = pos + 1,
           desc'[Len(desc')].end = 0,
           Len(blktmp') = Len(blktmp) + 1,
           \A m \in 1..Len(blktmp) : blktmp'[m] = blktmp[m],
           blktmp'[Len(blktmp')] = Len(desc')
    PROVE  TableInv'
<1>1. /\ TypeOK /\ StartsOrdered /\ OpenBlocks /\ ClosedBlocks
      /\ ClosedBeforeOpen /\ BlocksNested /\ Listed
  BY DEF TableInv
<1>2. /\ Len(desc) \in Nat /\ Len(blktmp) \in Nat /\ cur \in Nat /\ pos \in Nat
      /\ \A i \in 1..Len(desc) : /\ desc[i].fn \in Nat
                                 /\ desc[i].open \in Nat
                                 /\ desc[i].end \in Nat
      /\ \A m \in 1..Len(blktmp) : blktmp[m] \in 1..Len(desc)
      /\ \A f \in Funcs : \A m \in 1..Len(blk[f]) : blk[f][m] \in 1..Len(desc)
  BY <1>1, Typed
<1>3. /\ \A i \in 1..Len(desc') : i \in 1..Len(desc) \/ i = Len(desc')
      /\ \A m \in 1..Len(blktmp') : m \in 1..Len(blktmp) \/ m = Len(blktmp')
  BY <1>2
<1>4. StartsOrdered'
  <2>1. ASSUME NEW i \in 1..Len(desc')
        PROVE  desc'[i].fn <= cur' /\ (desc'[i].fn = cur' => desc'[i].open <= pos')
    BY <1>1, <1>2, <1>3 DEF StartsOrdered, Ids
  <2>2. ASSUME NEW i \in 1..Len(desc'), NEW j \in 1..Len(desc'),
               i < j, desc'[i].fn = desc'[j].fn
        PROVE  desc'[i].open < desc'[j].open
    <3>1. i \in 1..Len(desc) /\ desc'[i] = desc[i]
      BY <1>2, <1>3, <2>2
    <3>2. CASE j = Len(desc')
      BY <1>1, <1>2, <2>2, <3>1, <3>2 DEF StartsOrdered, Ids
    <3>3. CASE j \in 1..Len(desc)
      BY <1>1, <2>2, <3>1, <3>3 DEF StartsOrdered, Ids
    <3> QED  BY <1>3, <3>2, <3>3
  <2> QED  BY <2>1, <2>2 DEF StartsOrdered, Ids
<1>5. OpenBlocks'
  <2>1. \A m \in 1..Len(blktmp) : /\ blktmp'[m] = blktmp[m]
                                   /\ desc'[blktmp[m]] = desc[blktmp[m]]
                                   /\ blktmp[m] < Len(desc')
    BY <1>2
  <2>2. ASSUME NEW m \in 1..Len(blktmp')
        PROVE  desc'[blktmp'[m]].fn = cur' /\ desc'[blktmp'[m]].end = 0
    <3>1. CASE m = Len(blktmp')
      BY <3>1
    <3>2. CASE m \in 1..Len(blktmp)
      BY <1>1, <2>1, <3>2 DEF OpenBlocks
    <3> QED  BY <1>3, <3>1, <3>2
  <2>3. ASSUME NEW m \in 1..Len(blktmp'), NEW n \in 1..Len(blktmp'), m < n
        PROVE  blktmp'[m] < blktmp'[n]
    <3>1. m \in 1..Len(blktmp)
      BY <1>2, <1>3, <2>3
    <3> QED  BY <1>1, <1>3, <2>1, <2>3, <3>1 DEF OpenBlocks
  <2> QED  BY <2>2, <2>3 DEF OpenBlocks
<1>6. ClosedBlocks'
  <2>1. ASSUME NEW i \in 1..Len(desc'), desc'[i].end # 0
        PROVE  /\ desc'[i].open < desc'[i].end
               /\ desc'[i].fn = cur' => desc'[i].end <= pos'
    <3>1. i \in 1..Len(desc) /\ desc'[i] = desc[i]
      BY <1>3, <2>1
    <3> QED  BY <1>1, <1>2, <2>1, <3>1 DEF ClosedBlocks, Ids
  <2> QED  BY <2>1 DEF ClosedBlocks, Ids
<1>7. ClosedBeforeOpen'
  <2>1. ASSUME NEW i \in 1..Len(desc'), NEW m \in 1..Len(blktmp'),
               i < blktmp'[m], desc'[i].fn = cur', desc'[i].end # 0
        PROVE  desc'[i].end <= desc'[blktmp'[m]].open
    <3>1. i \in 1..Len(desc) /\ desc'[i] = desc[i]
      BY <1>3, <2>1
    <3>2. CASE m = Len(blktmp')
      <4>1. desc[i].end <= pos
        BY <1>1, <2>1, <3>1 DEF ClosedBlocks, Ids
      <4> QED  BY <1>2, <3>1, <3>2, <4>1
    <3>3. CASE m \in 1..Len(blktmp)
      <4>1. blktmp'[m] = blktmp[m] /\ desc'[blktmp[m]] = desc[blktmp[m]]
        BY <1>2, <3>3
      <4> QED  BY <1>1, <2>1, <3>1, <3>3, <4>1 DEF ClosedBeforeOpen, Ids
    <3> QED  BY <1>3, <3>2, <3>3
  <2> QED  BY <2>1 DEF ClosedBeforeOpen, Ids
<1>8. BlocksNested'
  <2>1. \A i \in 1..Len(desc') :
           desc'[i].end # 0 => i \in 1..Len(desc) /\ desc'[i] = desc[i]
    BY <1>3
  <2> HIDE <1>2, <1>3
  <2>2. ASSUME NEW i \in 1..Len(desc'), NEW j \in 1..Len(desc'), i < j,
               desc'[i].fn = desc'[j].fn, desc'[i].end # 0, desc'[j].end # 0
        PROVE  /\ desc'[i].open < desc'[i].end /\ desc'[j].open < desc'[j].end
               /\ desc'[i].end <= desc'[j].open \/ desc'[j].end <= desc'[i].end
    BY <1>1, <2>1, <2>2 DEF BlocksNested
  <2> QED  BY <2>2 DEF BlocksNested
<1>9. Listed'
  <2>1. \A f \in Funcs : \A m \in 1..Len(blk[f]) :
           desc'[blk[f][m]] = desc[blk[f][m]]
    BY <1>2
  <2>2. ASSUME NEW f \in Funcs, NEW m \in 1..Len(blk[f])
        PROVE  /\ desc'[blk[f][m]].fn = f /\ desc'[blk[f][m]].end # 0
               /\ \A n \in 1..Len(blk[f]) : blk[f][m] = blk[f][n] => m = n
    BY <1>1, <2>1 DEF Listed
  <2>3. Funcs' = Funcs
    BY DEF Funcs
  <2> QED  BY <2>2, <2>3 DEF Listed
<1> QED  BY <1>4, <1>5, <1>6, <1>7, <1>8, <1>9 DEF TableInv

(* consume_block and consume_if: a block is allocated and opened at the    *)
(* tail of blktmp; iftmp' is whatever list the opcode leaves.              *)
LEMMA BlockOpens ==
    ASSUME TableInv,
           UNCHANGED <<prog, blk, cur, vphase>>,
           pos < prog.funcs[cur].last,
           Moved,
           desc' = Append(desc, NewBlock),
           blktmp' = Append(blktmp, Len(desc) + 1),
           iftmp' \in Seq(1..(Len(desc) + 1))
    PROVE  TableInv'
<1>1. /\ TypeOK /\ StartsOrdered /\ OpenBlocks /\ ClosedBlocks
      /\ ClosedBeforeOpen /\ BlocksNested /\ Listed
      /\ prog' = prog /\ blk' = blk /\ cur' = cur /\ vphase' = vphase
  BY DEF TableInv
<1>2. NewBlock \in Block
  BY <1>1, NewBlockType
<1>3. /\ desc' \in Seq(Block)
      /\ Len(desc') = Len(desc) + 1
      /\ \A i \in 1..Len(desc) : desc'[i] = desc[i]
      /\ desc'[Len(desc) + 1] = NewBlock
  BY <1>1, <1>2, AppendProperties DEF TypeOK
<1>4. /\ blktmp' \in Seq(1..Len(desc'))
      /\ Len(blktmp') = Len(blktmp) + 1
      /\ \A m \in 1..Len(blktmp) : blktmp'[m] = blktmp[m]
      /\ blktmp'[Len(blktmp) + 1] = Len(desc) + 1
  <2>1. 1..Len(desc) \subseteq 1..Len(desc') /\ Len(desc) + 1 \in 1..Len(desc')
    BY <1>1, <1>3, Typed
  <2>2. blktmp \in Seq(1..Len(desc'))
    BY <1>1, <2>1, SeqMonotonic DEF TypeOK
  <2> QED  BY <2>1, <2>2, AppendProperties
<1>5. TypeOK'
  <2>1. blk' \in [Funcs' -> Seq(1..Len(desc'))]
    <3>1. 1..Len(desc) \subseteq 1..Len(desc')
      BY <1>1, <1>3, Typed
    <3>2. \A f \in Funcs : blk[f] \in Seq(1..Len(desc'))
      BY <1>1, <3>1, SeqMonotonic, Typed
    <3> QED  BY <1>1, <3>2 DEF TypeOK, Funcs
  <2>2. CursorInBody'
    BY <1>1, Forwards
  <2>3. iftmp' \in Seq(1..Len(desc'))
    BY <1>3
  <2> QED  BY <1>1, <1>3, <1>4, <2>1, <2>2, <2>3 DEF TypeOK, Funcs
<1>6. /\ desc'[Len(desc')].fn = cur /\ desc'[Len(desc')].open = pos + 1
      /\ desc'[Len(desc')].end = 0
      /\ blktmp'[Len(blktmp')] = Len(desc')
  BY <1>3, <1>4 DEF NewBlock
<1>7. pos' \in Nat /\ pos + 1 <= pos'
  BY <1>1, Forwards
<1> QED  BY <1>1, <1>3, <1>4, <1>5, <1>6, <1>7, OpenedInOrder

\* consume_else: the last entry of iftmp gets its second branch.
LEMMA ElseTaken ==
    ASSUME TableInv,
           UNCHANGED <<prog, blk, cur, blktmp, vphase>>,
           pos < prog.funcs[cur].last,
           pos' = pos + 1,
           iftmp # << >>,
           desc' = [desc EXCEPT ![Last(iftmp)].els = pos + 1],
           iftmp' = Front(iftmp)
    PROVE  TableInv'
<1>1. /\ TypeOK /\ StartsOrdered /\ OpenBlocks /\ ClosedBlocks
      /\ ClosedBeforeOpen /\ BlocksNested /\ Listed
      /\ prog' = prog /\ blk' = blk /\ cur' = cur /\ vphase' = vphase
      /\ blktmp' = blktmp
  BY DEF TableInv
<1>2. iftmp' \in Seq(1..Len(desc)) /\ Last(iftmp) \in 1..Len(desc)
  BY <1>1, FrontSeq DEF TypeOK
<1> DEFINE k == Last(iftmp)
           x == [desc[k] EXCEPT !.els = pos + 1]
<1>3. /\ x \in Block
      /\ x.fn = desc[k].fn /\ x.open = desc[k].open /\ x.end = desc[k].end
  <2>1. desc[k] \in Block /\ pos + 1 \in Nat
    BY <1>1, <1>2, Typed
  <2>2. \A d \in Block : \A e \in Nat :
           /\ [d EXCEPT !.els = e] \in Block
           /\ [d EXCEPT !.els = e].fn = d.fn
           /\ [d EXCEPT !.els = e].open = d.open
           /\ [d EXCEPT !.els = e].end = d.end
    BY DEF Block
  <2> QED  BY <2>1, <2>2
<1>4. /\ desc' \in Seq(Block)
      /\ Len(desc') = Len(desc)
      /\ \A i \in 1..Len(desc) : desc'[i] = IF i = k THEN x ELSE desc[i]
  <2>1. desc' = [desc EXCEPT ![k] = x]
    OBVIOUS
  <2>2. desc \in Seq(Block) /\ k \in 1..Len(desc) /\ x \in Block
    BY <1>1, <1>2, <1>3 DEF TypeOK
  <2> HIDE DEF k, x
  <2>3. /\ [desc EXCEPT ![k] = x] \in Seq(Block)
        /\ Len([desc EXCEPT ![k] = x]) = Len(desc)
        /\ \A j \in 1..Len(desc) :
              [desc EXCEPT ![k] = x][j] = IF j = k THEN x ELSE desc[j]
    BY <2>2, ExceptSeq
  <2> QED  BY <2>1, <2>3
<1>5. \A i \in 1..Len(desc) : /\ desc'[i].fn = desc[i].fn
                               /\ desc'[i].open = desc[i].open
                               /\ desc'[i].end = desc[i].end
  BY <1>3, <1>4
<1> HIDE DEF k, x
<1>6. TypeOK'
  <2>1. CursorInBody'
    BY <1>1, Forwards
  <2> QED  BY <1>1, <1>2, <1>4, <2>1 DEF TypeOK, Funcs
<1>7. StartsOrdered'
  <2>1. ASSUME NEW i \in 1..Len(desc)
        PROVE  /\ desc'[i].fn <= cur
               /\ desc'[i].fn = cur => desc'[i].open <= pos + 1
    BY <1>1, <1>5, Typed DEF StartsOrdered, Ids
  <2>2. ASSUME NEW i \in 1..Len(desc), NEW j \in 1..Len(desc), i < j,
               desc'[i].fn = desc'[j].fn
        PROVE  desc'[i].open < desc'[j].open
    BY <1>1, <1>5, <2>2 DEF StartsOrdered, Ids
  <2> QED  BY <1>1, <1>4, <2>1, <2>2 DEF StartsOrdered, Ids
<1>8. OpenBlocks'
  BY <1>1, <1>4, <1>5, Typed DEF OpenBlocks
<1>9. ClosedBlocks'
  BY <1>1, <1>4, <1>5, Typed DEF ClosedBlocks, Ids
<1>10. ClosedBeforeOpen'
  BY <1>1, <1>4, <1>5, Typed DEF ClosedBeforeOpen, Ids
<1>11. BlocksNested'
  BY <1>1, <1>4, <1>5 DEF BlocksNested
<1>12. Listed'
  <2>1. \A f \in Funcs : \A m \in 1..Len(blk[f]) :
           /\ desc'[blk[f][m]].fn = desc[blk[f][m]].fn
           /\ desc'[blk[f][m]].end = desc[blk[f][m]].end
    BY <1>1, <1>5, Typed
  <2> QED  BY <1>1, <2>1 DEF Listed, Funcs
<1> QED  BY <1>6, <1>7, <1>8, <1>9, <1>10, <1>11, <1>12 DEF TableInv

(* list_add_tail of a block that was open, hence in no list.               *)
LEMMA ListedOnce ==
    ASSUME TypeOK, Listed, prog' = prog, cur \in Funcs,
           NEW k \in 1..Len(desc), desc[k].fn = cur, desc[k].end = 0,
           \A i \in 1..Len(desc) : i # k => desc'[i] = desc[i],
           desc'[k].fn = desc[k].fn,
           desc'[k].end = pos + 1,
           \A f \in Funcs : f # cur => blk'[f] = blk[f],
           Len(blk'[cur]) = Len(blk[cur]) + 1,
           \A m \in 1..Len(blk[cur]) : blk'[cur][m] = blk[cur][m],
           blk'[cur][Len(blk'[cur])] = k
    PROVE  Listed'
<1>1. ASSUME NEW f \in Funcs, NEW m \in 1..Len(blk[f])
      PROVE  /\ desc'[blk[f][m]].fn = f /\ desc'[blk[f][m]].end # 0
             /\ blk[f][m] # k
  <2>1. blk[f][m] \in 1..Len(desc)
    BY <1>1, Typed
  <2>2. desc[blk[f][m]].fn = f /\ desc[blk[f][m]].end # 0
    BY <1>1 DEF Listed
  <2>3. blk[f][m] # k
    BY <2>2
  <2> QED  BY <2>1, <2>2, <2>3
<1>2. ASSUME NEW f \in Funcs, NEW m \in 1..Len(blk'[f])
      PROVE  /\ desc'[blk'[f][m]].fn = f /\ desc'[blk'[f][m]].end # 0
             /\ \A n \in 1..Len(blk'[f]) : blk'[f][m] = blk'[f][n] => m = n
  <2>1. CASE f # cur
    <3>1. blk'[f] = blk[f]
      BY <2>1
    <3>2. \A n \in 1..Len(blk[f]) : blk[f][m] = blk[f][n] => m = n
      BY <1>2, <3>1 DEF Listed
    <3> QED  BY <1>1, <1>2, <3>1, <3>2
  <2>2. CASE f = cur
    <3> DEFINE old == blk[cur]
               new == blk'[cur]
    <3>1. /\ Len(old) \in Nat
          /\ \A n \in 1..Len(new) : n \in 1..Len(old) \/ n = Len(new)
      <4>1. Len(old) \in Nat /\ Len(new) = Len(old) + 1
        BY Typed
      <4> HIDE DEF old, new
      <4>2. \A n \in 1..Len(new) : n \in 1..Len(old) \/ n = Len(new)
        BY <4>1
      <4> QED  BY <4>1, <4>2
    <3>2. \A n \in 1..Len(old) : new[n] = old[n] /\ old[n] # k
      BY <1>1
    <3>3. \A n \in 1..Len(old) : desc'[old[n]].fn = cur /\ desc'[old[n]].end # 0
      BY <1>1
    <3>4. \A n, o \in 1..Len(old) : old[n] = old[o] => n = o
      BY DEF Listed
    <3>5. new[Len(new)] = k /\ desc'[k].fn = cur /\ desc'[k].end # 0
      BY Typed
    <3>6. m \in 1..Len(new)
      BY <1>2, <2>2
    <3> HIDE DEF old, new
    <3>7. desc'[new[m]].fn = cur /\ desc'[new[m]].end # 0
      BY <3>1, <3>2, <3>3, <3>5, <3>6
    <3>8. ASSUME NEW n \in 1..Len(new), new[m] = new[n]
          PROVE  m = n
      <4>1. /\ m \in 1..Len(old) \/ m = Len(new)
            /\ n \in 1..Len(old) \/ n = Len(new)
        BY <3>1, <3>6
      <4>2. CASE m \in 1..Len(old) /\ n \in 1..Len(old)
        <5>1. old[m] = old[n]
          BY <3>2, <3>8, <4>2
        <5> QED  BY <3>4, <4>2, <5>1
      <4>3. CASE m = Len(new) /\ n \in 1..Len(old)
        BY <3>2, <3>5, <3>8, <4>3
      <4>4. CASE m \in 1..Len(old) /\ n = Len(new)
        BY <3>2, <3>5, <3>8, <4>4
      <4>5. CASE m = Len(new) /\ n = Len(new)
        BY <4>5
      <4> QED  BY <4>1, <4>2, <4>3, <4>4, <4>5
    <3> QED  BY <2>2, <3>7, <3>8 DEF new
  <2> QED  BY <2>1, <2>2
<1> QED  BY <1>2 DEF Listed, Funcs

(* The innermost open block is closed behind the cursor.                   *)
LEMMA ClosedInOrder ==
    ASSUME TypeOK, StartsOrdered, OpenBlocks, ClosedBlocks, ClosedBeforeOpen,
           BlocksNested,
           cur' = cur, pos' = pos + 1,
           NEW k \in 1..Len(desc), k = blktmp[Len(blktmp)], Len(blktmp) # 0,
           Len(desc') = Len(desc),
           \A i \in 1..Len(desc) : i # k => desc'[i] = desc[i],
           desc'[k].fn = desc[k].fn,
           desc'[k].open = desc[k].open,
           desc'[k].end = pos + 1,
           Len(blktmp') = Len(blktmp) - 1,
           \A m \in 1..(Len(blktmp) - 1) : blktmp'[m] = blktmp[m]
    PROVE  /\ StartsOrdered' /\ OpenBlocks' /\ ClosedBlocks'
           /\ ClosedBeforeOpen' /\ BlocksNested'
<1>1. /\ Len(desc) \in Nat /\ Len(blktmp) \in Nat /\ cur \in Nat /\ pos \in Nat
      /\ \A i \in 1..Len(desc) : /\ desc[i].fn \in Nat
                                 /\ desc[i].open \in Nat
                                 /\ desc[i].end \in Nat
      /\ \A m \in 1..Len(blktmp) : blktmp[m] \in 1..Len(desc)
  BY Typed
<1>2. Len(blktmp) \in 1..Len(blktmp)
  BY <1>1
<1>3. desc[k].fn = cur /\ desc[k].end = 0
  BY <1>2 DEF OpenBlocks
<1>4. desc[k].open <= pos
  BY <1>3 DEF StartsOrdered, Ids
<1>5. \A m \in 1..Len(blktmp') : m \in 1..Len(blktmp) /\ m < Len(blktmp)
  BY <1>1
<1>6. \A m \in 1..Len(blktmp') : blktmp[m] < k
  BY <1>2, <1>5 DEF OpenBlocks
<1>7. \A m \in 1..Len(blktmp') : blktmp'[m] = blktmp[m]
  OBVIOUS
<1>8. \A i \in 1..Len(desc) : /\ desc'[i].fn = desc[i].fn
                               /\ desc'[i].open = desc[i].open
  OBVIOUS
<1>9. StartsOrdered'
  <2>1. ASSUME NEW i \in 1..Len(desc)
        PROVE  desc'[i].fn <= cur' /\ (desc'[i].fn = cur' => desc'[i].open <= pos')
    <3>1. desc[i].fn <= cur /\ (desc[i].fn = cur => desc[i].open <= pos)
      BY DEF StartsOrdered, Ids
    <3>2. desc[i].open \in Nat /\ pos \in Nat
      BY <1>1
    <3>3. desc'[i].fn = desc[i].fn /\ desc'[i].open = desc[i].open
      BY <1>8
    <3> QED  BY <3>1, <3>2, <3>3
  <2>2. ASSUME NEW i \in 1..Len(desc), NEW j \in 1..Len(desc),
               i < j, desc'[i].fn = desc'[j].fn
        PROVE  desc'[i].open < desc'[j].open
    BY <1>8, <2>2 DEF StartsOrdered, Ids
  <2> QED  BY <2>1, <2>2 DEF StartsOrdered, Ids
<1>10. OpenBlocks'
  <2>1. \A m \in 1..Len(blktmp') : desc'[blktmp'[m]] = desc[blktmp[m]]
    <3> SUFFICES ASSUME NEW m \in 1..Len(blktmp')
                 PROVE  desc'[blktmp'[m]] = desc[blktmp[m]]
      OBVIOUS
    <3>1. blktmp[m] \in 1..Len(desc) /\ blktmp[m] # k /\ blktmp'[m] = blktmp[m]
      BY <1>1, <1>5, <1>6, <1>7
    <3> QED  BY <3>1
  <2> QED  BY <1>5, <1>7, <2>1 DEF OpenBlocks
<1>11. \A i \in 1..Len(desc) : desc'[i].end # 0 =>
          /\ desc'[i].open < desc'[i].end
          /\ desc'[i].fn = cur => desc'[i].end <= pos + 1
  <2> SUFFICES ASSUME NEW i \in 1..Len(desc), desc'[i].end # 0
               PROVE  /\ desc'[i].open < desc'[i].end
                      /\ desc'[i].fn = cur => desc'[i].end <= pos + 1
    OBVIOUS
  <2>1. CASE i = k
    BY <1>1, <1>4, <2>1
  <2>2. CASE i # k
    <3>1. desc'[i] = desc[i] /\ desc[i].end \in Nat /\ pos \in Nat
      BY <1>1, <2>2
    <3>2. /\ desc[i].open < desc[i].end
          /\ desc[i].fn = cur => desc[i].end <= pos
      BY <3>1 DEF ClosedBlocks, Ids
    <3> QED  BY <3>1, <3>2
  <2> QED  BY <2>1, <2>2
<1>12. ClosedBlocks'
  BY <1>11 DEF ClosedBlocks, Ids
<1>13. ClosedBeforeOpen'
  <2>1. ASSUME NEW i \in 1..Len(desc), NEW m \in 1..Len(blktmp'),
               i < blktmp'[m], desc'[i].fn = cur', desc'[i].end # 0
        PROVE  desc'[i].end <= desc'[blktmp'[m]].open
    <3>1. /\ m \in 1..Len(blktmp) /\ blktmp'[m] = blktmp[m]
          /\ blktmp[m] \in 1..Len(desc) /\ blktmp[m] < k
      BY <1>1, <1>5, <1>6, <1>7
    <3>2. i # k /\ blktmp[m] # k
      BY <1>1, <2>1, <3>1
    <3>3. desc'[i] = desc[i] /\ desc'[blktmp[m]] = desc[blktmp[m]]
      BY <3>1, <3>2
    <3> QED  BY <2>1, <3>1, <3>3 DEF ClosedBeforeOpen, Ids
  <2> QED  BY <2>1 DEF ClosedBeforeOpen, Ids
<1>14. BlocksNested'
  <2>1. ASSUME NEW i \in 1..Len(desc), NEW j \in 1..Len(desc), i < j,
               desc'[i].fn = desc'[j].fn, desc'[i].end # 0, desc'[j].end # 0
        PROVE  /\ desc'[i].open < desc'[i].end /\ desc'[j].open < desc'[j].end
               /\ desc'[i].end <= desc'[j].open \/ desc'[j].end <= desc'[i].end
    <3>1. desc'[i].open < desc'[i].end /\ desc'[j].open < desc'[j].end
      BY <1>11, <2>1
    <3>2. CASE i = k
      \* j was opened later and is closed: its end is before the cursor.
      <4>1. j # k /\ desc'[j] = desc[j]
        BY <1>1, <2>1, <3>2
      <4>2. desc[j].fn = cur
        BY <1>3, <2>1, <3>2, <4>1
      <4>3. desc[j].end <= pos /\ desc[j].end \in Nat /\ pos \in Nat
        BY <1>1, <2>1, <4>1, <4>2 DEF ClosedBlocks, Ids
      <4> QED  BY <3>1, <3>2, <4>1, <4>3
    <3>3. CASE j = k
      \* i was closed before k was opened.
      <4>1. i # k /\ desc'[i] = desc[i]
        BY <1>1, <2>1, <3>3
      <4>2. desc[i].fn = cur
        BY <1>3, <2>1, <3>3, <4>1
      <4>3. desc[i].end <= desc[k].open
        BY <1>2, <2>1, <3>3, <4>1, <4>2 DEF ClosedBeforeOpen, Ids
      <4> QED  BY <3>1, <3>3, <4>1, <4>3
    <3>4. CASE i # k /\ j # k
      <4>1. desc'[i] = desc[i] /\ desc'[j] = desc[j]
        BY <3>4
      <4> QED  BY <2>1, <3>1, <4>1 DEF BlocksNested
    <3> QED  BY <3>2, <3>3, <3>4
  <2> QED  BY <2>1 DEF BlocksNested
<1> QED  BY <1>9, <1>10, <1>12, <1>13, <1>14

(* consume_end with an open block.                                         *)
LEMMA BlockCloses ==
    ASSUME TableInv,
           UNCHANGED <<prog, cur, iftmp, vphase>>,
           pos < prog.funcs[cur].last,
           pos' = pos + 1,
           blktmp # << >>,
           desc' = [desc EXCEPT ![Last(blktmp)] = Closed(@, pos + 1)],
           blk' = [blk EXCEPT ![cur] = Append(@, Last(blktmp))],
           blktmp' = Front(blktmp)
    PROVE  TableInv'
<1>1. /\ TypeOK /\ StartsOrdered /\ OpenBlocks /\ ClosedBlocks
      /\ ClosedBeforeOpen /\ BlocksNested /\ Listed
      /\ prog' = prog /\ cur' = cur /\ vphase' = vphase /\ iftmp' = iftmp
  BY DEF TableInv
<1> DEFINE k == Last(blktmp)
           x == Closed(desc[k], pos + 1)
<1>2. /\ blktmp' \in Seq(1..Len(desc))
      /\ Len(blktmp) \in Nat \ {0}
      /\ Len(blktmp') = Len(blktmp) - 1
      /\ \A m \in 1..(Len(blktmp) - 1) : blktmp'[m] = blktmp[m]
      /\ k = blktmp[Len(blktmp)]
      /\ k \in 1..Len(desc)
  BY <1>1, FrontSeq DEF TypeOK
<1>3. /\ x \in Block
      /\ x.fn = desc[k].fn /\ x.open = desc[k].open /\ x.end = pos + 1
  <2>1. desc[k] \in Block /\ pos + 1 \in Nat
    BY <1>1, <1>2, Typed
  <2>2. \A d \in Block : \A e \in Nat :
           /\ Closed(d, e) \in Block
           /\ Closed(d, e).fn = d.fn
           /\ Closed(d, e).open = d.open
           /\ Closed(d, e).end = e
    BY DEF Block, Closed
  <2> QED  BY <2>1, <2>2
<1>4. /\ desc' \in Seq(Block)
      /\ Len(desc') = Len(desc)
      /\ \A i \in 1..Len(desc) : desc'[i] = IF i = k THEN x ELSE desc[i]
  <2>1. desc' = [desc EXCEPT ![k] = x]
    OBVIOUS
  <2>2. desc \in Seq(Block) /\ k \in 1..Len(desc) /\ x \in Block
    BY <1>1, <1>2, <1>3 DEF TypeOK
  <2> HIDE DEF k, x
  <2>3. /\ [desc EXCEPT ![k] = x] \in Seq(Block)
        /\ Len([desc EXCEPT ![k] = x]) = Len(desc)
        /\ \A j \in 1..Len(desc) :
              [desc EXCEPT ![k] = x][j] = IF j = k THEN x ELSE desc[j]
    BY <2>2, ExceptSeq
  <2> QED  BY <2>1, <2>3
<1>5. /\ blk' \in [Funcs -> Seq(1..Len(desc))]
      /\ \A f \in Funcs : f # cur => blk'[f] = blk[f]
      /\ Len(blk'[cur]) = Len(blk[cur]) + 1
      /\ \A m \in 1..Len(blk[cur]) : blk'[cur][m] = blk[cur][m]
      /\ blk'[cur][Len(blk[cur]) + 1] = k
  <2>1. blk \in [Funcs -> Seq(1..Len(desc))] /\ cur \in Funcs
    BY <1>1 DEF TypeOK
  <2>2. k \in 1..Len(desc) /\ blk' = [blk EXCEPT ![cur] = Append(@, k)]
    BY <1>2
  <2> HIDE DEF k
  <2>3. blk[cur] \in Seq(1..Len(desc)) /\ blk'[cur] = Append(blk[cur], k)
    BY <2>1, <2>2
  <2>4. /\ blk'[cur] \in Seq(1..Len(desc))
        /\ Len(blk'[cur]) = Len(blk[cur]) + 1
        /\ \A m \in 1..Len(blk[cur]) : blk'[cur][m] = blk[cur][m]
        /\ blk'[cur][Len(blk[cur]) + 1] = k
    <3> DEFINE b == blk[cur]
               S == 1..Len(desc)
    <3>1. b \in Seq(S) /\ k \in S
      BY <2>2, <2>3
    <3>2. blk'[cur] = Append(b, k)
      BY <2>3
    <3> HIDE DEF b, S
    <3>3. /\ Append(b, k) \in Seq(S)
          /\ Len(Append(b, k)) = Len(b) + 1
          /\ \A m \in 1..Len(b) : Append(b, k)[m] = b[m]
          /\ Append(b, k)[Len(b) + 1] = k
      BY <3>1, AppendProperties
    <3> QED  BY <3>2, <3>3 DEF b, S
  <2>5. \A f \in Funcs : f # cur => blk'[f] = blk[f]
    BY <2>1, <2>2
  <2>6. blk' \in [Funcs -> Seq(1..Len(desc))]
    BY <2>1, <2>2, <2>3, <2>4
  <2> QED  BY <2>4, <2>5, <2>6
<1> HIDE DEF k, x
<1>6. TypeOK'
  <2>1. CursorInBody'
    BY <1>1, Forwards
  <2> QED  BY <1>1, <1>2, <1>4, <1>5, <2>1 DEF TypeOK, Funcs
<1>7. /\ \A i \in 1..Len(desc) : i # k => desc'[i] = desc[i]
      /\ desc'[k].fn = desc[k].fn /\ desc'[k].open = desc[k].open
      /\ desc'[k].end = pos + 1
  BY <1>2, <1>3, <1>4
<1>8. /\ StartsOrdered' /\ OpenBlocks' /\ ClosedBlocks'
      /\ ClosedBeforeOpen' /\ BlocksNested'
  BY <1>1, <1>2, <1>4, <1>7, ClosedInOrder
<1>9. Listed'
  <2>1. cur \in Funcs /\ desc[k].fn = cur /\ desc[k].end = 0
    <3>1. cur \in Funcs
      BY <1>1 DEF TypeOK
    <3>2. desc[k].fn = cur /\ desc[k].end = 0
      BY <1>1, <1>2 DEF OpenBlocks
    <3> QED  BY <3>1, <3>2
  <2>2. blk'[cur][Len(blk'[cur])] = k
    BY <1>5
  <2> QED  BY <1>1, <1>2, <1>5, <1>7, <2>1, <2>2, ListedOnce
<1> QED  BY <1>6, <1>8, <1>9 DEF TableInv

(* for_each_funcs goes to the next function, whose lists are empty.        *)
LEMMA FuncVisited ==
    ASSUME TableInv,
           UNCHANGED <<prog, desc, blk, vphase>>,
           cur # Len(prog.funcs),
           cur' = cur + 1,
           pos' = prog.funcs[cur + 1].first,
           blktmp' = << >>,
           iftmp' = << >>
    PROVE  TableInv'
<1>1. /\ TypeOK /\ StartsOrdered /\ OpenBlocks /\ ClosedBlocks
      /\ ClosedBeforeOpen /\ BlocksNested /\ Listed
      /\ prog' = prog /\ desc' = desc /\ blk' = blk /\ vphase' = vphase
  BY DEF TableInv
<1>2. cur + 1 \in Funcs /\ cur \in Nat
  <2>1. Len(prog.funcs) \in Nat /\ cur \in 1..Len(prog.funcs)
    BY <1>1, LenProperties DEF TypeOK, IsProgram, Funcs
  <2> QED  BY <2>1 DEF Funcs
<1>3. /\ prog.funcs[cur + 1].first \in Nat /\ prog.funcs[cur + 1].last \in Nat
      /\ prog.funcs[cur + 1].first <= prog.funcs[cur + 1].last
  <2>1. IsProgram(prog) /\ Len(prog.code) \in Nat
    BY <1>1, LenProperties DEF TypeOK, IsProgram
  <2>2. /\ prog.funcs[cur + 1].first \in 1..(Len(prog.code) + 1)
        /\ prog.funcs[cur + 1].last
             \in prog.funcs[cur + 1].first..(Len(prog.code) + 1)
    BY <1>2, <2>1 DEF IsProgram, Funcs
  <2> QED  BY <2>1, <2>2
<1>4. TypeOK'
  <2>1. CursorInBody'
    BY <1>1, <1>3 DEF CursorInBody
  <2>2. << >> \in Seq(1..Len(desc))
    BY EmptySeq
  <2> QED  BY <1>1, <1>2, <2>1, <2>2 DEF TypeOK, Funcs
<1>5. \A i \in 1..Len(desc) : desc[i].fn \in Nat /\ desc[i].fn <= cur
  BY <1>1, Typed DEF StartsOrdered, Ids
<1>6. StartsOrdered'
  <2>1. \A i \in 1..Len(desc) : desc[i].fn <= cur + 1 /\ desc[i].fn # cur + 1
    BY <1>2, <1>5
  <2>2. \A i, j \in 1..Len(desc) : (i < j /\ desc[i].fn = desc[j].fn)
                                       => desc[i].open < desc[j].open
    BY <1>1 DEF StartsOrdered, Ids
  <2>3. desc' = desc
    BY <1>1
  <2> QED  BY <2>1, <2>2, <2>3 DEF StartsOrdered, Ids
<1>7. Len(blktmp') = 0
  BY EmptySeq
<1>8. OpenBlocks' /\ ClosedBeforeOpen'
  BY <1>7 DEF OpenBlocks, ClosedBeforeOpen, Ids
<1>9. ClosedBlocks'
  BY <1>1, <1>2, <1>5 DEF ClosedBlocks, Ids
<1>10. BlocksNested' /\ Listed'
  BY <1>1 DEF BlocksNested, Listed, Funcs
<1> QED  BY <1>4, <1>6, <1>8, <1>9, <1>10 DEF TableInv

(* Every handler, and the loop around them.                                *)
LEMMA StepTableInv == TableInv /\ [Next]_vvars => TableInv'
<1> SUFFICES ASSUME TableInv, [Next]_vvars PROVE TableInv'
  OBVIOUS
<1>1. TypeOK /\ vphase \in VPhases
  BY DEF TableInv, TypeOK
<1>2. pos \in Nat /\ prog.funcs[cur].last \in Nat
  BY <1>1, Typed
<1>3. ASSUME UNCHANGED <<prog, cur, pos>>
      PROVE  pos' \in Nat /\ pos <= pos' /\ CursorInBody'
  BY <1>1, <1>2, <1>3 DEF TypeOK, CursorInBody
<1>4. ASSUME NEW ops, At(ops)
      PROVE  pos < prog.funcs[cur].last
  BY <1>4 DEF At
<1> DEFINE Onwards == pos' \in Nat /\ pos <= pos' /\ CursorInBody'
<1>14. ASSUME UNCHANGED <<prog, cur>>, pos < prog.funcs[cur].last,
              pos' = pos + 1 \/ Moved
       PROVE  Onwards
  <2>1. pos' \in Nat /\ pos + 1 <= pos' /\ CursorInBody'
    BY <1>1, <1>14, Forwards
  <2> QED  BY <1>2, <2>1
<1>5. CASE ConsumePlain
  <2>1. Onwards
    BY <1>4, <1>5, <1>14 DEF ConsumePlain
  <2> QED  BY <1>1, <1>5, <2>1, CursorMoves DEF ConsumePlain
<1>6. CASE ConsumeHole
  <2>1. Onwards
    BY <1>3, <1>6 DEF ConsumeHole
  <2> QED  BY <1>6, <2>1, CursorMoves DEF ConsumeHole, VPhases
<1>7. CASE ConsumeBlock
  <2>1. iftmp' \in Seq(1..(Len(desc) + 1))
    <3>1. 1..Len(desc) \subseteq 1..(Len(desc) + 1)
      BY <1>1, Typed
    <3> QED  BY <1>1, <1>7, <3>1, SeqMonotonic DEF ConsumeBlock, TypeOK
  <2> QED  BY <1>4, <1>7, <2>1, BlockOpens DEF ConsumeBlock, OpenBlock
<1>8. CASE ConsumeIf
  <2>1. iftmp' \in Seq(1..(Len(desc) + 1))
    <3>1. /\ 1..Len(desc) \subseteq 1..(Len(desc) + 1)
          /\ Len(desc) + 1 \in 1..(Len(desc) + 1)
      BY <1>1, Typed
    <3>2. iftmp \in Seq(1..(Len(desc) + 1))
      BY <1>1, <3>1, SeqMonotonic DEF TypeOK
    <3> QED  BY <1>8, <3>1, <3>2, AppendProperties DEF ConsumeIf
  <2> QED  BY <1>4, <1>8, <2>1, BlockOpens DEF ConsumeIf, OpenBlock
<1>9. CASE AllocFails
  <2>1. UNCHANGED <<prog, cur>> /\ (UNCHANGED pos \/ pos' = pos + 1)
    BY <1>9 DEF AllocFails
  <2>2. Onwards
    BY <1>3, <1>4, <1>9, <1>14, <2>1 DEF AllocFails
  <2>3. vphase' \in VPhases
    BY <1>1, <1>9 DEF AllocFails, VPhases
  <2> QED  BY <1>9, <2>2, <2>3, CursorMoves DEF AllocFails
<1>10. CASE ConsumeElse
  <2>1. CASE iftmp = << >>
    <3>1. Onwards
      BY <1>3, <1>10, <2>1 DEF ConsumeElse
    <3> QED  BY <1>10, <2>1, <3>1, CursorMoves DEF ConsumeElse, VPhases
  <2>2. CASE iftmp # << >>
    BY <1>4, <1>10, <2>2, ElseTaken DEF ConsumeElse
  <2> QED  BY <2>1, <2>2
<1>11. CASE ConsumeEnd
  <2>1. CASE blktmp = << >>
    <3>1. Onwards
      BY <1>4, <1>11, <1>14 DEF ConsumeEnd
    <3> QED  BY <1>1, <1>11, <2>1, <3>1, CursorMoves DEF ConsumeEnd
  <2>2. CASE blktmp # << >>
    BY <1>4, <1>11, <2>2, BlockCloses DEF ConsumeEnd
  <2> QED  BY <2>1, <2>2
<1>12. CASE NextFunc
  <2>1. CASE cur = Len(prog.funcs)
    <3>1. Onwards
      BY <1>3, <1>12, <2>1 DEF NextFunc
    <3> QED  BY <1>12, <2>1, <3>1, CursorMoves DEF NextFunc, VPhases
  <2>2. CASE cur # Len(prog.funcs)
    BY <1>12, <2>2, FuncVisited DEF NextFunc
  <2> QED  BY <2>1, <2>2
<1>13. CASE UNCHANGED vvars
  <2>1. Onwards
    BY <1>3, <1>13 DEF vvars
  <2> QED  BY <1>1, <1>13, <2>1, CursorMoves DEF vvars
<1> QED  BY <1>5, <1>6, <1>7, <1>8, <1>9, <1>10, <1>11, <1>12, <1>13 DEF Next

-----------------------------------------------------------------------------
(***************************************************************************)
(* The addresses in the table                                              *)
(***************************************************************************)
\* What BlocksInBody says of one block.
InBody(b) ==
    /\ b.fn \in Funcs
    /\ b.open \in (prog.funcs[b.fn].first + 1)..prog.funcs[b.fn].last
    /\ \/ b.start \in {0, b.open}
       \/ b.start = prog.funcs[b.fn].last + 1 /\ b.open = prog.funcs[b.fn].last
    /\ b.els # 0 => b.els \in (b.open + 1)..prog.funcs[b.fn].last
    /\ b.end # 0 => b.els # 0 /\ b.end \in (b.open + 1)..prog.funcs[b.fn].last

LEMMA InBodyEach == BlocksInBody <=> \A i \in 1..Len(desc) : InBody(desc[i])
BY DEF BlocksInBody, InBody

\* Start addresses are keys: identities of a function are ordered by `open'.
LEMMA TableIsKeyed == PassInv => FindBlkUnique
<1> SUFFICES ASSUME PassInv PROVE FindBlkUnique
  OBVIOUS
<1>1. TypeOK /\ StartsOrdered /\ Listed /\ BlocksInBody
  BY DEF PassInv, TableInv
<1>2. ASSUME NEW i \in 1..Len(desc), NEW j \in 1..Len(desc),
             desc[i].fn = desc[j].fn, desc[i].start = desc[j].start,
             desc[i].start # 0
      PROVE  i = j
  <2>1. /\ i < j => desc[i].open < desc[j].open
        /\ j < i => desc[j].open < desc[i].open
    BY <1>1, <1>2 DEF StartsOrdered, Ids
  <2>2. i \in Nat /\ j \in Nat /\ desc[i].open \in Nat /\ desc[j].open \in Nat
    BY <1>1, Typed
  <2>3. InBody(desc[i]) /\ InBody(desc[j])
    BY <1>1, InBodyEach
  <2>4. desc[i].open = desc[j].open
    <3> DEFINE f == prog.funcs[desc[i].fn]
    <3>1. f.last \in Nat /\ f.first \in Nat
      <4>1. desc[i].fn \in Funcs /\ prog.funcs \in Seq(Func)
        BY <1>1, <2>3 DEF InBody, TypeOK, IsProgram
      <4>2. f \in Func
        BY <4>1, ElementOfSeq DEF Funcs
      <4> HIDE DEF f
      <4> QED  BY <4>2 DEF Func
    <3>2. /\ desc[i].open <= f.last /\ desc[j].open <= f.last
          /\ desc[i].start = desc[i].open
               \/ (desc[i].start = f.last + 1 /\ desc[i].open = f.last)
          /\ desc[j].start = desc[j].open
               \/ (desc[j].start = f.last + 1 /\ desc[j].open = f.last)
      BY <1>2, <2>2, <2>3, <3>1 DEF InBody
    <3> HIDE DEF f
    <3> QED  BY <1>2, <2>2, <3>1, <3>2
  <2> QED  BY <2>1, <2>2, <2>4
<1> QED  BY <1>1, <1>2 DEF FindBlkUnique, Listed

\* A step that leaves the table alone, and adds no `if' to iftmp.
LEMMA AddressesStay ==
    ASSUME BlocksInBody, IfsOfBody,
           UNCHANGED <<prog, desc>>,
           UNCHANGED <<cur, iftmp>> \/ iftmp' = << >>
    PROVE  BlocksInBody' /\ IfsOfBody'
<1>1. prog' = prog /\ desc' = desc
  OBVIOUS
<1>2. BlocksInBody'
  BY <1>1 DEF BlocksInBody, Funcs
<1>3. CASE cur' = cur /\ iftmp' = iftmp
  BY <1>1, <1>2, <1>3 DEF IfsOfBody
<1>4. CASE iftmp' = << >>
  <2>1. Len(iftmp') = 0
    BY <1>4
  <2> QED  BY <1>2, <2>1 DEF IfsOfBody
<1> QED  BY <1>3, <1>4

\* A new block, and an entry of iftmp for it or none.
LEMMA AddressesOpened ==
    ASSUME TypeOK, BlocksInBody, IfsOfBody,
           UNCHANGED <<prog, cur>>,
           pos < prog.funcs[cur].last,
           desc' = Append(desc, NewBlock),
           iftmp' \in {iftmp, Append(iftmp, Len(desc) + 1)}
    PROVE  BlocksInBody' /\ IfsOfBody'
<1>1. prog' = prog /\ cur' = cur /\ cur \in Funcs
  BY DEF TypeOK
<1>2. /\ Len(desc') = Len(desc) + 1 /\ Len(desc) \in Nat
      /\ \A i \in 1..Len(desc) : desc'[i] = desc[i]
      /\ desc'[Len(desc) + 1] = NewBlock
  <2>1. desc \in Seq(Block) /\ NewBlock \in Block
    BY NewBlockType DEF TypeOK
  <2> HIDE DEF NewBlock
  <2> QED  BY <2>1, AppendProperties
<1>3. InBody(NewBlock)
  <2>1. /\ NewBlock.fn = cur /\ NewBlock.open = pos + 1
        /\ NewBlock.els = 0 /\ NewBlock.end = 0
    BY DEF NewBlock
  <2>2. /\ prog.funcs[cur].first \in Nat /\ prog.funcs[cur].last \in Nat
        /\ pos \in Nat /\ prog.funcs[cur].first <= pos
    BY Typed
  <2>3. pos + 1 \in (prog.funcs[cur].first + 1)..prog.funcs[cur].last
    BY <2>2
  <2>4. \/ NewBlock.start \in {0, pos + 1}
        \/ /\ NewBlock.start = prog.funcs[cur].last + 1
           /\ pos + 1 = prog.funcs[cur].last
    <3>1. CASE Imm = "cut"
      <4>1. pos \in prog.funcs[cur].first..(prog.funcs[cur].last - 1)
        BY <2>2
      <4>2. pos = prog.funcs[cur].last - 1
        BY <3>1, <4>1 DEF TypeOK, IsProgram, Funcs, Imm
      <4>3. NewBlock.start = prog.funcs[cur].last + 1
        BY <3>1 DEF NewBlock, Behind, Imm
      <4> QED  BY <2>2, <4>2, <4>3
    <3> QED  BY <3>1 DEF NewBlock, Behind, Imm
  <2> QED  BY <1>1, <2>1, <2>3, <2>4 DEF InBody
<1>4. \A i \in 1..Len(desc') : InBody(desc'[i])
  <2>1. \A i \in 1..Len(desc) : InBody(desc[i])
    BY InBodyEach
  <2>2. \A i \in 1..Len(desc') : i \in 1..Len(desc) \/ i = Len(desc) + 1
    BY <1>2
  <2> QED  BY <1>2, <1>3, <2>1, <2>2
<1>5. BlocksInBody'
  BY <1>1, <1>4 DEF InBody, BlocksInBody, Funcs
<1>6. \A m \in 1..Len(iftmp) :
         iftmp[m] \in 1..Len(desc) /\ desc'[iftmp[m]].fn = cur
  BY <1>2, Typed DEF IfsOfBody
<1>7. IfsOfBody'
  <2>1. CASE iftmp' = iftmp
    BY <1>1, <1>6, <2>1 DEF IfsOfBody
  <2>2. CASE iftmp' = Append(iftmp, Len(desc) + 1)
    <3>1. /\ Len(iftmp') = Len(iftmp) + 1 /\ Len(iftmp) \in Nat
          /\ \A m \in 1..Len(iftmp) : iftmp'[m] = iftmp[m]
          /\ iftmp'[Len(iftmp) + 1] = Len(desc) + 1
      <4>1. iftmp \in Seq(Nat) /\ Len(desc) + 1 \in Nat
        <5>1. 1..Len(desc) \subseteq Nat
          OBVIOUS
        <5> QED  BY <1>2, <5>1, SeqMonotonic DEF TypeOK
      <4> QED  BY <2>2, <4>1, AppendProperties
    <3>2. \A m \in 1..Len(iftmp') : m \in 1..Len(iftmp) \/ m = Len(iftmp) + 1
      BY <3>1
    <3>3. desc'[Len(desc) + 1].fn = cur
      BY <1>2 DEF NewBlock
    <3> QED  BY <1>1, <1>6, <3>1, <3>2, <3>3 DEF IfsOfBody
  <2> QED  BY <2>1, <2>2
<1> QED  BY <1>5, <1>7

\* One block of the body is written to, and iftmp loses entries at most.
LEMMA AddressesWritten ==
    ASSUME TypeOK, BlocksInBody, IfsOfBody,
           UNCHANGED <<prog, cur>>,
           NEW k \in 1..Len(desc), NEW b, InBody(b), b.fn = desc[k].fn,
           desc' = [desc EXCEPT ![k] = b],
           Len(iftmp') <= Len(iftmp), Len(iftmp') \in Nat,
           \A m \in 1..Len(iftmp') : iftmp'[m] = iftmp[m]
    PROVE  BlocksInBody' /\ IfsOfBody'
<1>1. prog' = prog /\ cur' = cur /\ desc \in Seq(Block)
  BY DEF TypeOK
<1>2. /\ Len(desc') = Len(desc)
      /\ \A i \in 1..Len(desc) : desc'[i] = IF i = k THEN b ELSE desc[i]
  BY <1>1
<1>3. \A i \in 1..Len(desc') : InBody(desc'[i])
  BY <1>2, InBodyEach
<1>4. BlocksInBody'
  BY <1>1, <1>3 DEF InBody, BlocksInBody, Funcs
<1>5. \A m \in 1..Len(iftmp') : m \in 1..Len(iftmp)
  BY Typed
<1>6. \A i \in 1..Len(desc) : desc'[i].fn = desc[i].fn
  BY <1>2
<1>7. \A m \in 1..Len(iftmp) : iftmp[m] \in 1..Len(desc)
  BY Typed
<1> QED  BY <1>1, <1>4, <1>5, <1>6, <1>7 DEF IfsOfBody

\* consume_else and consume_end write addresses of the body they stand in.
LEMMA BranchInBody ==
    ASSUME TypeOK, StartsOrdered, BlocksInBody,
           NEW k \in 1..Len(desc), desc[k].fn = cur,
           pos < prog.funcs[cur].last
    PROVE  /\ InBody([desc[k] EXCEPT !.els = pos + 1])
           /\ InBody(Closed(desc[k], pos + 1))
<1> DEFINE d == desc[k]
           last == prog.funcs[cur].last
           x == [d EXCEPT !.els = pos + 1]
           y == Closed(d, pos + 1)
<1>1. /\ d \in Block /\ d.open \in Nat /\ d.els \in Nat /\ d.end \in Nat
      /\ pos \in Nat /\ last \in Nat
  BY Typed
<1>2. d.open <= pos /\ d.fn = cur /\ pos < last
  BY DEF StartsOrdered, Ids
<1>3. InBody(d)
  BY InBodyEach
<1>4. /\ x.fn = d.fn /\ x.open = d.open /\ x.end = d.end /\ x.els = pos + 1
      /\ y.fn = d.fn /\ y.open = d.open /\ y.end = pos + 1
      /\ y.els = IF d.els = 0 THEN pos + 1 ELSE d.els
      /\ x.start = d.start /\ y.start = d.start
  BY <1>1 DEF Block, Closed
<1> HIDE DEF d, x, y, last
<1>5. pos + 1 \in (d.open + 1)..last /\ pos + 1 # 0
  BY <1>1, <1>2
<1>6. /\ cur \in Funcs
      /\ d.open \in (prog.funcs[cur].first + 1)..last
      /\ d.start \in {0, d.open} \/ (d.start = last + 1 /\ d.open = last)
      /\ d.els # 0 => d.els \in (d.open + 1)..last
      /\ d.end # 0 => d.els # 0 /\ d.end \in (d.open + 1)..last
  BY <1>2, <1>3 DEF InBody, last
<1>7. InBody(x)
  BY <1>2, <1>4, <1>5, <1>6 DEF InBody, last
<1>8. InBody(y)
  BY <1>2, <1>4, <1>5, <1>6 DEF InBody, last
<1> QED  BY <1>7, <1>8 DEF x, y, d

LEMMA InitPassInv == Init => PassInv
<1> SUFFICES ASSUME Init PROVE PassInv
  OBVIOUS
<1>1. Len(desc) = 0 /\ Len(iftmp) = 0
  BY EmptySeq DEF Init
<1> QED  BY <1>1, InitTableInv DEF PassInv, BlocksInBody, IfsOfBody

LEMMA StepPassInv == PassInv /\ [Next]_vvars => PassInv'
<1> SUFFICES ASSUME PassInv, [Next]_vvars PROVE BlocksInBody' /\ IfsOfBody'
  BY StepTableInv DEF PassInv
<1>1. /\ TypeOK /\ StartsOrdered /\ OpenBlocks /\ BlocksInBody /\ IfsOfBody
  BY DEF PassInv, TableInv
<1>2. CASE ConsumePlain \/ ConsumeHole \/ AllocFails \/ UNCHANGED vvars
  <2>1. UNCHANGED <<prog, desc, cur, iftmp>>
    BY <1>2 DEF ConsumePlain, ConsumeHole, AllocFails, vvars
  <2> QED  BY <1>1, <2>1, AddressesStay
<1>3. CASE ConsumeBlock \/ ConsumeIf
  <2>1. /\ pos < prog.funcs[cur].last /\ desc' = Append(desc, NewBlock)
        /\ UNCHANGED <<prog, cur>>
        /\ iftmp' = iftmp \/ iftmp' = Append(iftmp, Len(desc) + 1)
    BY <1>3 DEF ConsumeBlock, ConsumeIf, OpenBlock, At
  <2> QED  BY <1>1, <2>1, AddressesOpened
<1>4. CASE ConsumeElse
  <2>1. CASE iftmp = << >>
    <3>1. UNCHANGED <<prog, desc, cur, iftmp>>
      BY <1>4, <2>1 DEF ConsumeElse
    <3> QED  BY <1>1, <3>1, AddressesStay
  <2>2. CASE iftmp # << >>
    <3> DEFINE k == Last(iftmp)
               b == [desc[k] EXCEPT !.els = pos + 1]
    <3>1. /\ UNCHANGED <<prog, cur>>
          /\ pos < prog.funcs[cur].last
          /\ desc' = [desc EXCEPT ![k].els = pos + 1] /\ iftmp' = Front(iftmp)
      BY <1>4, <2>2 DEF ConsumeElse, At
    <3>2. /\ Len(iftmp') = Len(iftmp) - 1 /\ Len(iftmp) \in Nat \ {0}
          /\ \A m \in 1..(Len(iftmp) - 1) : iftmp'[m] = iftmp[m]
          /\ k = iftmp[Len(iftmp)] /\ k \in 1..Len(desc)
      BY <1>1, <2>2, <3>1, FrontSeq DEF TypeOK
    <3>3. Len(iftmp) \in 1..Len(iftmp)
      BY <3>2
    <3>4. desc[k].fn = cur
      BY <1>1, <3>2, <3>3 DEF IfsOfBody
    <3>5. InBody(b)
      BY <1>1, <3>1, <3>2, <3>4, BranchInBody
    <3>6. desc' = [desc EXCEPT ![k] = b] /\ b.fn = desc[k].fn
      BY <1>1, <3>1, <3>2, Typed DEF Block
    <3>7. /\ Len(iftmp') <= Len(iftmp) /\ Len(iftmp') \in Nat
          /\ \A m \in 1..Len(iftmp') : iftmp'[m] = iftmp[m]
      BY <3>2
    <3> HIDE DEF b, k
    <3> QED  BY <1>1, <3>1, <3>2, <3>5, <3>6, <3>7, AddressesWritten
  <2> QED  BY <2>1, <2>2
<1>5. CASE ConsumeEnd
  <2>1. UNCHANGED <<prog, cur, iftmp>> /\ pos < prog.funcs[cur].last
    BY <1>5 DEF ConsumeEnd, At
  <2>2. CASE blktmp = << >>
    <3>1. UNCHANGED desc
      BY <1>5, <2>2 DEF ConsumeEnd
    <3> QED  BY <1>1, <2>1, <3>1, AddressesStay
  <2>3. CASE blktmp # << >>
    <3> DEFINE k == Last(blktmp)
               b == Closed(desc[k], pos + 1)
    <3>1. desc' = [desc EXCEPT ![k] = b]
      BY <1>5, <2>3 DEF ConsumeEnd
    <3>2. /\ Len(blktmp) \in Nat \ {0} /\ k = blktmp[Len(blktmp)]
          /\ k \in 1..Len(desc)
      BY <1>1, <2>3, FrontSeq DEF TypeOK
    <3>3. Len(blktmp) \in 1..Len(blktmp)
      BY <3>2
    <3>4. desc[k].fn = cur
      BY <1>1, <3>2, <3>3 DEF OpenBlocks
    <3>5. InBody(b)
      BY <1>1, <2>1, <3>2, <3>4, BranchInBody
    <3>6. b.fn = desc[k].fn
      BY <1>1, <3>2, Typed DEF Block, Closed
    <3>7. Len(iftmp') <= Len(iftmp) /\ Len(iftmp') \in Nat /\ iftmp' = iftmp
      BY <1>1, <2>1, Typed
    <3> HIDE DEF b, k
    <3> QED  BY <1>1, <2>1, <3>1, <3>2, <3>5, <3>6, <3>7, AddressesWritten
  <2> QED  BY <2>2, <2>3
<1>6. CASE NextFunc
  <2>1. /\ UNCHANGED <<prog, desc>>
        /\ UNCHANGED <<cur, iftmp>> \/ iftmp' = << >>
    BY <1>6 DEF NextFunc
  <2> QED  BY <1>1, <2>1, AddressesStay
<1> QED  BY <1>2, <1>3, <1>4, <1>5, <1>6 DEF Next

-----------------------------------------------------------------------------
(***************************************************************************)
(* The theorems                                                            *)
(***************************************************************************)
(* The table the validation pass builds stays well formed for every        *)
(* program and whatever allocation fails: identities in code order, open   *)
(* blocks a stack, closed blocks before the cursor, each listed once, and  *)
(* every address in the body it belongs to.                                *)
THEOREM TableCorrect == Spec => []PassInv
<1> QED  BY InitPassInv, StepPassInv, PTL DEF Spec

(* Whatever the readers make of the immediates, body.pos is in the body of *)
(* the function being visited, or one place behind its end when the body's *)
(* last cell is an immediate cut short, which the test behind the loop of  *)
(* fw_module_validate_inst is for (fw_compile.c:19); and blktmp, iftmp and *)
(* the block lists hold allocated blocks only.                             *)
THEOREM TypeCorrect == Spec => []TypeOK
<1>1. PassInv => TypeOK
  BY DEF PassInv, TableInv
<1> QED  BY <1>1, TableCorrect, PTL

(* Closed blocks of one function are disjoint or nested and not empty,     *)
(* from the address behind the opener to their end: for every program,     *)
(* with or without allocation failures.  Of els this says nothing.         *)
THEOREM Nesting == Spec => []BlocksNested
<1>1. PassInv => BlocksNested
  BY DEF PassInv, TableInv
<1> QED  BY <1>1, TableCorrect, PTL

(* fw_instr_find_blk is a lookup by key: at any moment at most one block   *)
(* of a function has a given start address and is listed, once.            *)
THEOREM Lookup == Spec => []FindBlkUnique
<1>1. PassInv => FindBlkUnique
  BY TableIsKeyed
<1> QED  BY <1>1, TableCorrect, PTL

(* fw_instr_run_if never jumps out of the function it runs in: both        *)
(* branches of every block lie in its body, whichever `else' set them.     *)
THEOREM BranchesInside == Spec => []BlocksInBody
<1>1. PassInv => BlocksInBody
  BY DEF PassInv
<1> QED  BY <1>1, TableCorrect, PTL

-----------------------------------------------------------------------------
(***************************************************************************)
(* Counting the cells of a body                                            *)
(***************************************************************************)
LEMMA CountType ==
    ASSUME NEW ops, NEW a \in Nat, NEW b \in Int
    PROVE  Count(ops, a, b) \in Nat
<1> DEFINE S == {i \in a..b : prog.code[i].op \in ops}
<1>1. IsFiniteSet(a..b) /\ S \in SUBSET (a..b)
  BY FS_Interval
<1>2. Cardinality(S) \in Nat
  BY <1>1, FS_Subset, FS_CardinalityType
<1> QED  BY <1>2 DEF Count

LEMMA CountNone ==
    ASSUME NEW ops, NEW a \in Nat
    PROVE  Count(ops, a, a - 1) = 0
<1>1. {i \in a..(a - 1) : prog.code[i].op \in ops} = {}
  OBVIOUS
<1> QED  BY <1>1, FS_EmptySet DEF Count

\* One cell more.
LEMMA CountNext ==
    ASSUME NEW ops, NEW a \in Nat, NEW b \in Nat, a <= b
    PROVE  Count(ops, a, b)
             = Count(ops, a, b - 1) + (IF prog.code[b].op \in ops THEN 1 ELSE 0)
<1> DEFINE S == {i \in a..(b - 1) : prog.code[i].op \in ops}
           T == {i \in a..b : prog.code[i].op \in ops}
<1>1. IsFiniteSet(S) /\ Cardinality(S) \in Nat
  <2>1. IsFiniteSet(a..(b - 1)) /\ S \in SUBSET (a..(b - 1))
    <3>1. b - 1 \in Int
      OBVIOUS
    <3> QED  BY <3>1, FS_Interval
  <2>2. IsFiniteSet(S)
    BY <2>1, FS_Subset
  <2> QED  BY <2>2, FS_CardinalityType
<1>2. \A i \in a..b : i \in a..(b - 1) \/ i = b
  OBVIOUS
<1>3. b \in a..b /\ b \notin a..(b - 1) /\ a..(b - 1) \subseteq a..b
  OBVIOUS
<1>4. CASE prog.code[b].op \in ops
  <2>1. T = S \cup {b} /\ b \notin S
    BY <1>2, <1>3, <1>4
  <2> HIDE DEF S, T
  <2>2. Cardinality(T) = Cardinality(S) + 1
    BY <1>1, <2>1, FS_AddElement
  <2> QED  BY <1>4, <2>2 DEF Count, S, T
<1>5. CASE prog.code[b].op \notin ops
  <2>1. T = S
    BY <1>2, <1>3, <1>5
  <2> HIDE DEF S, T
  <2>2. Cardinality(T) = Cardinality(S) + 0
    BY <1>1, <2>1
  <2> QED  BY <1>5, <2>2 DEF Count, S, T
<1> QED  BY <1>4, <1>5

-----------------------------------------------------------------------------
(***************************************************************************)
(* What OpenDepth, OpenKept and ClosedRight say of one block               *)
(***************************************************************************)
Open(b, p, n) ==
    /\ Count(Openers, b.open, p - 1) = Count({"end"}, b.open, p - 1) + n
    /\ \A e \in ClosersOf(b.fn, b.open) : p <= e

NeverClosed(b) == ClosersOf(b.fn, b.open) = {}

ClosedAt(b, end) ==
    /\ end - 1 \in ClosersOf(b.fn, b.open)
    /\ \A e \in ClosersOf(b.fn, b.open) : end - 1 <= e

LEMMA CountedEach ==
    /\ OpenDepth <=> \A m \in 1..Len(blktmp) :
                         Open(desc[blktmp[m]], Reached, Len(blktmp) - m)
    /\ OpenKept <=> \A i \in 1..Len(desc) : desc[i].end = 0 =>
                        IF desc[i].fn = cur
                        THEN \E m \in 1..Len(blktmp) : blktmp[m] = i
                        ELSE NeverClosed(desc[i])
    /\ ClosedRight <=> \A i \in 1..Len(desc) : desc[i].end # 0 =>
                           ClosedAt(desc[i], desc[i].end)
BY DEF OpenDepth, OpenKept, ClosedRight, Open, NeverClosed, ClosedAt, Ids

\* The same of the next state, when the code does not change.
LEMMA CountedNext ==
    ASSUME prog' = prog
    PROVE  /\ (\A m \in 1..Len(blktmp') :
                  Open(desc'[blktmp'[m]], Reached', Len(blktmp') - m)) => OpenDepth'
           /\ (\A i \in 1..Len(desc') : desc'[i].end = 0 =>
                  IF desc'[i].fn = cur'
                  THEN \E m \in 1..Len(blktmp') : blktmp'[m] = i
                  ELSE NeverClosed(desc'[i])) => OpenKept'
           /\ (\A i \in 1..Len(desc') : desc'[i].end # 0 =>
                  ClosedAt(desc'[i], desc'[i].end)) => ClosedRight'
<1>1. \A ops, a, b : Count(ops, a, b)' = Count(ops, a, b)
  BY DEF Count
<1>2. \A f, x : ClosersOf(f, x)' = ClosersOf(f, x)
  BY <1>1 DEF ClosersOf
<1>3. ASSUME \A m \in 1..Len(blktmp') :
                Open(desc'[blktmp'[m]], Reached', Len(blktmp') - m)
      PROVE  OpenDepth'
  BY <1>1, <1>2, <1>3 DEF OpenDepth, Open
<1>4. ASSUME \A i \in 1..Len(desc') : desc'[i].end = 0 =>
                IF desc'[i].fn = cur'
                THEN \E m \in 1..Len(blktmp') : blktmp'[m] = i
                ELSE NeverClosed(desc'[i])
      PROVE  OpenKept'
  BY <1>2, <1>4 DEF OpenKept, NeverClosed, Ids
<1>5. ASSUME \A i \in 1..Len(desc') : desc'[i].end # 0 =>
                ClosedAt(desc'[i], desc'[i].end)
      PROVE  ClosedRight'
  BY <1>2, <1>5 DEF ClosedRight, ClosedAt, Ids
<1> QED  BY <1>3, <1>4, <1>5

\* They look at the function and the start of a block only.
LEMMA SameBlock ==
    ASSUME NEW b, NEW d, d.fn = b.fn, d.open = b.open
    PROVE  /\ \A p, n : Open(b, p, n) => Open(d, p, n)
           /\ NeverClosed(b) => NeverClosed(d)
           /\ \A e : ClosedAt(b, e) => ClosedAt(d, e)
BY DEF Open, NeverClosed, ClosedAt

(* The cursor goes over one cell: an opener adds an entry behind the block *)
(* in blktmp, an `end' takes one away, and when there is none it is the    *)
(* `end' of the block.                                                     *)
LEMMA OpenAdvances ==
    ASSUME NEW b, NEW p \in Nat, NEW n \in Nat, b.open \in Nat, b.open <= p,
           Open(b, p, n)
    PROVE  /\ prog.code[p].op \notin Openers \cup {"end"} => Open(b, p + 1, n)
           /\ prog.code[p].op \in Openers => Open(b, p + 1, n + 1)
           /\ prog.code[p].op = "end" /\ n # 0 => Open(b, p + 1, n - 1)
           /\ prog.code[p].op = "end" /\ n = 0 /\ p < prog.funcs[b.fn].last
                /\ prog.funcs[b.fn].last \in Nat
                => ClosedAt(b, p + 1)
<1> DEFINE s == b.open
           o == Count(Openers, s, p - 1)
           c == Count({"end"}, s, p - 1)
           C == ClosersOf(b.fn, s)
<1>1. o \in Nat /\ c \in Nat /\ o = c + n /\ \A e \in C : p <= e
  BY CountType DEF Open
<1>2. /\ Count(Openers, s, p) = o + (IF prog.code[p].op \in Openers THEN 1 ELSE 0)
      /\ Count({"end"}, s, p) = c + (IF prog.code[p].op \in {"end"} THEN 1 ELSE 0)
  BY CountNext
<1>3. p + 1 - 1 = p
  OBVIOUS
<1>4. "end" \notin Openers
  BY DEF Openers
<1>5. \A e \in C : e \in Int
  <2>1. C \subseteq s..(prog.funcs[b.fn].last - 1)
    BY DEF ClosersOf
  <2> QED  BY <2>1
<1>6. p \in C => /\ prog.code[p].op = "end"
                 /\ Count(Openers, s, p) = Count({"end"}, s, p) - 1
  BY DEF ClosersOf
<1> HIDE DEF C
<1>7. p \notin C => \A e \in C : p + 1 <= e
  <2>1. \A e \in C : p <= e /\ e \in Int
    BY <1>1, <1>5
  <2> HIDE <1>1, <1>2, <1>5, <1>6
  <2> QED  BY <2>1
<1>8. ASSUME p \notin C, NEW k, Count(Openers, s, p) = Count({"end"}, s, p) + k
      PROVE  Open(b, p + 1, k)
  BY <1>3, <1>7, <1>8 DEF Open, C
<1>9. ASSUME prog.code[p].op \notin Openers \cup {"end"} PROVE Open(b, p + 1, n)
  <2>1. p \notin C
    BY <1>6, <1>9
  <2>2. Count(Openers, s, p) = Count({"end"}, s, p) + n
    BY <1>1, <1>2, <1>9
  <2> QED  BY <1>8, <2>1, <2>2
<1>10. ASSUME prog.code[p].op \in Openers PROVE Open(b, p + 1, n + 1)
  <2>1. p \notin C
    BY <1>4, <1>6, <1>10
  <2>2. Count(Openers, s, p) = Count({"end"}, s, p) + (n + 1)
    BY <1>1, <1>2, <1>4, <1>10
  <2> QED  BY <1>8, <2>1, <2>2
<1>11. ASSUME prog.code[p].op = "end", n # 0 PROVE Open(b, p + 1, n - 1)
  <2>1. Count(Openers, s, p) = o /\ Count({"end"}, s, p) = c + 1
    BY <1>1, <1>2, <1>4, <1>11
  <2> HIDE DEF o, c
  <2>2. Count(Openers, s, p) = Count({"end"}, s, p) + (n - 1)
    BY <1>1, <2>1
  <2>3. p \notin C
    BY <1>1, <1>6, <1>11, <2>1
  <2> QED  BY <1>8, <2>2, <2>3
<1>12. ASSUME prog.code[p].op = "end", n = 0, p < prog.funcs[b.fn].last,
              prog.funcs[b.fn].last \in Nat
       PROVE  ClosedAt(b, p + 1)
  <2>1. Count(Openers, s, p) = o /\ Count({"end"}, s, p) = c + 1
    BY <1>1, <1>2, <1>4, <1>12
  <2> HIDE DEF o, c
  <2>2. Count(Openers, s, p) = Count({"end"}, s, p) - 1
    BY <1>1, <1>12, <2>1
  <2>3. p \in s..(prog.funcs[b.fn].last - 1)
    BY <1>12
  <2>4. p \in C
    BY <1>12, <2>2, <2>3 DEF ClosersOf, C
  <2> QED  BY <1>1, <1>3, <2>4 DEF ClosedAt, C
<1> QED  BY <1>9, <1>10, <1>11, <1>12

LEMMA OpenBegins ==
    ASSUME NEW b, b.open \in Nat, prog.funcs[b.fn].last \in Nat
    PROVE  Open(b, b.open, 0)
<1>1. /\ Count(Openers, b.open, b.open - 1) = 0
      /\ Count({"end"}, b.open, b.open - 1) = 0
  BY CountNone
<1>2. \A e \in ClosersOf(b.fn, b.open) : b.open <= e
  BY DEF ClosersOf
<1> QED  BY <1>1, <1>2 DEF Open

-----------------------------------------------------------------------------
(***************************************************************************)
(* The lists step by step                                                  *)
(***************************************************************************)
ListsRight == OpenDepth /\ OpenKept /\ ClosedRight

\* A cell that opens and closes no block: `else' writes els, others nothing.
LEMMA ListsStay ==
    ASSUME TableInv, ListsRight,
           prog' = prog, cur' = cur, blktmp' = blktmp,
           \/ Reached' = Reached
           \/ /\ Reached = pos /\ Reached' = pos + 1
              /\ blktmp # << >> => prog.code[pos].op \notin Openers \cup {"end"},
           Len(desc') = Len(desc),
           \A i \in 1..Len(desc) : /\ desc'[i].fn = desc[i].fn
                                   /\ desc'[i].open = desc[i].open
                                   /\ desc'[i].end = desc[i].end
    PROVE  ListsRight'
<1>1. TypeOK /\ StartsOrdered /\ OpenBlocks
  BY DEF TableInv
<1>2. /\ Len(blktmp) \in Nat /\ pos \in Nat
      /\ \A m \in 1..Len(blktmp) : blktmp[m] \in 1..Len(desc)
      /\ \A i \in 1..Len(desc) : desc[i].open \in Nat
  BY <1>1, Typed
<1>3. OpenDepth'
  <2> SUFFICES ASSUME NEW m \in 1..Len(blktmp)
               PROVE  Open(desc'[blktmp[m]], Reached', Len(blktmp) - m)
    BY CountedNext
  <2> DEFINE b == desc[blktmp[m]]
  <2>1. /\ Open(b, Reached, Len(blktmp) - m) /\ b.open \in Nat /\ b.open <= pos
        /\ Len(blktmp) - m \in Nat /\ blktmp # << >>
    <3>1. b.fn = cur
      BY <1>1 DEF OpenBlocks
    <3>2. b.open <= pos
      BY <1>1, <1>2, <3>1 DEF StartsOrdered, Ids
    <3>3. blktmp # << >>
      BY EmptySeq
    <3> QED  BY <1>2, <3>2, <3>3, CountedEach DEF ListsRight
  <2>2. Open(b, Reached', Len(blktmp) - m)
    <3> HIDE DEF b
    <3>1. CASE Reached' = Reached
      BY <2>1, <3>1
    <3>2. CASE /\ Reached = pos /\ Reached' = pos + 1
               /\ prog.code[pos].op \notin Openers \cup {"end"}
      BY <1>2, <2>1, <3>2, OpenAdvances
    <3> QED  BY <2>1, <3>1, <3>2
  <2>3. desc'[blktmp[m]].fn = b.fn /\ desc'[blktmp[m]].open = b.open
    BY <1>2
  <2> HIDE DEF b
  <2> QED  BY <2>2, <2>3, SameBlock
<1>4. OpenKept'
  <2>1. ASSUME NEW i \in 1..Len(desc), desc'[i].end = 0
        PROVE  IF desc'[i].fn = cur
               THEN \E m \in 1..Len(blktmp) : blktmp[m] = i
               ELSE NeverClosed(desc'[i])
    BY <2>1, CountedEach, SameBlock DEF ListsRight
  <2> QED  BY <2>1, CountedNext
<1>5. ClosedRight'
  <2>1. ASSUME NEW i \in 1..Len(desc), desc'[i].end # 0
        PROVE  ClosedAt(desc'[i], desc'[i].end)
    BY <2>1, CountedEach, SameBlock DEF ListsRight
  <2> QED  BY <2>1, CountedNext
<1> QED  BY <1>3, <1>4, <1>5 DEF ListsRight

\* consume_block and consume_if.
LEMMA ListsOpened ==
    ASSUME TableInv, ListsRight,
           prog' = prog, cur' = cur,
           Reached = pos, Reached' = pos + 1, prog.code[pos].op \in Openers,
           desc' = Append(desc, NewBlock),
           blktmp' = Append(blktmp, Len(desc) + 1)
    PROVE  ListsRight'
<1>1. TypeOK /\ StartsOrdered /\ OpenBlocks
  BY DEF TableInv
<1>2. /\ Len(blktmp) \in Nat /\ pos \in Nat /\ Len(desc) \in Nat
      /\ prog.funcs[cur].last \in Nat
      /\ \A m \in 1..Len(blktmp) : blktmp[m] \in 1..Len(desc)
      /\ \A i \in 1..Len(desc) : desc[i].open \in Nat
  BY <1>1, Typed
<1>3. /\ Len(desc') = Len(desc) + 1
      /\ \A i \in 1..Len(desc) : desc'[i] = desc[i]
      /\ desc'[Len(desc) + 1] = NewBlock
  <2>1. desc \in Seq(Block) /\ NewBlock \in Block
    BY <1>1, NewBlockType DEF TypeOK
  <2> HIDE DEF NewBlock
  <2> QED  BY <2>1, AppendProperties
<1>4. /\ Len(blktmp') = Len(blktmp) + 1
      /\ \A m \in 1..Len(blktmp) : blktmp'[m] = blktmp[m]
      /\ blktmp'[Len(blktmp) + 1] = Len(desc) + 1
  <2>1. blktmp \in Seq(Nat) /\ Len(desc) + 1 \in Nat
    <3>1. 1..Len(desc) \subseteq Nat
      OBVIOUS
    <3> QED  BY <1>1, <1>2, <3>1, SeqMonotonic DEF TypeOK
  <2> QED  BY <2>1, AppendProperties
<1>5. /\ NewBlock.open = pos + 1 /\ NewBlock.fn = cur /\ NewBlock.end = 0
  BY DEF NewBlock
<1>6. /\ \A m \in 1..Len(blktmp') : m \in 1..Len(blktmp) \/ m = Len(blktmp) + 1
      /\ \A i \in 1..Len(desc') : i \in 1..Len(desc) \/ i = Len(desc) + 1
  BY <1>2, <1>3, <1>4
<1>7. OpenDepth'
  <2> SUFFICES ASSUME NEW m \in 1..Len(blktmp')
               PROVE  Open(desc'[blktmp'[m]], pos + 1, Len(blktmp') - m)
    BY CountedNext
  <2>1. CASE m = Len(blktmp) + 1
    <3>1. Len(blktmp') - m = 0 /\ desc'[blktmp'[m]] = NewBlock
      BY <1>2, <1>3, <1>4, <2>1
    <3>2. Open(NewBlock, NewBlock.open, 0)
      <4> HIDE DEF NewBlock
      <4>1. NewBlock.open \in Nat /\ prog.funcs[NewBlock.fn].last \in Nat
        BY <1>2, <1>5
      <4> HIDE <1>2, <1>3, <1>4, <1>5, <1>6
      <4> QED  BY <4>1, OpenBegins
    <3> QED  BY <1>5, <3>1, <3>2
  <2>2. CASE m \in 1..Len(blktmp)
    <3> DEFINE b == desc[blktmp[m]]
               n == Len(blktmp) - m
    <3>1. desc'[blktmp'[m]] = b /\ Len(blktmp') - m = n + 1 /\ n \in Nat
      BY <1>2, <1>3, <1>4, <2>2
    <3>2. Open(b, pos, n)
      BY <2>2, CountedEach DEF ListsRight
    <3>3. b.open \in Nat /\ b.open <= pos
      <4>1. b.fn = cur
        BY <1>1, <2>2 DEF OpenBlocks
      <4> QED  BY <1>1, <1>2, <2>2, <4>1 DEF StartsOrdered, Ids
    <3> HIDE DEF b, n
    <3>4. Open(b, pos + 1, n + 1)
      BY <1>2, <3>1, <3>2, <3>3, OpenAdvances
    <3> QED  BY <3>1, <3>4
  <2> QED  BY <1>6, <2>1, <2>2
<1>8. OpenKept'
  <2>1. ASSUME NEW i \in 1..Len(desc'), desc'[i].end = 0
        PROVE  IF desc'[i].fn = cur
               THEN \E m \in 1..Len(blktmp') : blktmp'[m] = i
               ELSE NeverClosed(desc'[i])
    <3>1. CASE i = Len(desc) + 1
      <4>1. Len(blktmp) + 1 \in 1..Len(blktmp')
        BY <1>2, <1>4
      <4> QED  BY <1>3, <1>4, <1>5, <3>1, <4>1
    <3>2. CASE i \in 1..Len(desc)
      <4>1. IF desc[i].fn = cur
            THEN \E m \in 1..Len(blktmp) : blktmp[m] = i
            ELSE NeverClosed(desc[i])
        BY <1>3, <2>1, <3>2, CountedEach DEF ListsRight
      <4>2. 1..Len(blktmp) \subseteq 1..Len(blktmp')
        BY <1>2, <1>4
      <4> QED  BY <1>3, <1>4, <3>2, <4>1, <4>2
    <3> QED  BY <1>6, <3>1, <3>2
  <2> QED  BY <2>1, CountedNext
<1>9. ClosedRight'
  <2>1. ASSUME NEW i \in 1..Len(desc'), desc'[i].end # 0
        PROVE  ClosedAt(desc'[i], desc'[i].end)
    <3>1. i \in 1..Len(desc) /\ desc'[i] = desc[i]
      BY <1>3, <1>5, <1>6, <2>1
    <3> QED  BY <2>1, <3>1, CountedEach DEF ListsRight
  <2> QED  BY <2>1, CountedNext
<1> QED  BY <1>7, <1>8, <1>9 DEF ListsRight

\* consume_end takes the innermost open block.
LEMMA ListsClosed ==
    ASSUME TableInv, ListsRight,
           prog' = prog, cur' = cur,
           Reached = pos, Reached' = pos + 1,
           pos < prog.funcs[cur].last, prog.code[pos].op = "end",
           blktmp # << >>, blktmp' = Front(blktmp),
           desc' = [desc EXCEPT ![Last(blktmp)] = Closed(@, pos + 1)]
    PROVE  ListsRight'
<1> DEFINE k == Last(blktmp)
           x == Closed(desc[k], pos + 1)
           l == Len(blktmp)
<1>1. TypeOK /\ StartsOrdered /\ OpenBlocks
  BY DEF TableInv
<1>2. /\ pos \in Nat /\ prog.funcs[cur].last \in Nat
      /\ \A m \in 1..l : blktmp[m] \in 1..Len(desc)
      /\ \A i \in 1..Len(desc) : desc[i].open \in Nat
  BY <1>1, Typed
<1>3. /\ l \in Nat \ {0} /\ Len(blktmp') = l - 1
      /\ \A m \in 1..(l - 1) : blktmp'[m] = blktmp[m]
      /\ k = blktmp[l] /\ k \in 1..Len(desc)
  BY <1>1, FrontSeq DEF TypeOK
<1>4. x.fn = desc[k].fn /\ x.open = desc[k].open /\ x.end = pos + 1
  <2>1. desc[k] \in Block
    BY <1>1, <1>3, Typed
  <2>2. \A d \in Block : /\ Closed(d, pos + 1).fn = d.fn
                         /\ Closed(d, pos + 1).open = d.open
                         /\ Closed(d, pos + 1).end = pos + 1
    BY DEF Block, Closed
  <2> QED  BY <2>1, <2>2
<1>5. /\ Len(desc') = Len(desc) /\ desc'[k] = x
      /\ \A i \in 1..Len(desc) : i # k => desc'[i] = desc[i]
  <2>1. desc' = [desc EXCEPT ![k] = x] /\ desc \in Seq(Block)
    BY <1>1 DEF TypeOK
  <2> HIDE DEF k, x
  <2> QED  BY <1>3, <2>1
<1>6. l \in 1..l /\ desc[k].fn = cur /\ desc[k].open \in Nat
      /\ desc[k].open <= pos
  <2>1. l \in 1..l
    BY <1>3
  <2>2. desc[k].fn = cur
    BY <1>1, <1>3, <2>1 DEF OpenBlocks
  <2> QED  BY <1>1, <1>2, <1>3, <2>1, <2>2 DEF StartsOrdered, Ids
<1>7. \A m \in 1..(l - 1) : m \in 1..l /\ blktmp[m] # k /\ l - m \in Nat /\ l - m # 0
  <2> SUFFICES ASSUME NEW m \in 1..(l - 1)
               PROVE  m \in 1..l /\ blktmp[m] # k /\ l - m \in Nat /\ l - m # 0
    OBVIOUS
  <2>1. m \in 1..l /\ m < l /\ l - m \in Nat /\ l - m # 0
    BY <1>3
  <2>2. blktmp[m] < k
    BY <1>1, <1>3, <1>6, <2>1 DEF OpenBlocks
  <2>3. blktmp[m] \in Nat
    BY <1>2, <2>1
  <2> QED  BY <2>1, <2>2, <2>3
<1> HIDE DEF k, x
<1>8. ClosedAt(desc[k], pos + 1)
  <2>1. Open(desc[k], pos, l - l)
    BY <1>3, <1>6, CountedEach DEF ListsRight
  <2>2. Open(desc[k], pos, 0)
    BY <1>3, <2>1
  <2> QED  BY <1>2, <1>6, <2>2, OpenAdvances
<1>9. OpenDepth'
  <2> SUFFICES ASSUME NEW m \in 1..(l - 1)
               PROVE  Open(desc'[blktmp'[m]], pos + 1, (l - 1) - m)
    BY <1>3, CountedNext
  <2> DEFINE b == desc[blktmp[m]]
             n == l - m
  <2>1. desc'[blktmp'[m]] = b /\ (l - 1) - m = n - 1 /\ n \in Nat /\ n # 0
    <3>1. blktmp'[m] = blktmp[m] /\ blktmp[m] \in 1..Len(desc) /\ blktmp[m] # k
      BY <1>2, <1>3, <1>7
    <3>2. n \in Nat /\ n # 0 /\ m \in Int
      BY <1>7
    <3>3. (l - 1) - m = n - 1
      BY <1>3, <3>2
    <3> QED  BY <1>5, <3>1, <3>2, <3>3
  <2>2. Open(b, pos, n)
    BY <1>7, CountedEach DEF ListsRight
  <2>3. b.open \in Nat /\ b.open <= pos
    <3>1. b.fn = cur /\ blktmp[m] \in 1..Len(desc)
      BY <1>1, <1>2, <1>7 DEF OpenBlocks
    <3> QED  BY <1>1, <1>2, <3>1 DEF StartsOrdered, Ids
  <2> HIDE DEF b, n
  <2>4. Open(b, pos + 1, n - 1)
    BY <1>2, <2>1, <2>2, <2>3, OpenAdvances
  <2> QED  BY <2>1, <2>4
<1>10. OpenKept'
  <2>1. ASSUME NEW i \in 1..Len(desc), desc'[i].end = 0
        PROVE  IF desc'[i].fn = cur
               THEN \E m \in 1..(l - 1) : blktmp'[m] = i
               ELSE NeverClosed(desc'[i])
    <3>1. i # k /\ desc'[i] = desc[i]
      BY <1>2, <1>4, <1>5, <2>1
    <3>2. IF desc[i].fn = cur
          THEN \E m \in 1..l : blktmp[m] = i
          ELSE NeverClosed(desc[i])
      BY <2>1, <3>1, CountedEach DEF ListsRight
    <3>3. \A m \in 1..l : blktmp[m] = i => m \in 1..(l - 1) /\ blktmp'[m] = i
      <4> SUFFICES ASSUME NEW m \in 1..l, blktmp[m] = i
                   PROVE  m \in 1..(l - 1) /\ blktmp'[m] = i
        OBVIOUS
      <4>1. m # l
        BY <1>3, <3>1
      <4>2. m \in 1..(l - 1)
        BY <1>3, <4>1
      <4> QED  BY <1>3, <4>2
    <3> QED  BY <3>1, <3>2, <3>3
  <2> QED  BY <1>3, <1>5, <2>1, CountedNext
<1>11. ClosedRight'
  <2>1. ASSUME NEW i \in 1..Len(desc), desc'[i].end # 0
        PROVE  ClosedAt(desc'[i], desc'[i].end)
    <3>1. CASE i = k
      BY <1>4, <1>5, <1>8, <3>1, SameBlock
    <3>2. CASE i # k
      BY <1>5, <2>1, <3>2, CountedEach DEF ListsRight
    <3> QED  BY <3>1, <3>2
  <2> QED  BY <1>5, <2>1, CountedNext
<1> QED  BY <1>9, <1>10, <1>11 DEF ListsRight

\* The body has ended, and with it the chances of its open blocks.
LEMMA BodyEnds ==
    ASSUME TableInv, ListsRight, pos >= prog.funcs[cur].last,
           NEW i \in 1..Len(desc), desc[i].end = 0
    PROVE  NeverClosed(desc[i])
<1>1. TypeOK /\ OpenBlocks
  BY DEF TableInv
<1>2. CASE desc[i].fn = cur
  <2>1. PICK m \in 1..Len(blktmp) : blktmp[m] = i
    BY <1>2, CountedEach DEF ListsRight
  <2>2. \A e \in ClosersOf(cur, desc[i].open) : Reached <= e
    BY <1>2, <2>1, CountedEach DEF ListsRight, Open
  <2>3. /\ Reached = prog.funcs[cur].last /\ prog.funcs[cur].last \in Nat
        /\ desc[i].open \in Nat
    BY <1>1, Typed DEF Reached
  <2>4. \A e \in ClosersOf(cur, desc[i].open) :
           e \in desc[i].open..(prog.funcs[cur].last - 1)
    BY DEF ClosersOf
  <2>5. ASSUME NEW e \in ClosersOf(cur, desc[i].open) PROVE FALSE
    <3>1. Reached <= e /\ e \in desc[i].open..(prog.funcs[cur].last - 1)
      BY <2>2, <2>4
    <3> QED  BY <2>3, <3>1
  <2> QED  BY <1>2, <2>5 DEF NeverClosed
<1>3. CASE desc[i].fn # cur
  BY <1>3, CountedEach DEF ListsRight
<1> QED  BY <1>2, <1>3

LEMMA ListsEmptied ==
    ASSUME TableInv, ListsRight, pos >= prog.funcs[cur].last,
           prog' = prog, desc' = desc, cur' = cur + 1, blktmp' = << >>
    PROVE  ListsRight'
<1>1. TypeOK /\ StartsOrdered
  BY DEF TableInv
<1>2. Len(blktmp') = 0
  BY EmptySeq
<1>3. OpenDepth'
  BY <1>2, CountedNext
<1>4. OpenKept'
  <2>1. ASSUME NEW i \in 1..Len(desc), desc[i].end = 0
        PROVE  desc[i].fn # cur + 1 /\ NeverClosed(desc[i])
    <3>1. desc[i].fn <= cur /\ desc[i].fn \in Nat /\ cur \in Nat
      BY <1>1, Typed DEF StartsOrdered, Ids
    <3> QED  BY <2>1, <3>1, BodyEnds
  <2> QED  BY <2>1, CountedNext
<1>5. ClosedRight'
  BY CountedEach, CountedNext DEF ListsRight
<1> QED  BY <1>3, <1>4, <1>5 DEF ListsRight

-----------------------------------------------------------------------------
(***************************************************************************)
(* iftmp and the cursor step by step                                       *)
(***************************************************************************)
Ifs(p) == Count({"if"}, prog.funcs[cur].first, p)

Elses(p) == Count({"else"}, prog.funcs[cur].first, p)

Takes(i) == prog.code[i].op = "if" /\ prog.code[i].imm # "refused"

LEMMA IfsTakenType ==
    ASSUME prog.funcs[cur].first \in Nat, NEW p \in Int
    PROVE  IfsTaken(p) \in Nat
<1> DEFINE S == {i \in prog.funcs[cur].first..p : Takes(i)}
<1>1. IsFiniteSet(prog.funcs[cur].first..p)
  BY FS_Interval
<1>2. S \in SUBSET (prog.funcs[cur].first..p)
  OBVIOUS
<1>3. Cardinality(S) \in Nat
  BY <1>1, <1>2, FS_Subset, FS_CardinalityType
<1> QED  BY <1>3 DEF IfsTaken, Takes

LEMMA IfsTakenNone ==
    ASSUME prog.funcs[cur].first \in Nat
    PROVE  IfsTaken(prog.funcs[cur].first - 1) = 0
<1>1. {i \in prog.funcs[cur].first..(prog.funcs[cur].first - 1) :
         prog.code[i].op = "if" /\ prog.code[i].imm # "refused"} = {}
  OBVIOUS
<1> QED  BY <1>1, FS_EmptySet DEF IfsTaken

LEMMA IfsTakenNext ==
    ASSUME prog.funcs[cur].first \in Nat, NEW b \in Nat,
           prog.funcs[cur].first <= b
    PROVE  IfsTaken(b) = IfsTaken(b - 1) + (IF Takes(b) THEN 1 ELSE 0)
<1> DEFINE a == prog.funcs[cur].first
           S == {i \in a..(b - 1) : Takes(i)}
           T == {i \in a..b : Takes(i)}
<1>0. IfsTaken(b - 1) = Cardinality(S) /\ IfsTaken(b) = Cardinality(T)
  BY DEF IfsTaken, Takes
<1>1. IsFiniteSet(S) /\ Cardinality(S) \in Nat
  <2>1. S \in SUBSET (a..(b - 1))
    OBVIOUS
  <2> HIDE DEF S, a
  <2>2. b - 1 \in Int /\ a \in Int
    BY DEF a
  <2>3. IsFiniteSet(S)
    BY <2>1, <2>2, FS_Interval, FS_Subset
  <2> QED  BY <2>3, FS_CardinalityType
<1>2. \A i \in a..b : i \in a..(b - 1) \/ i = b
  OBVIOUS
<1>3. b \in a..b /\ b \notin a..(b - 1) /\ a..(b - 1) \subseteq a..b
  OBVIOUS
<1>4. CASE Takes(b)
  <2>1. T = S \cup {b} /\ b \notin S
    BY <1>2, <1>3, <1>4
  <2> HIDE DEF S, T
  <2>2. Cardinality(T) = Cardinality(S) + 1
    BY <1>1, <2>1, FS_AddElement
  <2> QED  BY <1>0, <1>4, <2>2
<1>5. CASE ~Takes(b)
  <2>1. T = S
    BY <1>2, <1>3, <1>5
  <2> HIDE DEF S, T
  <2> QED  BY <1>0, <1>1, <1>5, <2>1
<1> QED  BY <1>4, <1>5

(* Over one cell, iftmp gains an entry with an `if' whose result type is   *)
(* read, and loses one with `else'.                                        *)
LEMMA IfsCounted ==
    ASSUME TypeOK, IfsLeft, prog' = prog, cur' = cur,
           Reached = pos, Reached' = pos + 1,
           Len(iftmp') = Len(iftmp) + (IF Takes(pos) THEN 1 ELSE 0)
                                    - (IF prog.code[pos].op \in {"else"} THEN 1 ELSE 0)
    PROVE  IfsLeft'
<1> DEFINE a == prog.funcs[cur].first
<1>1. pos \in Nat /\ a \in Nat /\ a <= pos /\ Len(iftmp) \in Nat
  BY Typed
<1>2. /\ IfsTaken(pos - 1) \in Nat /\ Elses(pos - 1) \in Nat
      /\ IfsTaken(pos - 1) = Elses(pos - 1) + Len(iftmp)
  <2>1. pos - 1 \in Int
    BY <1>1
  <2> QED  BY <1>1, <2>1, CountType, IfsTakenType DEF IfsLeft, Elses
<1>3. /\ IfsTaken(pos) = IfsTaken(pos - 1) + (IF Takes(pos) THEN 1 ELSE 0)
      /\ Elses(pos)
           = Elses(pos - 1) + (IF prog.code[pos].op \in {"else"} THEN 1 ELSE 0)
  BY <1>1, CountNext, IfsTakenNext DEF Elses
<1>4. IfsTaken(pos) = Elses(pos) + Len(iftmp')
  <2> DEFINE i == IF Takes(pos) THEN 1 ELSE 0
             e == IF prog.code[pos].op \in {"else"} THEN 1 ELSE 0
  <2>1. i \in Nat /\ e \in Nat
    OBVIOUS
  <2>2. /\ IfsTaken(pos) = IfsTaken(pos - 1) + i
        /\ Elses(pos) = Elses(pos - 1) + e
        /\ Len(iftmp') = Len(iftmp) + i - e
    BY <1>3
  <2> HIDE DEF i, e
  <2>3. \A x, y, l, m, n \in Nat : x = y + l => x + m = (y + n) + (l + m - n)
    OBVIOUS
  <2>4. IfsTaken(pos - 1) + i = (Elses(pos - 1) + e) + (Len(iftmp) + i - e)
    BY <1>1, <1>2, <2>1, <2>3
  <2> QED  BY <2>2, <2>4
<1>5. Reached' - 1 = pos
  BY <1>1
<1>6. /\ \A ops, x, y : Count(ops, x, y)' = Count(ops, x, y)
      /\ \A x : IfsTaken(x)' = IfsTaken(x)
  BY DEF Count, IfsTaken
<1>7. IfsTaken(Reached' - 1) = Count({"else"}, a, Reached' - 1) + Len(iftmp')
  BY <1>4, <1>5 DEF Elses
<1> QED  BY <1>6, <1>7 DEF IfsLeft

LEMMA IfsStay ==
    ASSUME IfsLeft, UNCHANGED <<prog, cur, pos, iftmp>>
    PROVE  IfsLeft' /\ Reached' = Reached
BY DEF IfsLeft, Count, IfsTaken, Reached

LEMMA IfsEmptied ==
    ASSUME TypeOK, prog' = prog, cur' \in Funcs, pos' = prog.funcs[cur'].first,
           iftmp' = << >>
    PROVE  IfsLeft'
<1> DEFINE a == prog.funcs[cur'].first
<1>1. a \in Nat /\ a <= prog.funcs[cur'].last /\ prog.funcs[cur'].last \in Nat
  <2>1. IsProgram(prog) /\ Len(prog.code) \in Nat
    BY LenProperties DEF TypeOK, IsProgram
  <2>2. a \in 1..(Len(prog.code) + 1)
    BY <2>1 DEF IsProgram, Funcs
  <2>3. prog.funcs[cur'].last \in a..(Len(prog.code) + 1)
    BY <2>1 DEF IsProgram, Funcs
  <2> QED  BY <2>1, <2>2, <2>3
<1>2. Reached' = a
  BY <1>1 DEF Reached
<1>3. Count({"else"}, a, a - 1) = 0
  BY <1>1, CountNone
<1>4. Len(iftmp') = 0
  BY EmptySeq
<1>5. {i \in a..(a - 1) :
         prog.code[i].op = "if" /\ prog.code[i].imm # "refused"} = {}
  BY <1>1
<1>6. IfsLeft' <=> Cardinality({i \in a..(Reached' - 1) :
                         prog.code[i].op = "if" /\ prog.code[i].imm # "refused"})
                      = Count({"else"}, a, Reached' - 1) + Len(iftmp')
  BY DEF IfsLeft, IfsTaken, Count
<1>7. Cardinality({i \in a..(a - 1) :
           prog.code[i].op = "if" /\ prog.code[i].imm # "refused"}) = 0
  BY <1>5, FS_EmptySet
<1>8. Reached' - 1 = a - 1 /\ 0 = 0 + 0
  BY <1>2
<1> HIDE DEF a
<1> QED  BY <1>3, <1>4, <1>6, <1>7, <1>8, Zenon

LEMMA InitCountInv == Init => CountInv
<1> SUFFICES ASSUME Init PROVE CountInv
  OBVIOUS
<1>1. TypeOK /\ Len(desc) = 0 /\ Len(blktmp) = 0 /\ Len(iftmp) = 0
  BY InitTableInv, EmptySeq DEF Init, TableInv
<1>2. OpenDepth /\ OpenKept /\ ClosedRight
  BY <1>1 DEF OpenDepth, OpenKept, ClosedRight, Ids
<1>3. IfsLeft
  <2>1. prog.funcs[cur].first \in Nat /\ pos = prog.funcs[cur].first
    BY <1>1, Typed DEF Init
  <2>2. Reached = pos
    <3>1. IsProgram(prog) /\ 1 \in Funcs
      BY <1>1 DEF TypeOK, Init
    <3>2. prog.funcs[1].last \in prog.funcs[1].first..(Len(prog.code) + 1)
      BY <3>1 DEF IsProgram, Funcs
    <3> QED  BY <2>1, <3>2 DEF Init, Reached
  <2>3. /\ IfsTaken(pos - 1) = 0
        /\ Count({"else"}, pos, pos - 1) = 0
    BY <2>1, CountNone, IfsTakenNone
  <2> QED  BY <1>1, <2>1, <2>2, <2>3 DEF IfsLeft
<1>4. StopsWhere
  BY DEF Init, StopsWhere
<1> QED  BY <1>2, <1>3, <1>4 DEF CountInv

\* Every handler, and the loop around them, when no allocation fails.
LEMMA StepCountInv ==
    ASSUME ~AllocMayFail, TableInv, CountInv, [Next]_vvars
    PROVE  CountInv'
<1>1. /\ TypeOK /\ ListsRight /\ IfsLeft /\ StopsWhere
  BY DEF TableInv, CountInv, ListsRight
<1>2. SUFFICES ListsRight' /\ IfsLeft' /\ StopsWhere'
  BY DEF CountInv, ListsRight
<1>3. /\ pos \in Nat /\ Len(iftmp) \in Nat /\ prog.funcs[cur].last \in Nat
  BY <1>1, Typed
<1>4. "end" \notin Openers /\ "else" \notin Openers /\ "if" \in Openers
  BY DEF Openers
<1>5. CASE ConsumePlain
  <2>1. /\ prog' = prog /\ desc' = desc /\ cur' = cur /\ blktmp' = blktmp
        /\ iftmp' = iftmp /\ Moved /\ vphase' = "validating"
        /\ prog.code[pos].op \in Plain /\ pos < prog.funcs[cur].last
    BY <1>5 DEF ConsumePlain, At
  <2>2. prog.code[pos].op \notin Openers \cup {"end"}
        /\ prog.code[pos].op # "if" /\ prog.code[pos].op # "else"
    BY <1>4, <2>1 DEF Plain
  <2>5. Reached = pos /\ Reached' = pos + 1
    BY <1>1, <2>1, Forwards
  <2>3. ListsRight'
    BY <1>1, <2>1, <2>2, <2>5, ListsStay
  <2>4. IfsLeft'
    BY <1>1, <1>3, <2>1, <2>2, <2>5, IfsCounted DEF Takes
  <2> QED  BY <2>1, <2>3, <2>4 DEF StopsWhere
<1>6. CASE ConsumeHole
  <2>1. /\ prog' = prog /\ desc' = desc /\ cur' = cur /\ blktmp' = blktmp
        /\ iftmp' = iftmp /\ pos' = pos /\ vphase' = "crash"
        /\ prog.code[pos].op = "hole" /\ pos < prog.funcs[cur].last
    BY <1>6 DEF ConsumeHole, At
  <2>2. ListsRight' /\ IfsLeft'
    BY <1>1, <2>1, ListsStay, IfsStay
  <2> QED  BY <2>1, <2>2 DEF StopsWhere
<1>7. CASE ConsumeBlock
  <2>1. /\ prog' = prog /\ cur' = cur /\ iftmp' = iftmp /\ Moved
        /\ desc' = Append(desc, NewBlock) /\ blktmp' = Append(blktmp, Len(desc) + 1)
        /\ vphase' = "validating" /\ prog.code[pos].op \in {"block", "loop"}
        /\ pos < prog.funcs[cur].last
    BY <1>7 DEF ConsumeBlock, OpenBlock, At
  <2>4. Reached = pos /\ Reached' = pos + 1
    BY <1>1, <2>1, Forwards
  <2>2. ListsRight'
    BY <1>1, <2>1, <2>4, ListsOpened DEF Openers
  <2>3. IfsLeft'
    BY <1>1, <1>3, <2>1, <2>4, IfsCounted DEF Takes
  <2> QED  BY <2>1, <2>2, <2>3 DEF StopsWhere
<1>8. CASE ConsumeIf
  <2>1. /\ prog' = prog /\ cur' = cur /\ Moved
        /\ iftmp' = IF Imm = "refused" THEN iftmp ELSE Append(iftmp, Len(desc) + 1)
        /\ desc' = Append(desc, NewBlock) /\ blktmp' = Append(blktmp, Len(desc) + 1)
        /\ vphase' = "validating" /\ prog.code[pos].op = "if"
        /\ pos < prog.funcs[cur].last
    BY <1>8 DEF ConsumeIf, OpenBlock, At
  <2>5. Reached = pos /\ Reached' = pos + 1
    BY <1>1, <2>1, Forwards
  <2>2. ListsRight'
    BY <1>1, <1>4, <2>1, <2>5, ListsOpened
  <2>3. Len(iftmp') = Len(iftmp) + (IF Takes(pos) THEN 1 ELSE 0)
    <3>1. iftmp \in Seq(Nat) /\ Len(desc) + 1 \in Nat
      <4>1. 1..Len(desc) \subseteq Nat
        OBVIOUS
      <4> QED  BY <1>1, <4>1, SeqMonotonic, Typed DEF TypeOK
    <3>2. Len(Append(iftmp, Len(desc) + 1)) = Len(iftmp) + 1
      BY <3>1, AppendProperties
    <3> QED  BY <1>3, <2>1, <3>2 DEF Takes, Imm
  <2>4. IfsLeft'
    <3>1. Len(iftmp') = Len(iftmp) + (IF Takes(pos) THEN 1 ELSE 0) - 0
      BY <1>3, <2>3
    <3> QED  BY <1>1, <2>1, <2>5, <3>1, IfsCounted
  <2> QED  BY <2>1, <2>2, <2>4 DEF StopsWhere
<1>9. CASE ConsumeElse
  <2>1. /\ prog' = prog /\ cur' = cur /\ blktmp' = blktmp
        /\ prog.code[pos].op = "else" /\ pos < prog.funcs[cur].last
        /\ vphase = "validating"
    BY <1>9 DEF ConsumeElse, At
  <2>2. CASE iftmp = << >>
    <3>1. desc' = desc /\ iftmp' = iftmp /\ pos' = pos /\ vphase' = "corrupt"
      BY <1>9, <2>2 DEF ConsumeElse
    <3>2. ListsRight' /\ IfsLeft'
      BY <1>1, <2>1, <3>1, ListsStay, IfsStay
    <3> QED  BY <2>1, <2>2, <3>1, <3>2 DEF StopsWhere
  <2>3. CASE iftmp # << >>
    <3> DEFINE k == Last(iftmp)
    <3>1. /\ desc' = [desc EXCEPT ![k].els = pos + 1] /\ iftmp' = Front(iftmp)
          /\ pos' = pos + 1 /\ vphase' = "validating"
      BY <1>9, <2>1, <2>3 DEF ConsumeElse
    <3>6. Reached = pos /\ Reached' = pos + 1
      BY <1>1, <2>1, <3>1, Forwards
    <3>2. /\ Len(iftmp') = Len(iftmp) - 1 /\ k \in 1..Len(desc)
      BY <1>1, <2>3, <3>1, FrontSeq DEF TypeOK
    <3>3. /\ Len(desc') = Len(desc)
          /\ \A i \in 1..Len(desc) : /\ desc'[i].fn = desc[i].fn
                                     /\ desc'[i].open = desc[i].open
                                     /\ desc'[i].end = desc[i].end
      <4>1. desc \in Seq(Block) /\ desc[k] \in Block
        BY <1>1, <3>2, Typed DEF TypeOK
      <4>2. desc' = [desc EXCEPT ![k] = [desc[k] EXCEPT !.els = pos + 1]]
        BY <3>1
      <4> DEFINE x == [desc[k] EXCEPT !.els = pos + 1]
      <4>3. x.fn = desc[k].fn /\ x.open = desc[k].open /\ x.end = desc[k].end
        BY <4>1 DEF Block
      <4> HIDE DEF k, x
      <4>4. /\ Len(desc') = Len(desc)
            /\ \A i \in 1..Len(desc) : desc'[i] = IF i = k THEN x ELSE desc[i]
        BY <3>2, <4>1, <4>2 DEF x
      <4> QED  BY <4>3, <4>4
    <3>4. ListsRight'
      BY <1>1, <1>4, <2>1, <3>1, <3>3, <3>6, ListsStay
    <3>5. IfsLeft'
      <4>1. Len(iftmp') = Len(iftmp) + 0 - 1
        BY <1>3, <3>2
      <4> QED  BY <1>1, <2>1, <3>1, <3>6, <4>1, IfsCounted DEF Takes
    <3> QED  BY <3>1, <3>4, <3>5 DEF StopsWhere
  <2> QED  BY <2>2, <2>3
<1>10. CASE ConsumeEnd
  <2>1. /\ prog' = prog /\ cur' = cur /\ iftmp' = iftmp /\ pos' = pos + 1
        /\ vphase' = "validating"
        /\ prog.code[pos].op = "end" /\ pos < prog.funcs[cur].last
    BY <1>10 DEF ConsumeEnd, At
  <2>5. Reached = pos /\ Reached' = pos + 1
    BY <1>1, <2>1, Forwards
  <2>2. IfsLeft'
    BY <1>1, <1>3, <2>1, <2>5, IfsCounted DEF Takes
  <2>3. CASE blktmp = << >>
    <3>1. desc' = desc /\ blktmp' = blktmp
      BY <1>10, <2>3 DEF ConsumeEnd
    <3>2. ListsRight'
      BY <1>1, <2>1, <2>3, <2>5, <3>1, ListsStay
    <3> QED  BY <2>1, <2>2, <3>2 DEF StopsWhere
  <2>4. CASE blktmp # << >>
    <3>1. /\ desc' = [desc EXCEPT ![Last(blktmp)] = Closed(@, pos + 1)]
          /\ blktmp' = Front(blktmp)
      BY <1>10, <2>4 DEF ConsumeEnd
    <3>2. ListsRight'
      BY <1>1, <2>1, <2>4, <2>5, <3>1, ListsClosed
    <3> QED  BY <2>1, <2>2, <3>2 DEF StopsWhere
  <2> QED  BY <2>3, <2>4
<1>11. CASE NextFunc
  <2>1. prog' = prog /\ desc' = desc /\ pos >= prog.funcs[cur].last
    BY <1>11 DEF NextFunc
  <2>2. CASE cur = Len(prog.funcs)
    <3>1. /\ cur' = cur /\ pos' = pos /\ blktmp' = blktmp /\ iftmp' = iftmp
          /\ vphase' = "done"
      BY <1>11, <2>2 DEF NextFunc
    <3>2. ListsRight' /\ IfsLeft'
      BY <1>1, <2>1, <3>1, ListsStay, IfsStay
    <3> QED  BY <2>1, <3>1, <3>2 DEF StopsWhere
  <2>3. CASE cur # Len(prog.funcs)
    <3>1. /\ cur' = cur + 1 /\ pos' = prog.funcs[cur + 1].first
          /\ blktmp' = << >> /\ iftmp' = << >> /\ vphase' = "validating"
      BY <1>11, <2>3 DEF NextFunc
    <3>2. cur + 1 \in Funcs
      <4>1. Len(prog.funcs) \in Nat /\ cur \in 1..Len(prog.funcs)
        BY <1>1, LenProperties DEF TypeOK, IsProgram, Funcs
      <4> QED  BY <2>3, <4>1 DEF Funcs
    <3>3. ListsRight'
      BY <1>1, <2>1, <3>1, ListsEmptied
    <3>4. IfsLeft'
      BY <1>1, <2>1, <3>1, <3>2, IfsEmptied
    <3> QED  BY <3>1, <3>3, <3>4 DEF StopsWhere
  <2> QED  BY <2>2, <2>3
<1>12. CASE UNCHANGED vvars
  <2>1. /\ prog' = prog /\ desc' = desc /\ cur' = cur /\ blktmp' = blktmp
        /\ iftmp' = iftmp /\ pos' = pos /\ vphase' = vphase
    BY <1>12 DEF vvars
  <2>2. ListsRight' /\ IfsLeft'
    BY <1>1, <2>1, ListsStay, IfsStay
  <2> QED  BY <1>1, <2>1, <2>2 DEF StopsWhere
<1>13. ~AllocFails
  BY DEF AllocFails
<1> QED
  BY <1>5, <1>6, <1>7, <1>8, <1>9, <1>10, <1>11, <1>12, <1>13 DEF Next

-----------------------------------------------------------------------------
(***************************************************************************)
(* What the counts say of the table and of `else'                          *)
(***************************************************************************)
\* The first closer is where the format has the end of the block.
LEMMA FirstCloser ==
    ASSUME NEW b, b.open \in Nat, prog.funcs[b.fn].last \in Nat
    PROVE  /\ NeverClosed(b) => RefEnd(b) = 0
           /\ \A end \in Nat : ClosedAt(b, end) => RefEnd(b) = end
<1> DEFINE C == ClosersOf(b.fn, b.open)
<1>1. ASSUME NEW end \in Nat, ClosedAt(b, end)
      PROVE  RefEnd(b) = end
  <2>1. end - 1 \in C /\ \A e \in C : end - 1 <= e
    BY <1>1 DEF ClosedAt
  <2>2. \A e \in C : e \in Int
    <3>1. C \subseteq b.open..(prog.funcs[b.fn].last - 1)
      BY DEF ClosersOf
    <3> QED  BY <3>1
  <2>3. Min0(C) = end - 1
    <3>1. C # {}
      BY <2>1
    <3>2. Min0(C) \in C /\ \A e \in C : Min0(C) <= e
      BY <2>1, <3>1 DEF Min0
    <3>3. Min0(C) <= end - 1 /\ end - 1 <= Min0(C)
      BY <2>1, <3>2
    <3> QED  BY <2>2, <3>2, <3>3, <2>1
  <2>4. RefEnd(b) = Min0(C) + 1
    BY <2>1 DEF RefEnd
  <2> QED  BY <2>3, <2>4
<1>2. NeverClosed(b) => RefEnd(b) = 0
  BY DEF NeverClosed, RefEnd
<1> QED  BY <1>1, <1>2

\* Every block has the end the format gives it, or none and no `end'.
LEMMA EndsCounted == PassInv /\ CountInv => EndsMatch
<1> SUFFICES ASSUME PassInv, CountInv PROVE EndsMatch
  OBVIOUS
<1>1. TypeOK /\ TableInv /\ BlocksInBody /\ ListsRight /\ StopsWhere
  BY DEF PassInv, TableInv, CountInv, ListsRight
<1>2. ASSUME NEW i \in 1..Len(desc)
      PROVE  /\ desc[i].end \in Nat
             /\ NeverClosed(desc[i]) => RefEnd(desc[i]) = 0
             /\ \A end \in Nat : ClosedAt(desc[i], end) => RefEnd(desc[i]) = end
  <2>1. desc[i].open \in Nat /\ desc[i].end \in Nat
    BY <1>1, Typed
  <2>2. prog.funcs[desc[i].fn].last \in Nat
    <3>1. desc[i].fn \in 1..Len(prog.funcs)
      BY <1>1 DEF BlocksInBody, Funcs
    <3>2. prog.funcs[desc[i].fn] \in Func
      BY <1>1, <3>1, ElementOfSeq DEF TypeOK, IsProgram
    <3> QED  BY <3>2 DEF Func
  <2> QED  BY <2>1, <2>2, FirstCloser
<1>3. ASSUME NEW i \in 1..Len(desc), desc[i].end # 0
      PROVE  desc[i].end = RefEnd(desc[i])
  <2>1. ClosedAt(desc[i], desc[i].end)
    BY <1>1, <1>3, CountedEach DEF ListsRight
  <2> QED  BY <1>2, <2>1
<1>4. ASSUME Done, NEW i \in 1..Len(desc), desc[i].end = 0
      PROVE  desc[i].end = RefEnd(desc[i])
  <2>1. pos >= prog.funcs[cur].last
    BY <1>1, <1>4 DEF StopsWhere, Done
  <2>2. NeverClosed(desc[i])
    BY <1>1, <1>4, <2>1, BodyEnds
  <2> QED  BY <1>2, <1>4, <2>2
<1> QED  BY <1>3, <1>4 DEF EndsMatch

(* In a structured body no `else' comes before the `if' it belongs to, and *)
(* no two belong to one: up to an `else' there are as many `if's.          *)
LEMMA ElsesHaveIfs ==
    ASSUME TypeOK, Structured(cur),
           NEW e \in prog.funcs[cur].first..(prog.funcs[cur].last - 1)
    PROVE  Elses(e) <= Ifs(e - 1)
<1> DEFINE a == prog.funcs[cur].first
           z == prog.funcs[cur].last
           E == {x \in a..e : prog.code[x].op \in {"else"}}
           I == {x \in a..(e - 1) : prog.code[x].op \in {"if"}}
           f == [x \in E |-> CHOOSE i \in IfsOf(cur) : x \in ElsesOf(cur, i + 1)]
<1>1. a \in Nat /\ z \in Nat /\ e \in Nat
  BY Typed
<1>2. IsFiniteSet(E) /\ IsFiniteSet(I)
  <2>1. e \in Int /\ e - 1 \in Int
    BY <1>1
  <2>2. IsFiniteSet(a..e) /\ IsFiniteSet(a..(e - 1))
    <3> HIDE DEF E, I, f, a
    <3>1. a \in Int
      BY <1>1
    <3> QED  BY <2>1, <3>1, FS_Interval
  <2>3. E \in SUBSET (a..e) /\ I \in SUBSET (a..(e - 1))
    OBVIOUS
  <2> HIDE DEF E, I
  <2> QED  BY <2>2, <2>3, FS_Subset
<1>3. Cardinality(E) \in Nat /\ Cardinality(I) \in Nat
  BY <1>2, FS_CardinalityType
<1>4. \A x \in E : /\ f[x] \in IfsOf(cur) /\ x \in ElsesOf(cur, f[x] + 1)
                   /\ x \in a..e
  <2> SUFFICES ASSUME NEW x \in E
               PROVE  /\ f[x] \in IfsOf(cur) /\ x \in ElsesOf(cur, f[x] + 1)
                      /\ x \in a..e
    OBVIOUS
  <2>1. x \in a..(z - 1) /\ prog.code[x].op = "else" /\ x \in a..e
    BY <1>1
  <2>2. \E i \in IfsOf(cur) : x \in ElsesOf(cur, i + 1)
    BY <2>1 DEF Structured
  <2> HIDE DEF E
  <2> QED  BY <2>1, <2>2
<1>5. \A x \in E : f[x] \in I
  <2> SUFFICES ASSUME NEW x \in E PROVE f[x] \in I
    OBVIOUS
  <2> DEFINE i == f[x]
  <2>1. i \in IfsOf(cur) /\ x \in ElsesOf(cur, i + 1) /\ x \in a..e
    BY <1>4
  <2> HIDE DEF i, E, f
  <2>2. i \in a..(z - 1) /\ prog.code[i].op = "if"
    BY <2>1 DEF IfsOf
  <2>3. x \in (i + 1)..(z - 1)
    BY <2>1 DEF ElsesOf
  <2>4. i \in a..(e - 1)
    BY <1>1, <2>1, <2>2, <2>3
  <2> QED  BY <2>2, <2>4 DEF i
<1>6. \A x, y \in E : f[x] = f[y] => x = y
  <2> SUFFICES ASSUME NEW x \in E, NEW y \in E, f[x] = f[y], x # y PROVE FALSE
    OBVIOUS
  <2> DEFINE T == ElsesOf(cur, f[x] + 1)
  <2>1. x \in T /\ y \in T /\ f[x] \in IfsOf(cur)
    BY <1>4
  <2>2. IsFiniteSet(T) /\ Cardinality(T) <= 1
    <3>1. f[x] \in Int
      <4>1. \A i \in IfsOf(cur) : i \in Int
        BY <1>1 DEF IfsOf
      <4> HIDE DEF f
      <4> QED  BY <2>1, <4>1
    <3>2. f[x] + 1 \in Int /\ z - 1 \in Int
      BY <1>1, <3>1
    <3>3. T \in SUBSET ((f[x] + 1)..(z - 1))
      BY DEF ElsesOf
    <3>4. Cardinality(T) <= 1
      BY <2>1 DEF Structured
    <3> HIDE DEF T, f
    <3> QED  BY <3>2, <3>3, <3>4, FS_Interval, FS_Subset
  <2> HIDE DEF T, E, f
  <2>3. Cardinality({x} \cup {y}) = 2
    <3>1. IsFiniteSet({x}) /\ Cardinality({x}) = 1 /\ y \notin {x}
      BY FS_Singleton
    <3> DEFINE S == {x}
    <3> HIDE DEF S
    <3>2. Cardinality(S \cup {y}) = Cardinality(S) + 1
      BY <3>1, FS_AddElement DEF S
    <3> QED  BY <3>1, <3>2 DEF S
  <2>4. ({x} \cup {y}) \in SUBSET T
    BY <2>1
  <2>5. Cardinality({x} \cup {y}) <= Cardinality(T) /\ Cardinality(T) \in Nat
    BY <2>2, <2>4, FS_Subset, FS_CardinalityType
  <2> QED  BY <2>2, <2>3, <2>5
<1>7. f \in [E -> I]
  <2>1. f = [x \in E |-> f[x]]
    OBVIOUS
  <2> HIDE DEF f, E, I
  <2> QED  BY <1>5, <2>1
<1>8. Cardinality(E) <= Cardinality(I)
  <2> HIDE DEF f, E, I
  <2> SUFFICES ASSUME Cardinality(I) < Cardinality(E) PROVE FALSE
    BY <1>3
  <2>1. PICK x \in E, y \in E : x # y /\ f[x] = f[y]
    BY <1>2, <1>7, FS_PigeonHole
  <2> QED  BY <1>6, <2>1
<1> QED  BY <1>8 DEF Elses, Ifs, Count

LEMMA LostForAReason == PassInv /\ CountInv => StructuredNeverLost
<1> SUFFICES ASSUME PassInv, CountInv,
                    vphase \in {"crash", "corrupt"}, Structured(cur)
             PROVE  Count({"hole"}, prog.funcs[cur].first, prog.funcs[cur].last - 1)
                       > 0
  BY DEF StructuredNeverLost
<1> DEFINE a == prog.funcs[cur].first
           z == prog.funcs[cur].last
<1>1. TypeOK /\ IfsLeft /\ StopsWhere
  BY DEF PassInv, TableInv, CountInv
<1>2. a \in Nat /\ z \in Nat /\ pos \in Nat /\ a <= pos
  BY <1>1, Typed
<1>3. pos < z
  BY <1>1 DEF StopsWhere
<1>4. pos \in a..(z - 1)
  BY <1>2, <1>3
<1>5. CASE vphase = "crash"
  <2> DEFINE H == {i \in a..(z - 1) : prog.code[i].op \in {"hole"}}
  <2>1. pos \in H
    BY <1>1, <1>4, <1>5 DEF StopsWhere
  <2>2. IsFiniteSet(H)
    <3>1. z - 1 \in Int
      BY <1>2
    <3>2. H \in SUBSET (a..(z - 1))
      OBVIOUS
    <3> HIDE DEF H, a, z
    <3>3. IsFiniteSet(a..(z - 1))
      BY <1>2, <3>1, FS_Interval
    <3> QED  BY <3>2, <3>3, FS_Subset
  <2> HIDE DEF H
  <2>3. Cardinality(H) \in Nat /\ Cardinality(H) # 0
    BY <2>1, <2>2, FS_EmptySet, FS_CardinalityType
  <2> QED  BY <2>3 DEF H, Count
<1>6. CASE vphase = "corrupt"
  <2>1. prog.code[pos].op = "else" /\ Len(iftmp) = 0
    BY <1>1, <1>6, EmptySeq DEF StopsWhere
  <2>2. Ifs(pos - 1) = Elses(pos - 1) + 0
    <3>1. \A i \in a..(pos - 1) : prog.code[i].imm # "refused"
      BY <1>2, <1>3 DEF Structured
    <3>2. IfsTaken(pos - 1) = Ifs(pos - 1)
      BY <3>1 DEF IfsTaken, Ifs, Count
    <3>3. Reached = pos
      BY <1>2, <1>3 DEF Reached
    <3> QED  BY <1>1, <2>1, <3>2, <3>3 DEF IfsLeft, Elses
  <2>3. Elses(pos) = Elses(pos - 1) + 1
    BY <1>2, <2>1, CountNext DEF Elses
  <2>4. Elses(pos) <= Ifs(pos - 1)
    BY <1>1, <1>4, ElsesHaveIfs
  <2>5. Elses(pos - 1) \in Nat
    BY <1>2, CountType DEF Elses
  <2> QED  BY <2>2, <2>3, <2>4, <2>5
<1> QED  BY <1>5, <1>6

-----------------------------------------------------------------------------
(***************************************************************************)
(* The theorems                                                            *)
(***************************************************************************)
(* blktmp and iftmp count what a body has opened, when no allocation fails *)
(* (consume_block, consume_if, consume_else, consume_end).                 *)
THEOREM ListsCount ==
    ASSUME ~AllocMayFail
    PROVE  Spec => []CountInv
<1>1. Init => TableInv /\ CountInv
  BY InitTableInv, InitCountInv
<1>2. TableInv /\ CountInv /\ [Next]_vvars => TableInv' /\ CountInv'
  BY StepTableInv, StepCountInv
<1> QED  BY <1>1, <1>2, PTL DEF Spec

(* Each block of the table has the address behind the `end' that closes    *)
(* it, and a block no `end' closes has none: in every body, well formed or *)
(* not, when no allocation fails.                                          *)
THEOREM EndsRight ==
    ASSUME ~AllocMayFail
    PROVE  Spec => []EndsMatch
<1> QED  BY EndsCounted, ListsCount, TableCorrect, PTL

(* consume_else finds an `if' in iftmp at every `else' of every structured *)
(* body, whatever earlier ones took, when no allocation fails.             *)
THEOREM NeverLost ==
    ASSUME ~AllocMayFail
    PROVE  Spec => []StructuredNeverLost
<1> QED  BY LostForAReason, ListsCount, TableCorrect, PTL

=============================================================================
