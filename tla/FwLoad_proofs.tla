---------------------------- MODULE FwLoad_proofs ----------------------------
(***************************************************************************)
(* The loader and the session around it.                                   *)
(***************************************************************************)
EXTENDS FwSession_proofs, FiniteSetTheorems

-----------------------------------------------------------------------------
(***************************************************************************)
(* A module and its updates                                                *)
(***************************************************************************)
\* The sections of q are those of m, but for their cursors and free handlers.
SameSections(q, m) ==
    /\ Len(q.secs) = Len(m.secs)
    /\ \A i \in 1..Len(m.secs) : /\ q.secs[i].type = m.secs[i].type
                                 /\ q.secs[i].last = m.secs[i].last

LEMMA SectionsOfModule ==
    ASSUME NEW m, IsModule(m)
    PROVE  /\ Len(m.secs) \in Nat /\ DOMAIN m.secs = 1..Len(m.secs)
           /\ \A i \in 1..Len(m.secs) :
                 /\ m.secs[i] \in SectionRecs
                 /\ m.secs[i].type \in 0..11 /\ m.secs[i].pos \in Nat \ {0}
                 /\ m.secs[i].last \in Nat /\ m.secs[i].free \in {0, Import} \cup Vectors
<1>1. m.secs \in Seq(SectionRecs)
  BY DEF IsModule
<1>2. Len(m.secs) \in Nat /\ DOMAIN m.secs = 1..Len(m.secs)
  BY <1>1, LenProperties
<1>3. \A i \in 1..Len(m.secs) : m.secs[i] \in SectionRecs
  BY <1>1, ElementOfSeq
<1> QED  BY <1>2, <1>3 DEF SectionRecs, Custom, Data

\* The cursor of a section moves.
LEMMA CursorMoved ==
    ASSUME NEW m, IsModule(m), NEW s \in 1..Len(m.secs), NEW pos \in Nat \ {0}
    PROVE  LET q == [m EXCEPT !.secs[s].pos = pos] IN
           /\ IsModule(q) /\ SameSections(q, m)
           /\ q.vec = m.vec /\ q.imp = m.imp /\ q.code = m.code /\ q.start = m.start
           /\ q.filedata = m.filedata /\ q.instance = m.instance
           /\ \A i \in 1..Len(m.secs) : q.secs[i].free = m.secs[i].free
           /\ q.secs[s].pos = pos
<1> SUFFICES ASSUME NEW q, q = [m EXCEPT !.secs[s].pos = pos]
             PROVE  /\ IsModule(q) /\ SameSections(q, m)
                    /\ q.vec = m.vec /\ q.imp = m.imp /\ q.code = m.code /\ q.start = m.start
                    /\ q.filedata = m.filedata /\ q.instance = m.instance
                    /\ \A i \in 1..Len(m.secs) : q.secs[i].free = m.secs[i].free
                    /\ q.secs[s].pos = pos
  OBVIOUS
<1> DEFINE rec == [m.secs[s] EXCEPT !.pos = pos]
           new == [m.secs EXCEPT ![s] = rec]
<1>1. m.secs[s] \in SectionRecs
  BY SectionsOfModule
<1>2. /\ rec \in SectionRecs /\ rec.type = m.secs[s].type /\ rec.last = m.secs[s].last
      /\ rec.free = m.secs[s].free /\ rec.pos = pos
  BY <1>1 DEF SectionRecs
<1> HIDE DEF rec
<1>3. new \in Seq(SectionRecs) /\ Len(new) = Len(m.secs)
      /\ \A i \in 1..Len(m.secs) : new[i] = IF i = s THEN rec ELSE m.secs[i]
  BY <1>2, ExceptSeq DEF IsModule
<1>4. /\ q = [filedata |-> m.filedata, secs |-> new, code |-> m.code, start |-> m.start,
             vec |-> m.vec, imp |-> m.imp, instance |-> m.instance]
  BY DEF IsModule, rec
<1> HIDE DEF new
<1>5. /\ q.vec = m.vec /\ q.imp = m.imp /\ q.code = m.code /\ q.start = m.start
      /\ q.filedata = m.filedata /\ q.instance = m.instance /\ q.secs = new
  BY <1>4
<1>6. IsModule(q)
  BY <1>3, <1>4, <1>5 DEF IsModule
<1>7. SameSections(q, m)
  BY <1>2, <1>3, <1>5 DEF SameSections
<1> QED  BY <1>2, <1>3, <1>5, <1>6, <1>7

\* A section is given a free handler.
WithHandler(m, s, x) == [m EXCEPT !.secs[s].free = x]

LEMMA HandlerSet ==
    ASSUME NEW m, IsModule(m), NEW s \in 1..Len(m.secs), NEW x \in {0, Import} \cup Vectors
    PROVE  LET q == WithHandler(m, s, x) IN
           /\ IsModule(q) /\ SameSections(q, m)
           /\ q.vec = m.vec /\ q.imp = m.imp /\ q.code = m.code /\ q.start = m.start
           /\ q.filedata = m.filedata /\ q.instance = m.instance
           /\ \A i \in 1..Len(m.secs) : q.secs[i].free = IF i = s THEN x ELSE m.secs[i].free
<1> SUFFICES ASSUME NEW q, q = [m EXCEPT !.secs[s].free = x]
             PROVE  /\ IsModule(q) /\ SameSections(q, m)
                    /\ q.vec = m.vec /\ q.imp = m.imp /\ q.code = m.code /\ q.start = m.start
                    /\ q.filedata = m.filedata /\ q.instance = m.instance
                    /\ \A i \in 1..Len(m.secs) : q.secs[i].free = IF i = s THEN x ELSE m.secs[i].free
  BY DEF WithHandler
<1> DEFINE rec == [m.secs[s] EXCEPT !.free = x]
           new == [m.secs EXCEPT ![s] = rec]
<1>1. m.secs[s] \in SectionRecs
  BY SectionsOfModule
<1>2. /\ rec \in SectionRecs /\ rec.type = m.secs[s].type /\ rec.last = m.secs[s].last
      /\ rec.free = x
  BY <1>1 DEF SectionRecs
<1> HIDE DEF rec
<1>3. new \in Seq(SectionRecs) /\ Len(new) = Len(m.secs)
      /\ \A i \in 1..Len(m.secs) : new[i] = IF i = s THEN rec ELSE m.secs[i]
  BY <1>2, ExceptSeq DEF IsModule
<1>4. /\ q = [filedata |-> m.filedata, secs |-> new, code |-> m.code, start |-> m.start,
             vec |-> m.vec, imp |-> m.imp, instance |-> m.instance]
  BY DEF IsModule, rec
<1> HIDE DEF new
<1>5. /\ q.vec = m.vec /\ q.imp = m.imp /\ q.code = m.code /\ q.start = m.start
      /\ q.filedata = m.filedata /\ q.instance = m.instance /\ q.secs = new
  BY <1>4
<1>6. IsModule(q)
  BY <1>3, <1>4, <1>5 DEF IsModule
<1>7. SameSections(q, m)
  BY <1>2, <1>3, <1>5 DEF SameSections
<1> QED  BY <1>2, <1>3, <1>5, <1>6, <1>7

\* A vector is written.
WithVector(m, k, r) == [m EXCEPT !.vec[k] = r]

LEMMA VectorSet ==
    ASSUME NEW m, IsModule(m), NEW k \in Vectors, NEW r \in VecRecs(k)
    PROVE  LET q == WithVector(m, k, r) IN
           /\ IsModule(q) /\ q.secs = m.secs
           /\ q.imp = m.imp /\ q.code = m.code /\ q.start = m.start
           /\ q.filedata = m.filedata /\ q.instance = m.instance
           /\ q.vec[k] = r /\ \A j \in Vectors \ {k} : q.vec[j] = m.vec[j]
<1> SUFFICES ASSUME NEW q, q = [m EXCEPT !.vec[k] = r]
             PROVE  /\ IsModule(q) /\ q.secs = m.secs
                    /\ q.imp = m.imp /\ q.code = m.code /\ q.start = m.start
                    /\ q.filedata = m.filedata /\ q.instance = m.instance
                    /\ q.vec[k] = r /\ \A j \in Vectors \ {k} : q.vec[j] = m.vec[j]
  BY DEF WithVector
<1> DEFINE new == [m.vec EXCEPT ![k] = r]
<1>1. /\ new = [j \in Vectors |-> new[j]] /\ new[k] = r
      /\ \A j \in Vectors \ {k} : new[j] = m.vec[j]
      /\ \A j \in Vectors : new[j] \in VecRecs(j)
  BY DEF IsModule
<1>2. q = [filedata |-> m.filedata, secs |-> m.secs, code |-> m.code, start |-> m.start,
           vec |-> new, imp |-> m.imp, instance |-> m.instance]
  BY DEF IsModule
<1> HIDE DEF new
<1>3. /\ q.secs = m.secs /\ q.imp = m.imp /\ q.code = m.code /\ q.start = m.start
      /\ q.filedata = m.filedata /\ q.instance = m.instance /\ q.vec = new
  BY <1>2
<1>4. IsModule(q)
  BY <1>1, <1>2, <1>3 DEF IsModule
<1> QED  BY <1>1, <1>3, <1>4

\* The imports are written.
WithImports(m, imp) == [m EXCEPT !.imp = imp]

LEMMA ImportsSet ==
    ASSUME NEW m, IsModule(m), NEW imp \in [Kinds -> ImpRecs]
    PROVE  LET q == WithImports(m, imp) IN
           /\ IsModule(q) /\ q.secs = m.secs
           /\ q.vec = m.vec /\ q.imp = imp /\ q.code = m.code /\ q.start = m.start
           /\ q.filedata = m.filedata /\ q.instance = m.instance
<1> SUFFICES ASSUME NEW q, q = [m EXCEPT !.imp = imp]
             PROVE  /\ IsModule(q) /\ q.secs = m.secs
                    /\ q.vec = m.vec /\ q.imp = imp /\ q.code = m.code /\ q.start = m.start
                    /\ q.filedata = m.filedata /\ q.instance = m.instance
  BY DEF WithImports
<1>2. q = [filedata |-> m.filedata, secs |-> m.secs, code |-> m.code, start |-> m.start,
           vec |-> m.vec, imp |-> imp, instance |-> m.instance]
  BY DEF IsModule
<1>3. /\ q.secs = m.secs /\ q.imp = imp /\ q.code = m.code /\ q.start = m.start
      /\ q.filedata = m.filedata /\ q.instance = m.instance /\ q.vec = m.vec
  BY <1>2
<1> QED  BY <1>2, <1>3 DEF IsModule

-----------------------------------------------------------------------------
(***************************************************************************)
(* The heap                                                                *)
(***************************************************************************)
LEMMA UpTo == \A n \in Nat : IsFiniteSet(1..n)
<1> SUFFICES ASSUME NEW n \in Nat PROVE IsFiniteSet(1..n)
  OBVIOUS
<1>1. 1 \in Int /\ n \in Int
  OBVIOUS
<1> QED  BY <1>1, FS_Interval

\* What fw_malloc answers: all that was asked for, or as much fewer as may fail.
LEMMA Mallocing ==
    ASSUME NEW ptrs, IsFiniteSet(DOMAIN ptrs), fails \in Nat, Mallocs(ptrs)
    PROVE  /\ fails' \in Nat /\ fails' <= fails
           /\ live' = live \cup (Range(ptrs) \ {Null})
           /\ fails' = fails => Null \notin Range(ptrs)
<1> DEFINE nulls == {i \in DOMAIN ptrs : ptrs[i] = Null}
<1>1. IsFiniteSet(nulls)
  BY FS_Subset
<1>2. Cardinality(nulls) \in Nat
  BY <1>1, FS_CardinalityType
<1>3. /\ Cardinality(nulls) <= fails
      /\ fails' = fails - Cardinality(nulls)
      /\ live' = live \cup (Range(ptrs) \ {Null})
  BY DEF Mallocs
<1>4. Cardinality(nulls) = 0 => nulls = {}
  BY <1>1, FS_EmptySet
<1> HIDE DEF nulls
<1>5. /\ fails' \in Nat /\ fails' <= fails
      /\ fails' = fails => Cardinality(nulls) = 0
  BY <1>2, <1>3
<1>6. fails' = fails => Null \notin Range(ptrs)
  BY <1>4, <1>5 DEF nulls, Range
<1> QED  BY <1>3, <1>5, <1>6

LEMMA OneMalloc ==
    ASSUME NEW a, fails \in Nat, Mallocs(<<a>>)
    PROVE  /\ fails' \in Nat /\ fails' <= fails
           /\ live' = live \cup ({a} \ {Null})
           /\ fails' = fails => a # Null
<1>1. IsFiniteSet(DOMAIN <<a>>)
  <2>1. DOMAIN <<a>> = 1..1
    OBVIOUS
  <2>2. IsFiniteSet(1..1)
    BY UpTo
  <2> QED  BY <2>1, <2>2
<1>2. Range(<<a>>) = {a}
  BY DEF Range
<1> QED  BY <1>1, <1>2, Mallocing

LEMMA TwoMallocs ==
    ASSUME NEW a, NEW b, fails \in Nat, Mallocs(<<a, b>>)
    PROVE  /\ fails' \in Nat /\ fails' <= fails
           /\ live' = live \cup ({a, b} \ {Null})
           /\ fails' = fails => a # Null /\ b # Null
<1>1. IsFiniteSet(DOMAIN <<a, b>>)
  <2>1. DOMAIN <<a, b>> = 1..2
    OBVIOUS
  <2>2. IsFiniteSet(1..2)
    BY UpTo
  <2> QED  BY <2>1, <2>2
<1>2. Range(<<a, b>>) = {a, b}
  BY DEF Range
<1> QED  BY <1>1, <1>2, Mallocing

LEMMA ThreeMallocs ==
    ASSUME NEW a, NEW b, NEW c, fails \in Nat, Mallocs(<<a, b, c>>)
    PROVE  /\ fails' \in Nat /\ fails' <= fails
           /\ live' = live \cup ({a, b, c} \ {Null})
           /\ fails' = fails => a # Null /\ b # Null /\ c # Null
<1>1. IsFiniteSet(DOMAIN <<a, b, c>>)
  <2>1. DOMAIN <<a, b, c>> = 1..3
    OBVIOUS
  <2>2. IsFiniteSet(1..3)
    BY UpTo
  <2> QED  BY <2>1, <2>2
<1>2. Range(<<a, b, c>>) = {a, b, c}
  BY DEF Range
<1> QED  BY <1>1, <1>2, Mallocing

LEMMA UnendingGone == \A p : Unending(p) \in {"hung", "overread"}
BY DEF Unending

LEMMA ReadsLost ==
    \A ptr : Reads(ptr) # "" => Reads(ptr) \in LostStates
BY DEF Reads, LostStates

-----------------------------------------------------------------------------
(***************************************************************************)
(* Types                                                                   *)
(***************************************************************************)
States == LostStates \cup {"open", "header", "sections", "parse", "detach", "close",
                           "load_null", "loaded", "register", "compile", "resolve",
                           "exports", "compiled", "run", "succeeded", "failed",
                           "free", "done", "exit", "hung", "overread"}

\* How a handler may not come back.
GoneStates == LostStates \cup {"hung", "overread"}

HeapTyped == fails \in Nat /\ {Null, Wild} \cap live = {}

LoopTyped == at \in Nat /\ item \in Nat /\ todo \in Nat /\ parsed \in {"none", "ok", "err"}

Typed == RegistryInv /\ SessionTyped

\* The host of every entry is one of those the driver registers.
LEMMA HostsKnown ==
    ASSUME RegistryInv
    PROVE  \A b \in DOMAIN buckets : \A e \in Range(buckets[b]) : e.host \in Hosts
BY EachEntry DEF Range, EntrySet

LEMMA TypedParts ==
    ASSUME RegistryInv
    PROVE  SessionTyped <=>
             /\ cells = given.cells /\ short = given.short
             /\ probe \in Nat /\ nxt \in [Kinds -> Nat]
             /\ back \in {"none", "close", "done"}
             /\ pc = "free" => back # "none"
             /\ pc \in {"parse", "free"} => at # 0
             /\ pc \in States /\ fpos \in Nat \ {0} /\ compiled \in {"none", "ok", "err"}
             /\ HeapTyped /\ LoopTyped /\ IsModule(mod) /\ SectionsInside /\ LoopInside
             /\ InstanceTyped
<1>1. IsModule(mod) =>
          \A i \in DOMAIN mod.secs : /\ mod.secs[i].type \in Custom..Data
                                     /\ mod.secs[i].free \in {0, Import} \cup Vectors
  BY SectionsOfModule DEF SectionRecs
<1>2. reg \in Nat \ {0}
  BY DEF RegistryInv
<1> QED  BY <1>1, <1>2, HostsKnown
         DEF SessionTyped, TypeOK, States, HeapTyped, LoopTyped

\* What a handler may do of the loop it is in, and of the one over the sections.
Control ==
    \/ /\ pc' = "detach" /\ UNCHANGED <<at, item, todo>>
       /\ parsed' = "err" \/ (parsed' = "ok" /\ at > Len(mod.secs))
    \/ NextTurn \/ NextSection
    \/ \E how \in GoneStates : Lost(how)
    \/ \E i, bound \in Nat : GoesOn(i, bound)

LEMMA ControlTyped ==
    ASSUME SessionTyped, pc = "parse", Control
    PROVE  LoopTyped' /\ at' # 0 /\ pc' \in {"parse", "detach"} \cup GoneStates
BY DEF Control, Lost, GoesOn, NextTurn, NextSection, SessionTyped, TypeOK,
       LoopTyped, GoneStates, LostStates

\* What is known of the section that is being parsed, and of the code.
LEMMA InSection ==
    ASSUME Typed, pc = "parse"
    PROVE  /\ cells \in Seq(Nat) /\ Len(cells) \in Nat
           /\ \A s \in 1..Len(mod.secs) :
                 /\ mod.secs[s].pos \in Nat \ {0} /\ mod.secs[s].last \in Nat
                 /\ mod.secs[s].last <= Len(cells) + 1
                 /\ \A p \in Nat \ {0} : p < mod.secs[s].last => cells[p] \in Nat
           /\ mod.code \in 1..Len(mod.secs)
           /\ at <= Len(mod.secs) => at \in 1..Len(mod.secs)
<1>1. /\ RegistryInv /\ cells = given.cells
      /\ IsModule(mod) /\ SectionsInside /\ at \in Nat \ {0}
  BY TypedParts DEF Typed, LoopTyped
<1>2. cells \in Seq(Nat) /\ Len(cells) \in Nat
  <2>1. given \in Cases
    BY <1>1 DEF RegistryInv
  <2> QED  BY <1>1, <2>1, CasesAssumption, LenProperties
<1>3. /\ Len(mod.secs) \in Nat /\ DOMAIN mod.secs = 1..Len(mod.secs)
      /\ \A s \in 1..Len(mod.secs) : mod.secs[s].pos \in Nat \ {0} /\ mod.secs[s].last \in Nat
  BY <1>1, SectionsOfModule
<1>4. /\ \A s \in 1..Len(mod.secs) : mod.secs[s].last <= Len(cells) + 1
      /\ mod.code # 0 /\ mod.code <= Len(mod.secs) /\ mod.code \in Nat
  BY <1>1, <1>3 DEF SectionsInside, IsModule
<1>5. ASSUME NEW s \in 1..Len(mod.secs), NEW p \in Nat \ {0}, p < mod.secs[s].last
      PROVE  cells[p] \in Nat
  <2>1. mod.secs[s].last \in Nat /\ mod.secs[s].last <= Len(cells) + 1
    BY <1>3, <1>4
  <2>2. p \in 1..Len(cells)
    BY <1>2, <1>5, <2>1
  <2> QED  BY <1>2, <2>2, ElementOfSeq
<1>6. mod.code \in 1..Len(mod.secs) /\ (at <= Len(mod.secs) => at \in 1..Len(mod.secs))
  BY <1>1, <1>3, <1>4
<1> QED  BY <1>2, <1>3, <1>4, <1>5, <1>6

\* A step of fw_module_parse keeps the types when it keeps those of the module.
LEMMA ParseTyped ==
    ASSUME Typed, RegistryInv', pc = "parse", Control, HeapTyped',
           UNCHANGED <<cells, short, fpos, back, given, compiled, turn, funcs>>,
           probe' \in Nat, nxt' \in [Kinds -> Nat],
           IsModule(mod'), SameSections(mod', mod), mod'.code = mod.code, LoopInside'
    PROVE  SessionTyped'
<1>1. LoopTyped' /\ at' # 0 /\ pc' \in {"parse", "detach"} \cup GoneStates
  BY ControlTyped DEF Typed
<1>2. SectionsInside'
  <2>1. /\ DOMAIN mod.secs = 1..Len(mod.secs) /\ DOMAIN mod'.secs = 1..Len(mod'.secs)
        /\ SectionsInside
    BY TypedParts, SectionsOfModule DEF Typed
  <2> QED  BY <1>1, <2>1 DEF SectionsInside, SameSections, GoneStates, LostStates
<1>3. /\ cells' = given'.cells /\ short' = given'.short
      /\ back' \in {"none", "close", "done"} /\ fpos' \in Nat \ {0}
      /\ compiled' \in {"none", "ok", "err"}
  BY TypedParts DEF Typed
<1>4. /\ pc' \in States /\ pc' # "free"
      /\ InstanceTyped'
  BY <1>1, TypedParts DEF Typed, InstanceTyped, States, GoneStates, LostStates
<1>5. (SessionTyped <=>
             /\ cells = given.cells /\ short = given.short
             /\ probe \in Nat /\ nxt \in [Kinds -> Nat]
             /\ back \in {"none", "close", "done"}
             /\ pc = "free" => back # "none"
             /\ pc \in {"parse", "free"} => at # 0
             /\ pc \in States /\ fpos \in Nat \ {0} /\ compiled \in {"none", "ok", "err"}
             /\ HeapTyped /\ LoopTyped /\ IsModule(mod) /\ SectionsInside /\ LoopInside
             /\ InstanceTyped)'
  BY TypedParts, PTL
<1>6. IsModule(mod)'
  BY DEF IsModule
<1> QED  BY <1>1, <1>2, <1>3, <1>4, <1>5, <1>6

-----------------------------------------------------------------------------
(***************************************************************************)
(* Where an entry ends                                                     *)
(***************************************************************************)
LEMMA LiteralsTyped == \A c \in DOMAIN Literals : Literals[c] \in Nat
BY DEF Literals

\* Not behind the section, if it is not given up.
LEMMA EndsTyped ==
    ASSUME NEW last \in Nat, NEW p \in Nat \ {0},
           \A i \in Nat \ {0} : i < last => cells[i] \in Nat
    PROVE  /\ RunEnd(p, last) \in 0..last /\ ExprEnd(p, last) \in 0..last
           /\ \A hasMax : LimitsEnd(p, last, hasMax) \in 0..last
           /\ TypeEnd(p, last) \in 0..last /\ TableEnd(p, last) \in 0..last
           /\ GlobalEnd(p, last) \in 0..last /\ DataEnd(p, last) \in 0..last
<1>1. ASSUME NEW q \in Nat \ {0}
      PROVE  RunEnd(q, last) \in 0..last
  <2>1. q < last => cells[q] \in Nat
    BY <1>1
  <2>2. 0 \in 0..last
    OBVIOUS
  <2>3. ASSUME q < last, q + 1 + cells[q] <= last PROVE q + 1 + cells[q] \in 0..last
    BY <2>1, <2>3
  <2> QED  BY <2>2, <2>3 DEF RunEnd
<1>2. ASSUME NEW q \in Nat \ {0}
      PROVE  ExprEnd(q, last) \in 0..last
  <2>1. 0 \in 0..last
    OBVIOUS
  <2>2. ASSUME q < last, cells[q] \in DOMAIN Literals, q + 1 + Literals[cells[q]] < last
        PROVE  q + 2 + Literals[cells[q]] \in 0..last
    <3>1. Literals[cells[q]] \in Nat
      BY <2>2, LiteralsTyped
    <3> QED  BY <2>2, <3>1
  <2> QED  BY <2>1, <2>2 DEF ExprEnd
<1>3. ASSUME NEW q \in Nat \ {0}, NEW hasMax
      PROVE  LimitsEnd(q, last, hasMax) \in 0..last
  BY DEF LimitsEnd
<1>4. TypeEnd(p, last) \in 0..last
  <2>1. p + 1 \in Nat \ {0} /\ 0 \in 0..last
    OBVIOUS
  <2>2. RunEnd(p + 1, last) \in Nat
    BY <1>1, <2>1
  <2> QED  BY <1>1, <2>1, <2>2 DEF TypeEnd
<1>5. TableEnd(p, last) \in 0..last
  <2>1. p + 1 \in Nat \ {0} /\ 0 \in 0..last
    OBVIOUS
  <2> QED  BY <1>3, <2>1 DEF TableEnd
<1>6. GlobalEnd(p, last) \in 0..last
  <2>1. p + 2 \in Nat \ {0} /\ 0 \in 0..last
    OBVIOUS
  <2> QED  BY <1>2, <2>1 DEF GlobalEnd
<1>7. DataEnd(p, last) \in 0..last
  <2>1. p + 1 \in Nat \ {0} /\ 0 \in 0..last
    OBVIOUS
  <2>2. ExprEnd(p + 1, last) \in Nat
    BY <1>2, <2>1
  <2> QED  BY <1>1, <2>1, <2>2 DEF DataEnd
<1> QED  BY <1>1, <1>2, <1>3, <1>4, <1>5, <1>6, <1>7

\* A run of cells that is there.
LEMMA RunTyped ==
    ASSUME cells \in Seq(Nat), NEW p \in Nat \ {0}, NEW q \in Int, q <= Len(cells)
    PROVE  SubSeq(cells, p, q) \in Seq(Nat)
<1>1. ASSUME NEW i \in p..q PROVE cells[i] \in Nat
  <2>1. i \in 1..Len(cells)
    BY LenProperties
  <2> QED  BY <2>1, ElementOfSeq
<1> QED  BY <1>1, SubSeqProperties

-----------------------------------------------------------------------------
(***************************************************************************)
(* What the steps of fw_module_parse do                                    *)
(***************************************************************************)
\* The module keeps its types, its sections and what is not parsed.
Keeps ==
    /\ IsModule(mod') /\ SameSections(mod', mod) /\ mod'.code = mod.code
    /\ mod'.filedata = mod.filedata /\ mod'.instance = mod.instance

SameHandlers == \A i \in 1..Len(mod.secs) : mod'.secs[i].free = mod.secs[i].free

SameEntries == mod'.vec = mod.vec /\ mod'.imp = mod.imp

LEMMA SameModule ==
    ASSUME Typed, mod' = mod
    PROVE  Keeps /\ SameHandlers /\ SameEntries
BY TypedParts DEF Typed, Keeps, SameHandlers, SameEntries, SameSections, IsModule

\* The cursor of section `at' moves, or that of the code.
LEMMA MovedModule ==
    ASSUME Typed, pc = "parse", at <= Len(mod.secs), NEW m, IsModule(m), SameSections(m, mod),
           NEW pos \in Nat \ {0}
    PROVE  /\ IsModule(Moved(m, pos)) /\ SameSections(Moved(m, pos), mod)
           /\ Moved(m, pos).code = m.code /\ Moved(m, pos).start = m.start
           /\ Moved(m, pos).filedata = m.filedata /\ Moved(m, pos).instance = m.instance
           /\ Moved(m, pos).vec = m.vec /\ Moved(m, pos).imp = m.imp
           /\ \A i \in 1..Len(mod.secs) : Moved(m, pos).secs[i].free = m.secs[i].free
<1> DEFINE q == Moved(m, pos)
<1>1. at \in 1..Len(m.secs) /\ Len(m.secs) = Len(mod.secs)
  BY InSection DEF SameSections
<1>2. q = [m EXCEPT !.secs[at].pos = pos]
  BY DEF Moved
<1> HIDE DEF q
<1>3. /\ IsModule(q) /\ SameSections(q, m)
      /\ q.vec = m.vec /\ q.imp = m.imp /\ q.code = m.code /\ q.start = m.start
      /\ q.filedata = m.filedata /\ q.instance = m.instance
      /\ \A i \in 1..Len(m.secs) : q.secs[i].free = m.secs[i].free
  BY <1>1, <1>2, CursorMoved
<1>4. SameSections(q, mod)
  BY <1>1, <1>3 DEF SameSections
<1> QED  BY <1>1, <1>3, <1>4 DEF q

LEMMA MovedOnly ==
    ASSUME Typed, pc = "parse", at <= Len(mod.secs), NEW pos \in Nat \ {0},
           mod' = Moved(mod, pos)
    PROVE  Keeps /\ SameHandlers /\ SameEntries
<1>1. IsModule(mod) /\ SameSections(mod, mod)
  BY TypedParts DEF Typed, SameSections
<1>2. /\ IsModule(mod') /\ SameSections(mod', mod) /\ mod'.code = mod.code
      /\ mod'.filedata = mod.filedata /\ mod'.instance = mod.instance
      /\ mod'.vec = mod.vec /\ mod'.imp = mod.imp
      /\ \A i \in 1..Len(mod.secs) : mod'.secs[i].free = mod.secs[i].free
  BY <1>1, MovedModule
<1> QED  BY <1>2 DEF Keeps, SameHandlers, SameEntries

\* A step that writes no vector, and begins none, leaves the loop inside it.
LEMMA LoopStays ==
    ASSUME Typed, pc = "parse", at <= Len(mod.secs), SameSections(mod', mod),
           \A k \in Vectors : Len(mod'.vec[k].elt) = Len(mod.vec[k].elt),
           \/ pc' # "parse" \/ NextSection
           \/ NextTurn /\ item \in 1..todo
           \/ GoesOn(1, 0)
           \/ at' = at /\ Sec.type \notin Vectors
    PROVE  LoopInside'
<1> SUFFICES ASSUME pc' = "parse", at' <= Len(mod'.secs), Sec'.type \in Vectors,
                    item' \in 1..todo'
             PROVE  Len(mod'.vec[Sec'.type].elt) = todo'
  BY DEF LoopInside
<1>1. at \in 1..Len(mod.secs) /\ LoopInside /\ item \in Nat /\ todo \in Nat
  BY InSection, TypedParts DEF Typed, LoopTyped
<1>2. CASE NextSection
  BY <1>2 DEF NextSection
<1>3. CASE GoesOn(1, 0)
  <2>1. item' = 1 /\ todo' = 0
    BY <1>3 DEF GoesOn
  <2> QED  BY <2>1
<1>4. CASE at' = at /\ Sec.type \notin Vectors
  <2>1. Sec'.type = Sec.type
    BY <1>1, <1>4 DEF Sec, SameSections
  <2> QED  BY <1>4, <2>1
<1>5. CASE NextTurn /\ item \in 1..todo
  <2>1. at' = at /\ todo' = todo
    BY <1>5 DEF NextTurn, GoesOn
  <2>2. Sec'.type = Sec.type
    BY <1>1, <2>1 DEF Sec, SameSections
  <2>3. Len(mod.vec[Sec.type].elt) = todo
    BY <1>1, <1>5, <2>2 DEF LoopInside
  <2> QED  BY <2>1, <2>2, <2>3
<1> QED  BY <1>2, <1>3, <1>4, <1>5

\* The turns of a loop that write nothing: a section is left when all of its
\* entries are there, or its loop has no turn.
QuietTurn ==
    \/ NextSection /\ (Sec.type \in Counted => item > todo /\ probe = 0)
    \/ item = 0 /\ GoesOn(1, 0)
    \/ item = 0 /\ Sec.type = Import /\ probe' # 0
    \/ item # 0 /\ NextTurn /\ Sec.type \in {Table, Global, Data, Elem}

\* Steps that move the cursor at most.
LEMMA QuietSteps ==
    ASSUME Typed,
           \/ NoCount \/ SectionEnds \/ SkipSection \/ PlainEntry \/ ParseStart
           \/ BeginImports \/ ParseEnds
           \/ ZeroCount /\ Sec.type # Type
    PROVE  /\ pc = "parse" /\ Control /\ UNCHANGED <<live, fails, nxt>>
           /\ probe' \in Nat /\ UNCHANGED <<cells, short, fpos, back>>
           /\ Keeps /\ SameHandlers /\ SameEntries /\ LoopInside'
           /\ pc' = "parse" => QuietTurn /\ (NextSection \/ (at' = at /\ item' # 0))
<1> USE DEF Parsing, Begins, Turn
<1>1. CASE NoCount \/ SectionEnds \/ SkipSection
  <2>1. pc = "parse" /\ mod' = mod /\ (Errs \/ NextSection)
        /\ UNCHANGED <<live, fails, nxt>> /\ UnchangedFile
    BY <1>1 DEF NoCount, SectionEnds, SkipSection, UnchangedHeap
  <2>2. probe \in Nat
    BY TypedParts DEF Typed
  <2>3. Control
    BY <2>1 DEF Control, Errs
  <2>4. Keeps /\ SameHandlers /\ SameEntries
    BY <2>1, SameModule
  <2>5. at <= Len(mod.secs)
    BY <1>1 DEF NoCount, SectionEnds, SkipSection
  <2>6. LoopInside'
    BY <2>1, <2>4, <2>5, LoopStays DEF Errs, Keeps, SameEntries
  <2>7. pc' = "parse" => NextSection /\ (Sec.type \in Counted => item > todo /\ probe = 0)
    <3>1. pc' = "parse" => NextSection /\ ~NoCount
      BY <2>1 DEF Errs, NoCount
    <3>2. SkipSection => Sec.type \notin Counted
      BY DEF SkipSection, Counted, Vectors, Custom, Code, Import, Type, Function, Table,
             Memory, Global, Export, Elem, Data
    <3> QED  BY <1>1, <3>1, <3>2 DEF SectionEnds
  <2> QED  BY <2>1, <2>2, <2>3, <2>4, <2>6, <2>7 DEF UnchangedFile, QuietTurn
<1>2. CASE ParseEnds
  <2>1. probe \in Nat
    BY TypedParts DEF Typed
  <2>2. Keeps /\ SameHandlers /\ SameEntries
    BY <1>2, SameModule DEF ParseEnds
  <2>3. LoopInside'
    BY <1>2 DEF ParseEnds, LoopInside
  <2> QED  BY <1>2, <2>1, <2>2, <2>3 DEF ParseEnds, Control, UnchangedHeap, UnchangedFile
<1>3. CASE PlainEntry
  <2>1. PICK t \in {Table, Global, Data} :
           /\ Turn(t)
           /\ LET end == PlainEnd(t, Sec.pos, Sec.last)
              IN IF end = 0 THEN Errs /\ UNCHANGED mod
                            ELSE NextTurn /\ mod' = Moved(mod, end)
           /\ UNCHANGED nxt /\ UnchangedFile /\ UnchangedHeap
    BY <1>3 DEF PlainEntry
  <2>2. /\ pc = "parse" /\ at <= Len(mod.secs) /\ UNCHANGED <<live, fails, nxt, probe>>
        /\ UNCHANGED <<cells, short, fpos, back>> /\ probe \in Nat
    BY <2>1, TypedParts DEF UnchangedHeap, UnchangedFile, Typed
  <2> DEFINE end == PlainEnd(t, Sec.pos, Sec.last)
  <2>3. end \in Nat
    <3>1. /\ Sec.pos \in Nat \ {0} /\ Sec.last \in Nat
          /\ \A p \in Nat \ {0} : p < Sec.last => cells[p] \in Nat
      BY <2>2, InSection DEF Sec
    <3>2. /\ TableEnd(Sec.pos, Sec.last) \in Nat /\ GlobalEnd(Sec.pos, Sec.last) \in Nat
          /\ DataEnd(Sec.pos, Sec.last) \in Nat
      BY <3>1, EndsTyped
    <3> QED  BY <3>2 DEF PlainEnd, Table, Global, Data
  <2> HIDE DEF end
  <2>4. CASE end = 0
    <3>1. Errs /\ mod' = mod
      BY <2>1, <2>4 DEF end
    <3>2. LoopInside'
      BY <3>1 DEF Errs, LoopInside
    <3> QED  BY <2>2, <3>1, <3>2, SameModule DEF Control, Errs
  <2>5. CASE end # 0
    <3>1. NextTurn /\ mod' = Moved(mod, end) /\ end \in Nat \ {0}
      BY <2>1, <2>3, <2>5 DEF end
    <3>2. Keeps /\ SameHandlers /\ SameEntries
      BY <2>2, <3>1, MovedOnly
    <3>3. Control
      BY <3>1 DEF Control, Errs
    <3>4. LoopInside'
      BY <2>1, <2>2, <3>1, <3>2, LoopStays DEF Keeps, SameEntries
    <3>5. at' = at /\ item' # 0 /\ QuietTurn
      <4>1. item \in Nat /\ todo \in Nat /\ item \in 1..todo /\ Sec.type = t
        BY <2>1, TypedParts DEF Typed, LoopTyped
      <4> QED  BY <3>1, <4>1 DEF NextTurn, GoesOn, QuietTurn
    <3> QED  BY <2>2, <3>2, <3>3, <3>4, <3>5
  <2> QED  BY <2>4, <2>5
<1>4. CASE BeginImports
  <2>1. /\ pc = "parse" /\ at <= Len(mod.secs) /\ Sec.pos < Sec.last
        /\ GoesOn(1, cells[Sec.pos]) /\ mod' = Moved(mod, Sec.pos + 1)
        /\ probe' = Sec.pos + 1 /\ UNCHANGED <<cells, short, fpos, back, nxt, live, fails>>
    BY <1>4 DEF BeginImports, UnchangedHeap
  <2>2. Sec.pos \in Nat \ {0} /\ cells[Sec.pos] \in Nat
    BY <2>1, InSection DEF Sec
  <2>3. Sec.pos + 1 \in Nat \ {0} /\ 1 \in Nat
    BY <2>2
  <2>5. Keeps /\ SameHandlers /\ SameEntries
    BY <2>1, <2>3, MovedOnly
  <2>6. Control
    BY <2>1, <2>2 DEF Control, Errs
  <2>7. at' = at /\ Sec.type \notin Vectors
    BY <1>4 DEF BeginImports, GoesOn, Import, Vectors, Type, Function, Table, Memory,
                Global, Export, Elem, Data
  <2>8. LoopInside'
    BY <2>1, <2>5, <2>7, LoopStays DEF Keeps, SameEntries
  <2>9. at' = at /\ item' # 0 /\ QuietTurn
    BY <1>4, <2>1, <2>3 DEF BeginImports, GoesOn, QuietTurn
  <2> QED  BY <2>1, <2>2, <2>3, <2>5, <2>6, <2>8, <2>9
<1>5. CASE ZeroCount /\ Sec.type # Type
  <2>1. /\ pc = "parse" /\ at <= Len(mod.secs)
        /\ GoesOn(1, 0) /\ mod' = Moved(mod, Sec.pos + 1)
        /\ probe' = probe /\ UNCHANGED <<cells, short, fpos, back, nxt, live, fails>>
    BY <1>5 DEF ZeroCount, UnchangedHeap, UnchangedFile
  <2>2. Sec.pos \in Nat \ {0} /\ probe \in Nat
    BY <2>1, InSection, TypedParts DEF Sec, Typed
  <2>3. Sec.pos + 1 \in Nat \ {0} /\ 1 \in Nat /\ 0 \in Nat
    BY <2>2
  <2>5. Keeps /\ SameHandlers /\ SameEntries
    BY <2>1, <2>3, MovedOnly
  <2>6. Control
    BY <2>1, <2>2 DEF Control, Errs
  <2>7. LoopInside'
    BY <2>1, <2>5, LoopStays DEF Keeps, SameEntries
  <2>8. at' = at /\ item' # 0 /\ QuietTurn
    BY <1>5, <2>1 DEF ZeroCount, GoesOn, QuietTurn
  <2> QED  BY <2>1, <2>2, <2>3, <2>5, <2>6, <2>7, <2>8
<1>6. CASE ParseStart
  <2> DEFINE f == cells[Sec.pos]
  <2>1. /\ pc = "parse" /\ at <= Len(mod.secs) /\ Sec.pos < Sec.last
        /\ \/ Errs /\ mod' = mod
           \/ /\ mod' = [mod EXCEPT !.start = IF f = 0 THEN @ ELSE f]
              /\ Errs \/ NextSection
        /\ probe' = probe /\ UNCHANGED <<cells, short, fpos, back, nxt, live, fails>>
    BY <1>6 DEF ParseStart, UnchangedHeap, UnchangedFile
  <2>2. f \in Nat /\ probe \in Nat /\ IsModule(mod)
    BY <2>1, InSection, TypedParts DEF Sec, Typed
  <2> HIDE DEF f
  <2>5. Control
    BY <2>1 DEF Control, Errs
  <2>6. pc' = "parse" => NextSection /\ QuietTurn
    <3>1. Sec.type \notin Counted
      BY <1>6 DEF ParseStart, Start, Counted, Vectors, Import, Type, Function, Table,
                  Memory, Global, Export, Elem, Data
    <3> QED  BY <2>1, <3>1 DEF Errs, QuietTurn
  <2>3. CASE mod' = [mod EXCEPT !.start = IF f = 0 THEN @ ELSE f]
    <3> DEFINE new == IF f = 0 THEN mod.start ELSE f
    <3>1. new \in Nat
      BY <2>2 DEF IsModule
    <3>2. mod' = [filedata |-> mod.filedata, secs |-> mod.secs, code |-> mod.code,
                  start |-> new, vec |-> mod.vec, imp |-> mod.imp, instance |-> mod.instance]
      BY <2>2, <2>3 DEF IsModule
    <3> HIDE DEF new
    <3>3. /\ mod'.secs = mod.secs /\ mod'.imp = mod.imp /\ mod'.code = mod.code
          /\ mod'.start = new /\ mod'.filedata = mod.filedata
          /\ mod'.instance = mod.instance /\ mod'.vec = mod.vec
      BY <3>2
    <3>4. IsModule(mod')
      BY <2>2, <3>1, <3>2, <3>3 DEF IsModule
    <3>5. Keeps /\ SameHandlers /\ SameEntries
      BY <3>3, <3>4 DEF Keeps, SameHandlers, SameEntries, SameSections
    <3>6. LoopInside'
      BY <2>1, <2>3, <3>5, LoopStays DEF Errs, Keeps, SameEntries
    <3> QED  BY <2>1, <2>2, <2>5, <2>6, <3>5, <3>6
  <2>4. CASE mod' = mod
    <3>1. Keeps /\ SameHandlers /\ SameEntries
      BY <2>4, SameModule
    <3>2. LoopInside'
      BY <2>1, <3>1, LoopStays DEF Errs, Keeps, SameEntries
    <3> QED  BY <2>1, <2>2, <2>5, <2>6, <3>1, <3>2
  <2> QED  BY <2>1, <2>3, <2>4
<1> QED  BY <1>1, <1>2, <1>3, <1>4, <1>5, <1>6

-----------------------------------------------------------------------------
(***************************************************************************)
(* What the steps of fw_module_parse write                                 *)
(***************************************************************************)
\* fw_malloc was asked for S.
HeapGrew(S) ==
    /\ fails' \in Nat /\ fails' <= fails
    /\ live' = live \cup (S \ {Null})
    /\ fails' = fails => Null \notin S

LEMMA HeapStaysTyped ==
    ASSUME HeapTyped, NEW S, HeapGrew(S), Wild \notin S
    PROVE  HeapTyped'
BY DEF HeapTyped, HeapGrew

LEMMA ObjsTyped ==
    ASSUME NEW what \in PtrKinds \ {"NULL", "wild"}, NEW i \in Nat, NEW j \in Nat,
           NEW o \in Answer(Obj(what, i, j))
    PROVE  /\ o \in Ptrs /\ Wild \notin {o}
           /\ Obj(what, i, j) \in Ptrs /\ Obj(what, i, j) \notin {Null, Wild}
<1>1. Null \in Ptrs /\ Null # Wild
  BY DEF Null, Wild, Obj, Ptrs, PtrKinds
<1>2. Obj(what, i, j) \in Ptrs /\ Obj(what, i, j) # Null /\ Obj(what, i, j) # Wild
  BY DEF Obj, Ptrs, Null, Wild
<1>3. o \in {Obj(what, i, j), Null}
  BY DEF Answer
<1> QED  BY <1>1, <1>2, <1>3

\* An array is allocated, each of its entries the same.
LEMMA SameSeq ==
    ASSUME NEW S, NEW e \in S, NEW n \in Nat
    PROVE  /\ [i \in 1..n |-> e] \in Seq(S) /\ Len([i \in 1..n |-> e]) = n
<1>1. [i \in 1..n |-> e] \in [1..n -> S]
  OBVIOUS
<1> QED  BY <1>1, IsASeq, LenProperties

EntriesOf(k) == IF k = Function THEN FuncRecs ELSE EntryRecs

SameFrees(q, m) == \A i \in 1..Len(m.secs) : q.secs[i].free = m.secs[i].free

\* The entry the loop is at is written, a cursor may move.
Wrote(q, m, k, e) ==
    /\ IsModule(q) /\ SameSections(q, m) /\ SameFrees(q, m)
    /\ q.imp = m.imp /\ q.code = m.code
    /\ q.filedata = m.filedata /\ q.instance = m.instance
    /\ \A j \in Vectors \ {k} : q.vec[j] = m.vec[j]
    /\ q.vec[k].cnt = m.vec[k].cnt /\ q.vec[k].arr = m.vec[k].arr
    /\ Len(q.vec[k].elt) = Len(m.vec[k].elt)
    /\ \A i \in 1..Len(m.vec[k].elt) :
          q.vec[k].elt[i] = IF i = item THEN e ELSE m.vec[k].elt[i]

LEMMA EntryWritten ==
    ASSUME NEW m, IsModule(m), NEW k \in Vectors, item \in 1..Len(m.vec[k].elt),
           NEW e \in EntriesOf(k)
    PROVE  Wrote([m EXCEPT !.vec[k].elt[item] = e], m, k, e)
<1> SUFFICES ASSUME NEW q, q = [m EXCEPT !.vec[k].elt[item] = e]
             PROVE  Wrote(q, m, k, e)
  OBVIOUS
<1> DEFINE new == [m.vec[k].elt EXCEPT ![item] = e]
           r   == [m.vec[k] EXCEPT !.elt = new]
<1>1. m.vec[k] \in VecRecs(k)
  BY DEF IsModule
<1>2. m.vec[k].elt \in Seq(EntriesOf(k))
  BY <1>1 DEF VecRecs, EntriesOf
<1>3. /\ new \in Seq(EntriesOf(k)) /\ Len(new) = Len(m.vec[k].elt)
      /\ \A i \in 1..Len(m.vec[k].elt) : new[i] = IF i = item THEN e ELSE m.vec[k].elt[i]
  BY <1>2, ExceptSeq
<1> HIDE DEF new
<1>4. r \in VecRecs(k) /\ r.cnt = m.vec[k].cnt /\ r.arr = m.vec[k].arr /\ r.elt = new
  BY <1>1, <1>3 DEF VecRecs, EntriesOf
<1>5. q = WithVector(m, k, r)
  BY DEF new, WithVector
<1> HIDE DEF r
<1>6. LET p == WithVector(m, k, r) IN
      /\ IsModule(p) /\ p.secs = m.secs
      /\ p.imp = m.imp /\ p.code = m.code /\ p.start = m.start
      /\ p.filedata = m.filedata /\ p.instance = m.instance
      /\ p.vec[k] = r /\ \A j \in Vectors \ {k} : p.vec[j] = m.vec[j]
  BY <1>4, VectorSet
<1>7. /\ IsModule(q) /\ q.secs = m.secs
      /\ q.imp = m.imp /\ q.code = m.code
      /\ q.filedata = m.filedata /\ q.instance = m.instance
      /\ q.vec[k] = r /\ \A j \in Vectors \ {k} : q.vec[j] = m.vec[j]
  BY <1>5, <1>6
<1> QED  BY <1>3, <1>4, <1>7 DEF Wrote, SameSections, SameFrees

LEMMA WroteTwice ==
    ASSUME NEW m, NEW k \in Vectors, NEW n, NEW d, NEW q, NEW e,
           IsModule(m), Wrote(n, m, k, d), Wrote(q, n, k, e)
    PROVE  Wrote(q, m, k, e)
BY DEF Wrote, SameSections, SameFrees

LEMMA WroteAndMoved ==
    ASSUME Typed, pc = "parse", at <= Len(mod.secs), NEW k \in Vectors, NEW e, NEW m,
           Wrote(m, mod, k, e), NEW pos \in Nat \ {0}
    PROVE  Wrote(Moved(m, pos), mod, k, e)
<1> DEFINE q == Moved(m, pos)
<1>1. IsModule(m) /\ SameSections(m, mod)
  BY DEF Wrote
<1>2. /\ IsModule(q) /\ SameSections(q, mod)
      /\ q.code = m.code /\ q.filedata = m.filedata /\ q.instance = m.instance
      /\ q.vec = m.vec /\ q.imp = m.imp
      /\ \A i \in 1..Len(mod.secs) : q.secs[i].free = m.secs[i].free
  BY <1>1, MovedModule
<1> HIDE DEF q
<1>3. Wrote(q, mod, k, e)
  BY <1>2 DEF Wrote, SameFrees
<1> QED  BY <1>3 DEF q

\* What an entry owns that is written in this turn.
HeldEntry(k, e) ==
    \/ e.own = Null
    \/ (e.own = Wild /\ k # Function)
    \/ (e.own = Obj(OwnKind(k), at, item) /\ e.own \in live')

LEMMA OwnHeld ==
    ASSUME NEW k, NEW t \in Answer(Obj(OwnKind(k), at, item)), HeapGrew({t}),
           NEW e, e.own = t
    PROVE  HeldEntry(k, e)
BY DEF HeldEntry, HeapGrew, Answer

LEMMA OwnKinds ==
    /\ OwnKind(Type) = "type" /\ OwnKind(Function) = "locals"
    /\ OwnKind(Export) = "name" /\ OwnKind(Elem) = "funcs"
BY DEF OwnKind, Type, Function, Export, Elem

\* The vectors whose entries are written.
Filled == {Type, Function, Export, Elem}

LEMMA FilledVectors == Filled \subseteq Vectors
BY DEF Filled, Vectors

\* What is there of an entry when the loop leaves it and nothing has failed.
DoneEntry(k, e) ==
    (pc' = "parse" /\ fails' = fails) =>
        /\ e.own \in live' /\ live' = live \cup {e.own}
        /\ k = Function => e.ready /\ \E idx \in Nat : e.type = TypeAt(idx)

(* What a step of fw_module_parse may write of the vectors, the imports    *)
(* and the handlers: an entry,                                             *)
EntryWrites ==
    \E k \in Filled : \E e \in EntriesOf(k) :
        /\ Turn(k) /\ Wrote(mod', mod, k, e) /\ HeldEntry(k, e) /\ DoneEntry(k, e)
        /\ NextTurn \/ pc' # "parse"

\* a new array,
VectorBegun(k) ==
    /\ \E n \in Nat \ {0} :
          /\ GoesOn(1, n)
          /\ mod'.vec[k].cnt = n /\ Len(mod'.vec[k].elt) = n
          /\ \A i \in 1..n : mod'.vec[k].elt[i]
               = (IF k = Function THEN NoFunc ELSE Unwritten)
    /\ mod'.vec[k].arr = Array(0) /\ HeapGrew({Array(0)})
    /\ mod'.imp = mod.imp
    /\ \A j \in Vectors \ {k} : mod'.vec[j] = mod.vec[j]
    /\ \A i \in 1..Len(mod.secs) : mod'.secs[i].free
         = IF i = at THEN (IF k = Type THEN 0 ELSE k) ELSE mod.secs[i].free

\* or none,
VectorRests(k) ==
    /\ mod'.imp = mod.imp
    /\ \A j \in Vectors : /\ j # k => mod'.vec[j] = mod.vec[j]
                          /\ mod'.vec[j].elt = mod.vec[j].elt
    /\ mod'.vec[k].arr \in {mod.vec[k].arr, Null}
    /\ k = Type => mod'.vec[k].arr = Null \/ mod'.vec[k].cnt = 0
    /\ \A i \in 1..Len(mod.secs) :
          \/ mod'.secs[i].free = mod.secs[i].free
          \/ (i = at /\ k = Memory /\ mod'.secs[i].free = Memory)
    /\ pc' = "parse" => /\ GoesOn(1, 0) /\ mod'.vec[k].cnt \in {0, mod.vec[k].cnt}
                      /\ live' = live

VectorWrites ==
    \E k \in Vectors : Begins(k) /\ (VectorBegun(k) \/ VectorRests(k))

\* a count of imports, or their arrays up to one that fails,
ImportsGrow ==
    /\ Counting /\ SameFrees(mod', mod) /\ mod'.vec = mod.vec
    /\ \A k \in Kinds : mod'.imp[k].cnt = 0 =>
                          mod.imp[k].cnt = 0 /\ mod'.imp[k].arr = mod.imp[k].arr
    /\ pc' = "parse" => /\ NextTurn /\ probe' # 0 /\ live' = live
                        /\ \A k \in Kinds : mod'.imp[k].arr = mod.imp[k].arr
                                            /\ mod'.imp[k].elt = mod.imp[k].elt

\* all their arrays, each of their entries cleared,
ImportsBegun ==
    /\ GoesOn(1, todo) /\ nxt' = [k \in Kinds |-> 1] /\ probe' = 0
    /\ mod'.vec = mod.vec
    /\ \A i \in 1..Len(mod.secs) : mod'.secs[i].free
         = IF i = at THEN Import ELSE mod.secs[i].free
    /\ \A k \in Kinds : mod'.imp[k]
         = IF mod.imp[k].cnt > 0
           THEN [cnt |-> mod.imp[k].cnt, arr |-> Array(k),
                 elt |-> [i \in 1..mod.imp[k].cnt |-> NoImport]]
           ELSE mod.imp[k]
    /\ HeapGrew({Array(k) : k \in {j \in Kinds : mod.imp[j].cnt > 0}})

\* or one import, at idx of its kind.
WroteImport(q, m, k, idx, e) ==
    /\ IsModule(q) /\ SameSections(q, m) /\ SameFrees(q, m)
    /\ q.vec = m.vec /\ q.code = m.code
    /\ q.filedata = m.filedata /\ q.instance = m.instance
    /\ \A j \in Kinds \ {k} : q.imp[j] = m.imp[j]
    /\ q.imp[k].cnt = m.imp[k].cnt /\ q.imp[k].arr = m.imp[k].arr
    /\ Len(q.imp[k].elt) = Len(m.imp[k].elt)
    /\ \A i \in 1..Len(m.imp[k].elt) :
          q.imp[k].elt[i] = IF i = idx THEN e ELSE m.imp[k].elt[i]

HeldImport(e) ==
    /\ e.f = Null \/ (e.f = FuncObj /\ e.f \in live')
    /\ e.mname = Null \/ (e.mname = MnameObj /\ e.mname \in live')
    /\ e.nsname = Null \/ (e.nsname = NsnameObj /\ e.nsname \in live')

DoneImport(k, e) ==
    /\ nxt' = [nxt EXCEPT ![k] = @ + 1]
    /\ fails' = fails => /\ live' = live \cup ({e.f, e.mname, e.nsname} \ {Null})
                         /\ k = FuncKind => Null \notin {e.mname, e.nsname, e.f}

ImportWrites ==
    /\ Turn(Import) /\ probe' = 0 /\ (NextTurn \/ pc' # "parse")
    /\ \E k \in Kinds : \E e \in ImportRecs :
          /\ nxt[k] <= Len(mod.imp[k].elt)
          /\ WroteImport(mod', mod, k, nxt[k], e) /\ HeldImport(e)
          /\ pc' = "parse" => DoneImport(k, e)

NothingWritten ==
    /\ SameFrees(mod', mod) /\ SameEntries
    /\ pc' = "parse" => QuietTurn /\ nxt' = nxt /\ live' = live

Writes == \/ NothingWritten \/ EntryWrites \/ VectorWrites
          \/ ImportsGrow \/ (Counting /\ ImportsBegun) \/ ImportWrites

\* The loop over the sections goes on, or the one through the entries.
Onward == pc' = "parse" => NextSection \/ (at' = at /\ item' # 0)

\* What a step of fw_module_parse keeps, and what it may change.
ParseStep ==
    /\ pc = "parse" /\ Control /\ Onward /\ Keeps /\ LoopInside'
    /\ HeapTyped' /\ fails' <= fails /\ live \subseteq live'
    /\ Writes
    /\ probe' \in Nat /\ nxt' \in [Kinds -> Nat]
    /\ UNCHANGED <<cells, short, fpos, back>>

\* A handler is at an entry of its array.
LEMMA AtEntry ==
    ASSUME Typed, NEW k \in Vectors, Turn(k)
    PROVE  /\ pc = "parse" /\ at \in 1..Len(mod.secs) /\ at <= Len(mod.secs) /\ at \in Nat
           /\ Sec.type = k /\ Sec.pos \in Nat \ {0} /\ Sec.last \in Nat
           /\ Sec.last <= Len(cells) + 1
           /\ \A p \in Nat \ {0} : p < Sec.last => cells[p] \in Nat
           /\ item \in 1..todo /\ item \in Nat /\ item \in 1..Len(mod.vec[k].elt)
           /\ mod.vec[k] \in VecRecs(k)
           /\ mod.vec[k].elt[item] \in EntriesOf(k)
<1>1. pc = "parse" /\ at <= Len(mod.secs) /\ Sec.type = k /\ item \in 1..todo
  BY DEF Turn, Parsing
<1>2. LoopInside /\ IsModule(mod) /\ item \in Nat /\ at \in Nat /\ todo \in Nat
  BY TypedParts DEF Typed, LoopTyped
<1>3. Len(mod.vec[k].elt) = todo /\ mod.vec[k] \in VecRecs(k)
  BY <1>1, <1>2 DEF LoopInside, IsModule
<1>4. mod.vec[k].elt[item] \in EntriesOf(k)
  <2>1. mod.vec[k].elt \in Seq(EntriesOf(k))
    BY <1>3 DEF VecRecs, EntriesOf
  <2> QED  BY <1>1, <1>3, <2>1, ElementOfSeq
<1> QED  BY <1>1, <1>2, <1>3, <1>4, InSection DEF Sec

\* A step that writes an entry at most.
LEMMA EntryKept ==
    ASSUME Typed, NEW k \in Filled, Turn(k), UNCHANGED nxt, UnchangedFile,
           Control, NextTurn \/ pc' # "parse",
           \/ mod' = mod /\ pc' # "parse"
           \/ \E e \in EntriesOf(k) :
                 Wrote(mod', mod, k, e) /\ HeldEntry(k, e) /\ DoneEntry(k, e),
           UnchangedHeap \/ \E S : HeapGrew(S) /\ Wild \notin S
    PROVE  ParseStep
<1>0. k \in Vectors
  BY DEF Filled, Vectors
<1>1. /\ pc = "parse" /\ at <= Len(mod.secs) /\ item \in 1..todo
      /\ probe \in Nat /\ nxt \in [Kinds -> Nat] /\ HeapTyped /\ fails \in Nat
  BY <1>0, AtEntry, TypedParts DEF Typed, HeapTyped
<1>2. Keeps /\ \A j \in Vectors : Len(mod'.vec[j].elt) = Len(mod.vec[j].elt)
  <2>1. CASE mod' = mod
    BY <2>1, SameModule
  <2>2. CASE \E e \in EntriesOf(k) : Wrote(mod', mod, k, e)
    BY <2>2 DEF Wrote, Keeps
  <2> QED  BY <2>1, <2>2
<1>3. LoopInside'
  BY <1>0, <1>1, <1>2, LoopStays DEF Keeps
<1>4. HeapTyped' /\ fails' <= fails /\ live \subseteq live'
  <2>1. CASE UnchangedHeap
    BY <1>1, <2>1 DEF UnchangedHeap, HeapTyped
  <2>2. CASE \E S : HeapGrew(S) /\ Wild \notin S
    BY <1>1, <2>2, HeapStaysTyped DEF HeapGrew
  <2> QED  BY <2>1, <2>2
<1>5. Writes
  <2>1. CASE mod' = mod /\ pc' # "parse"
    BY <2>1, SameModule DEF SameHandlers, SameFrees, Writes, NothingWritten
  <2>2. CASE \E e \in EntriesOf(k) :
                Wrote(mod', mod, k, e) /\ HeldEntry(k, e) /\ DoneEntry(k, e)
    BY <2>2 DEF Writes, EntryWrites
  <2> QED  BY <2>1, <2>2
<1>6. Onward
  BY <1>0, <1>1, AtEntry DEF Onward, NextTurn, GoesOn
<1> QED  BY <1>1, <1>2, <1>3, <1>4, <1>5, <1>6 DEF ParseStep, UnchangedFile

LEMMA TypeStep ==
    ASSUME Typed, TypeEntry
    PROVE  ParseStep
<1> DEFINE end == TypeEnd(Sec.pos, Sec.last)
           text == SubSeq(cells, Sec.pos + 1, end - 1)
           old == mod.vec[Type].elt[item]
<1>1. Turn(Type) /\ Type \in Filled /\ Type \in Vectors /\ UNCHANGED nxt /\ UnchangedFile
  BY DEF TypeEntry, Filled, Vectors
<1>2. /\ pc = "parse" /\ at <= Len(mod.secs) /\ at \in Nat /\ item \in Nat
      /\ item \in 1..Len(mod.vec[Type].elt) /\ old \in EntryRecs
      /\ IsModule(mod) /\ fails \in Nat /\ cells \in Seq(Nat)
  <2>1. /\ pc = "parse" /\ at <= Len(mod.secs) /\ at \in Nat /\ item \in Nat
        /\ item \in 1..Len(mod.vec[Type].elt) /\ old \in EntriesOf(Type)
    BY <1>1, AtEntry
  <2>2. EntriesOf(Type) = EntryRecs
    BY DEF EntriesOf, Type, Function
  <2>3. IsModule(mod) /\ fails \in Nat
    BY TypedParts DEF Typed, HeapTyped
  <2> QED  BY <2>1, <2>2, <2>3, InSection
<1>3. end \in 0..Sec.last /\ Sec.last <= Len(cells) + 1 /\ Sec.last \in Nat
      /\ Sec.pos \in Nat \ {0} /\ Len(cells) \in Nat
  BY <1>1, <1>2, AtEntry, EndsTyped, InSection
<1> HIDE DEF end, old
<1>4. CASE end = 0
  <2>1. Errs /\ mod' = mod /\ UnchangedHeap
    BY <1>4 DEF TypeEntry, end
  <2>2. Control
    BY <2>1 DEF Control, Errs
  <2> QED  BY <1>1, <2>1, <2>2, EntryKept DEF Errs
<1>5. CASE end # 0
  <2>1. PICK t \in Answer(Obj("type", at, item)) :
          /\ Mallocs(<<t>>)
          /\ mod' = Moved([Owns(mod, Type, t) EXCEPT !.vec[Type].elt[item].text = text], end)
          /\ IF t = Null THEN Errs ELSE NextTurn
    BY <1>5 DEF TypeEntry, end
  <2>2. t \in Ptrs /\ Wild \notin {t}
    BY <1>2, ObjsTyped DEF PtrKinds
  <2>3. HeapGrew({t})
    BY <1>2, <2>1, OneMalloc DEF HeapGrew
  <2>4. text \in Seq(Nat)
    <3>1. Sec.pos + 1 \in Nat \ {0} /\ end - 1 \in Int /\ end - 1 <= Len(cells)
      BY <1>3
    <3> QED  BY <1>2, <3>1, RunTyped
  <2> DEFINE d == [old EXCEPT !.own = t]
             n == Owns(mod, Type, t)
             e == [n.vec[Type].elt[item] EXCEPT !.text = text]
             q == [n EXCEPT !.vec[Type].elt[item].text = text]
  <2>5. d \in EntryRecs /\ d.own = t
    BY <1>2, <2>2 DEF EntryRecs
  <2>6. Wrote(n, mod, Type, d)
    <3>1. Wrote([mod EXCEPT !.vec[Type].elt[item] = d], mod, Type, d)
      <4>1. d \in EntriesOf(Type) /\ Type \in Vectors
        BY <1>1, <2>5 DEF EntriesOf, Type, Function
      <4> HIDE DEF d
      <4> QED  BY <1>2, <4>1, EntryWritten
    <3> QED  BY <3>1 DEF Owns, old
  <2> HIDE DEF n, d, text
  <2>7. n.vec[Type].elt[item] = d /\ IsModule(n) /\ item \in 1..Len(n.vec[Type].elt)
    BY <1>2, <2>6 DEF Wrote
  <2>8. e \in EntryRecs /\ e.own = t
    BY <2>4, <2>5, <2>7 DEF EntryRecs
  <2>9. Wrote(q, n, Type, e)
    <3>1. e \in EntriesOf(Type) /\ Type \in Vectors
      BY <1>1, <2>8 DEF EntriesOf, Type, Function
    <3>2. Wrote([n EXCEPT !.vec[Type].elt[item] = e], n, Type, e)
      <4> HIDE DEF e
      <4> QED  BY <2>7, <3>1, EntryWritten
    <3> QED  BY <3>2
  <2>10. mod' = Moved(q, end)
    BY <2>1 DEF n, text
  <2> HIDE DEF q, e
  <2>11. Wrote(q, mod, Type, e)
    BY <1>1, <1>2, <2>6, <2>9, WroteTwice
  <2>12. Wrote(mod', mod, Type, e)
    <3>1. end \in Nat \ {0}
      BY <1>3, <1>5
    <3>2. Wrote(Moved(q, end), mod, Type, e)
      BY <1>1, <1>2, <2>11, <3>1, WroteAndMoved
    <3> QED  BY <2>10, <3>2
  <2>13. Errs \/ NextTurn
    BY <2>1
  <2>14. e \in EntriesOf(Type)
    BY <2>8 DEF EntriesOf, Type, Function
  <2> QED
    <3>1. Control
      BY <2>13 DEF Control, Errs
    <3>2. NextTurn \/ pc' # "parse"
      BY <2>13 DEF Errs
    <3>3. \E S : HeapGrew(S) /\ Wild \notin S
      BY <2>2, <2>3
    <3>4. HeldEntry(Type, e)
      BY <2>3, <2>8, OwnHeld, OwnKinds
    <3>5. DoneEntry(Type, e)
      BY <2>3, <2>8 DEF DoneEntry, HeapGrew, Type, Function
    <3> QED  BY <1>1, <2>12, <2>14, <3>1, <3>2, <3>3, <3>4, <3>5, EntryKept
<1> QED  BY <1>4, <1>5

LEMMA ExportStep ==
    ASSUME Typed, ExportEntry
    PROVE  ParseStep
<1> DEFINE p == Sec.pos
           end == p + 1 + cells[p]
           text == SubSeq(cells, p + 1, end - 1)
           Stored(e) == [mod EXCEPT !.vec[Export].elt[item] = e]
           Named(s) == [Unwritten EXCEPT !.own = s, !.text = text]
           Full(s) == [Named(s) EXCEPT !.kind = cells[end], !.idx = cells[end + 1]]
           Nameless == [Unwritten EXCEPT !.own = Null]
<1>1. Turn(Export) /\ Export \in Filled /\ Export \in Vectors /\ UNCHANGED nxt /\ UnchangedFile
  BY DEF ExportEntry, Filled, Vectors
<1>2. /\ pc = "parse" /\ at <= Len(mod.secs) /\ at \in Nat /\ item \in Nat
      /\ item \in 1..Len(mod.vec[Export].elt)
      /\ IsModule(mod) /\ fails \in Nat /\ cells \in Seq(Nat)
  <2>1. /\ pc = "parse" /\ at <= Len(mod.secs) /\ at \in Nat /\ item \in Nat
        /\ item \in 1..Len(mod.vec[Export].elt)
    BY <1>1, AtEntry
  <2>2. IsModule(mod) /\ fails \in Nat
    BY TypedParts DEF Typed, HeapTyped
  <2> QED  BY <2>1, <2>2, InSection
<1>3. /\ p \in Nat \ {0} /\ Sec.last \in Nat /\ Sec.last <= Len(cells) + 1
      /\ \A i \in Nat \ {0} : i < Sec.last => cells[i] \in Nat
  BY <1>1, AtEntry
<1>4. EntriesOf(Export) = EntryRecs
  BY DEF EntriesOf, Export, Function
<1>5. \A e \in EntryRecs : Wrote(Stored(e), mod, Export, e)
  BY <1>1, <1>2, <1>4, EntryWritten
<1>6. CASE p >= Sec.last
  <2>1. Errs /\ mod' = mod /\ UnchangedHeap
    BY <1>6 DEF ExportEntry
  <2>2. Control
    BY <2>1 DEF Control, Errs
  <2> QED  BY <1>1, <2>1, <2>2, EntryKept DEF Errs
<1>7. CASE ~(p >= Sec.last)
  <2>1. PICK s \in Answer(Obj("name", at, item)) :
          /\ Mallocs(<<s>>)
          /\ IF s # Null /\ end > Len(cells) + 1
             THEN Lost("bad") /\ UNCHANGED mod
             ELSE IF end + 1 >= Sec.last
             THEN Errs /\ mod' = Stored(IF end > Len(cells) + 1 THEN Nameless ELSE Named(s))
             ELSE NextTurn /\ mod' = Moved(Stored(Full(s)), end + 2)
    BY <1>7 DEF ExportEntry
  <2>2. s \in Ptrs /\ Wild \notin {s}
    BY <1>2, ObjsTyped DEF PtrKinds
  <2>3. HeapGrew({s})
    BY <1>2, <2>1, OneMalloc DEF HeapGrew
  <2>4. cells[p] \in Nat /\ end \in Nat \ {0} /\ Len(cells) \in Nat
    <3>1. p < Sec.last /\ Len(cells) \in Nat
      BY <1>2, <1>3, <1>7, LenProperties
    <3>2. cells[p] \in Nat
      BY <1>3, <3>1
    <3> HIDE DEF p
    <3> QED  BY <1>3, <3>1, <3>2
  <2> HIDE DEF end
  <2>5. end <= Len(cells) + 1 => text \in Seq(Nat)
    <3>1. p + 1 \in Nat \ {0} /\ end - 1 \in Int /\ (end <= Len(cells) + 1 => end - 1 <= Len(cells))
      BY <1>3, <2>4
    <3> QED  BY <1>2, <3>1, RunTyped
  <2> HIDE DEF text, p, Stored
  <2>6. Unwritten \in EntryRecs /\ Nameless \in EntryRecs /\ Nameless.own = Null
    BY EmptySeq DEF Unwritten, EntryRecs, Ptrs, PtrKinds, Wild, Null, Obj
  <2> HIDE DEF Nameless
  <2>7. end <= Len(cells) + 1 => Named(s) \in EntryRecs /\ Named(s).own = s
    BY <2>2, <2>5, <2>6 DEF Unwritten, EntryRecs
  <2> HIDE DEF Named
  <2>8. end + 1 < Sec.last => Full(s) \in EntryRecs /\ Full(s).own = s
    <3> SUFFICES ASSUME end + 1 < Sec.last PROVE Full(s) \in EntryRecs /\ Full(s).own = s
      OBVIOUS
    <3>1. end <= Len(cells) + 1 /\ cells[end] \in Nat /\ cells[end + 1] \in Nat
      BY <1>3, <2>4
    <3> QED  BY <2>7, <3>1 DEF EntryRecs
  <2> HIDE DEF Full
  <2>9. \E S : HeapGrew(S) /\ Wild \notin S
    BY <2>2, <2>3
  <2>10. CASE s # Null /\ end > Len(cells) + 1
    <3>1. Lost("bad") /\ mod' = mod
      BY <2>1, <2>10
    <3>2. Control /\ pc' # "parse"
      BY <3>1 DEF Control, Lost, GoneStates, LostStates
    <3> QED  BY <1>1, <2>9, <3>1, <3>2, EntryKept
  <2>11. CASE ~(s # Null /\ end > Len(cells) + 1) /\ end + 1 >= Sec.last
    <3>1. Errs /\ mod' = Stored(IF end > Len(cells) + 1 THEN Nameless ELSE Named(s))
      BY <2>1, <2>11
    <3>2. (IF end > Len(cells) + 1 THEN Nameless ELSE Named(s)) \in EntryRecs
      BY <2>4, <2>6, <2>7
    <3>3. Control /\ pc' # "parse"
      BY <3>1 DEF Control, Errs
    <3>4. \E e \in EntriesOf(Export) :
            Wrote(mod', mod, Export, e) /\ HeldEntry(Export, e) /\ DoneEntry(Export, e)
      <4>1. HeldEntry(Export, Nameless)
        BY <2>6 DEF HeldEntry, Export, Function
      <4>2. end <= Len(cells) + 1 => HeldEntry(Export, Named(s))
        BY <2>3, <2>7, OwnHeld, OwnKinds
      <4>3. HeldEntry(Export, IF end > Len(cells) + 1 THEN Nameless ELSE Named(s))
        BY <2>4, <4>1, <4>2
      <4>4. \A e : DoneEntry(Export, e)
        BY <3>3 DEF DoneEntry
      <4> QED  BY <1>4, <1>5, <3>1, <3>2, <4>3, <4>4
    <3> QED  BY <1>1, <2>9, <3>3, <3>4, EntryKept
  <2>12. CASE ~(s # Null /\ end > Len(cells) + 1) /\ end + 1 < Sec.last
    <3>1. NextTurn /\ mod' = Moved(Stored(Full(s)), end + 2)
      BY <1>3, <2>1, <2>4, <2>12
    <3>2. end + 2 \in Nat \ {0} /\ Full(s) \in EntryRecs /\ Full(s).own = s
      BY <2>4, <2>8, <2>12
    <3>3. Wrote(Stored(Full(s)), mod, Export, Full(s))
      BY <1>5, <3>2
    <3>4. Wrote(mod', mod, Export, Full(s)) /\ Full(s) \in EntriesOf(Export)
      BY <1>1, <1>2, <1>4, <3>1, <3>2, <3>3, WroteAndMoved
    <3>5. Control
      BY <3>1 DEF Control, Errs
    <3>6. HeldEntry(Export, Full(s))
      BY <2>3, <3>2, OwnHeld, OwnKinds
    <3>7. DoneEntry(Export, Full(s))
      BY <2>3, <3>2 DEF DoneEntry, HeapGrew, Export, Function
    <3> QED  BY <1>1, <2>9, <3>1, <3>4, <3>5, <3>6, <3>7, EntryKept
  <2> QED  BY <1>3, <2>4, <2>10, <2>11, <2>12
<1> QED  BY <1>6, <1>7

LEMMA ElemStep ==
    ASSUME Typed, ElemEntry
    PROVE  ParseStep
<1> DEFINE expr == ExprEnd(Sec.pos + 1, Sec.last)
           old == mod.vec[Elem].elt[item]
<1>1. Turn(Elem) /\ Elem \in Filled /\ Elem \in Vectors /\ UNCHANGED nxt /\ UnchangedFile
  BY DEF ElemEntry, Filled, Vectors
<1>2. EntriesOf(Elem) = EntryRecs
  BY DEF EntriesOf, Elem, Function
<1>3. /\ pc = "parse" /\ at <= Len(mod.secs) /\ at \in Nat /\ item \in Nat
      /\ item \in 1..Len(mod.vec[Elem].elt) /\ old \in EntryRecs
      /\ IsModule(mod) /\ fails \in Nat
  <2>1. /\ pc = "parse" /\ at <= Len(mod.secs) /\ at \in Nat /\ item \in Nat
        /\ item \in 1..Len(mod.vec[Elem].elt) /\ old \in EntriesOf(Elem)
    BY <1>1, AtEntry
  <2>2. IsModule(mod) /\ fails \in Nat
    BY TypedParts DEF Typed, HeapTyped
  <2> QED  BY <1>2, <2>1, <2>2
<1>4. expr \in Nat
  <2>1. /\ Sec.pos + 1 \in Nat \ {0} /\ Sec.last \in Nat
        /\ \A i \in Nat \ {0} : i < Sec.last => cells[i] \in Nat
    BY <1>1, AtEntry
  <2> HIDE DEF expr
  <2>2. ExprEnd(Sec.pos + 1, Sec.last) \in 0..Sec.last
    BY <2>1, EndsTyped
  <2> QED  BY <2>1, <2>2 DEF expr
<1> HIDE DEF expr, old
<1>5. CASE Sec.pos >= Sec.last \/ expr = 0 \/ expr >= Sec.last
  <2>1. Errs /\ mod' = mod /\ UnchangedHeap
    BY <1>5 DEF ElemEntry, expr
  <2>2. Control
    BY <2>1 DEF Control, Errs
  <2> QED  BY <1>1, <2>1, <2>2, EntryKept DEF Errs
<1>6. CASE ~(Sec.pos >= Sec.last \/ expr = 0 \/ expr >= Sec.last) /\ cells[expr] = 0
  <2>1. NextTurn /\ mod' = Moved(mod, expr + 1) /\ UnchangedHeap
    BY <1>6 DEF ElemEntry, expr
  <2>2. Control
    BY <2>1 DEF Control, Errs
  <2>3. expr + 1 \in Nat \ {0} /\ probe \in Nat /\ nxt \in [Kinds -> Nat] /\ HeapTyped
    BY <1>4, TypedParts DEF Typed
  <2>4. Keeps /\ SameHandlers /\ SameEntries
    BY <1>3, <2>1, <2>3, MovedOnly
  <2>5. LoopInside'
    BY <1>1, <1>3, <2>1, <2>4, LoopStays, AtEntry DEF Keeps, SameEntries
  <2>6. HeapTyped' /\ fails' <= fails
    BY <1>3, <2>1, <2>3 DEF HeapTyped, UnchangedHeap
  <2>7. Writes /\ Onward
    <3>1. item # 0 /\ Sec.type = Elem /\ nxt' = nxt
      BY <1>1, AtEntry DEF Turn, Parsing
    <3>2. Writes
      BY <2>1, <2>4, <3>1
         DEF Writes, NothingWritten, SameHandlers, SameFrees, QuietTurn, UnchangedHeap
    <3>3. Onward
      BY <1>1, <2>1, AtEntry DEF Onward, NextTurn, GoesOn
    <3> QED  BY <3>2, <3>3
  <2>8. live \subseteq live'
    BY <2>1 DEF UnchangedHeap
  <2> QED  BY <1>1, <1>3, <2>2, <2>3, <2>4, <2>5, <2>6, <2>7, <2>8
           DEF ParseStep, UnchangedFile
<1>7. CASE ~(Sec.pos >= Sec.last \/ expr = 0 \/ expr >= Sec.last) /\ cells[expr] # 0
  <2>1. PICK f \in Answer(Obj("funcs", at, item)) :
          /\ Mallocs(<<f>>)
          /\ mod' = Moved(Owns(mod, Elem, f), expr + 2)
          /\ IF f = Null \/ expr + 1 >= Sec.last THEN Errs
             ELSE IF Unended(expr + 1) THEN Lost(Unending(expr + 1))
             ELSE NextTurn
    BY <1>7 DEF ElemEntry, expr
  <2>2. f \in Ptrs /\ Wild \notin {f}
    BY <1>3, ObjsTyped DEF PtrKinds
  <2>3. HeapGrew({f})
    BY <1>3, <2>1, OneMalloc DEF HeapGrew
  <2> DEFINE e == [old EXCEPT !.own = f]
  <2>4. e \in EntryRecs /\ e.own = f
    BY <1>3, <2>2 DEF EntryRecs
  <2>5. Wrote(Owns(mod, Elem, f), mod, Elem, e)
    <3>1. Wrote([mod EXCEPT !.vec[Elem].elt[item] = e], mod, Elem, e)
      <4> HIDE DEF e
      <4> QED  BY <1>1, <1>2, <1>3, <2>4, EntryWritten
    <3> QED  BY <3>1 DEF Owns, old
  <2> HIDE DEF e
  <2>6. Wrote(mod', mod, Elem, e)
    <3>1. expr + 2 \in Nat \ {0}
      BY <1>4
    <3> QED  BY <1>1, <1>3, <2>1, <2>5, <3>1, WroteAndMoved
  <2>7. Errs \/ NextTurn \/ \E how \in GoneStates : Lost(how)
    BY <2>1, UnendingGone DEF GoneStates
  <2> QED
    <3>1. Control
      BY <2>7 DEF Control, Errs
    <3>2. NextTurn \/ pc' # "parse"
      BY <2>7 DEF Errs, Lost, GoneStates, LostStates
    <3>3. \E S : HeapGrew(S) /\ Wild \notin S
      BY <2>2, <2>3
    <3>4. HeldEntry(Elem, e)
      BY <2>3, <2>4, OwnHeld, OwnKinds
    <3>5. DoneEntry(Elem, e)
      BY <2>3, <2>4 DEF DoneEntry, HeapGrew, Elem, Function
    <3> QED  BY <1>1, <1>2, <2>4, <2>6, <3>1, <3>2, <3>3, <3>4, <3>5, EntryKept
<1> QED  BY <1>5, <1>6, <1>7

\* The cursor of the code moves.
LEMMA MovedCodeModule ==
    ASSUME Typed, pc = "parse", NEW m, IsModule(m), SameSections(m, mod),
           NEW pos \in Nat \ {0}
    PROVE  LET q == MovedCode(m, pos) IN
           /\ IsModule(q) /\ SameSections(q, mod)
           /\ q.code = m.code /\ q.filedata = m.filedata /\ q.instance = m.instance
           /\ q.vec = m.vec /\ q.imp = m.imp
           /\ \A i \in 1..Len(mod.secs) : q.secs[i].free = m.secs[i].free
<1> DEFINE q == MovedCode(m, pos)
           c == mod.code
<1>1. c \in 1..Len(m.secs) /\ Len(m.secs) = Len(mod.secs)
  BY InSection DEF SameSections
<1>2. q = [m EXCEPT !.secs[c].pos = pos]
  BY DEF MovedCode
<1> HIDE DEF q, c
<1>3. /\ IsModule(q) /\ SameSections(q, m)
      /\ q.vec = m.vec /\ q.imp = m.imp /\ q.code = m.code
      /\ q.filedata = m.filedata /\ q.instance = m.instance
      /\ \A i \in 1..Len(m.secs) : q.secs[i].free = m.secs[i].free
  BY <1>1, <1>2, CursorMoved
<1>4. SameSections(q, mod)
  BY <1>1, <1>3 DEF SameSections
<1> QED  BY <1>1, <1>3, <1>4 DEF q

LEMMA WroteAndMovedCode ==
    ASSUME Typed, pc = "parse", NEW k \in Vectors, NEW e, NEW m,
           Wrote(m, mod, k, e), NEW pos \in Nat \ {0}
    PROVE  Wrote(MovedCode(m, pos), mod, k, e)
<1> DEFINE q == MovedCode(m, pos)
<1>1. IsModule(m) /\ SameSections(m, mod)
  BY DEF Wrote
<1>2. /\ IsModule(q) /\ SameSections(q, mod)
      /\ q.code = m.code /\ q.filedata = m.filedata /\ q.instance = m.instance
      /\ q.vec = m.vec /\ q.imp = m.imp
      /\ \A i \in 1..Len(mod.secs) : q.secs[i].free = m.secs[i].free
  BY <1>1, MovedCodeModule
<1> HIDE DEF q
<1>3. Wrote(q, mod, k, e)
  BY <1>2 DEF Wrote, SameFrees
<1> QED  BY <1>3 DEF q

LEMMA FuncStep ==
    ASSUME Typed, FuncEntry
    PROVE  ParseStep
<1> DEFINE idx   == cells[Sec.pos]
           p     == CodeSec.pos
           begun == [NoFunc EXCEPT !.ready = TRUE, !.type = TypeAt(idx)]
           first == p + 2 + 2 * cells[p + 1]
           body  == [begun EXCEPT !.first = first, !.last = BodyEnd(p)]
           Stored(f) == [mod EXCEPT !.vec[Function].elt[item] = f]
<1>1. Turn(Function) /\ Function \in Filled /\ Function \in Vectors /\ UNCHANGED nxt /\ UnchangedFile
  BY DEF FuncEntry, Filled, Vectors
<1>2. EntriesOf(Function) = FuncRecs
  BY DEF EntriesOf
<1>3. /\ pc = "parse" /\ at <= Len(mod.secs) /\ at \in Nat /\ item \in Nat
      /\ item \in 1..Len(mod.vec[Function].elt)
      /\ Sec.pos \in Nat \ {0} /\ Sec.last \in Nat
      /\ \A i \in Nat \ {0} : i < Sec.last => cells[i] \in Nat
  BY <1>1, AtEntry
<1>4. IsModule(mod) /\ fails \in Nat
  BY TypedParts DEF Typed, HeapTyped
<1>5. /\ p \in Nat \ {0} /\ CodeSec.last \in Nat
      /\ \A i \in Nat \ {0} : i < CodeSec.last => cells[i] \in Nat
  <2>1. mod.code \in 1..Len(mod.secs)
    BY <1>3, InSection
  <2> QED  BY <1>3, <2>1, InSection DEF CodeSec
<1>6. \A f \in FuncRecs : Wrote(Stored(f), mod, Function, f)
  BY <1>1, <1>2, <1>3, <1>4, EntryWritten
<1>7. CASE Sec.pos >= Sec.last \/ idx > Types.cnt
  <2>1. Errs /\ mod' = mod /\ UnchangedHeap
    BY <1>7 DEF FuncEntry
  <2>2. Control
    BY <2>1 DEF Control, Errs
  <2> QED  BY <1>1, <2>1, <2>2, EntryKept DEF Errs
<1>8. CASE ~(Sec.pos >= Sec.last \/ idx > Types.cnt) /\ Reads(Types.arr) # ""
  <2>1. Lost(Reads(Types.arr)) /\ mod' = mod /\ UnchangedHeap
    BY <1>8 DEF FuncEntry
  <2>2. Reads(Types.arr) \in LostStates
    BY <1>8, ReadsLost
  <2>3. Control /\ pc' # "parse"
    BY <2>1, <2>2 DEF Control, Lost, GoneStates, LostStates
  <2> QED  BY <1>1, <2>1, <2>3, EntryKept
<1>9. CASE ~(Sec.pos >= Sec.last \/ idx > Types.cnt) /\ ~(Reads(Types.arr) # "")
  <2>1. idx \in Nat
    <3>1. ~(Sec.pos >= Sec.last)
      BY <1>9
    <3>2. Sec.pos < Sec.last
      BY <1>3, <3>1
    <3> QED  BY <1>3, <3>2
  <2>2. TypeAt(idx) \in Ptrs
    <3>1. Type \in Vectors /\ Types.elt \in Seq(EntryRecs)
      BY <1>4 DEF Types, IsModule, VecRecs, Vectors, Type, Function
    <3>2. ASSUME idx < Len(Types.elt) PROVE Types.elt[idx + 1].own \in Ptrs
      <4> HIDE DEF idx
      <4>1. idx + 1 \in 1..Len(Types.elt)
        BY <2>1, <3>1, <3>2, LenProperties
      <4>2. Types.elt[idx + 1] \in EntryRecs
        BY <3>1, <4>1, ElementOfSeq
      <4> QED  BY <4>2 DEF EntryRecs
    <3>3. Wild \in Ptrs
      BY DEF Wild, Obj, Ptrs, PtrKinds
    <3> QED  BY <3>2, <3>3 DEF TypeAt
  <2>3. begun \in FuncRecs /\ begun.ready /\ begun.type = TypeAt(idx)
    <3>1. Null \in Ptrs
      BY DEF Null, Obj, Ptrs, PtrKinds
    <3> HIDE DEF idx
    <3> QED  BY <2>2, <3>1 DEF FuncRecs, NoFunc
  <2>4. CASE p + 1 >= CodeSec.last \/ first > CodeSec.last
    <3>1. Errs /\ mod' = Stored(begun) /\ UnchangedHeap
      BY <1>9, <2>4 DEF FuncEntry
    <3>2. Wrote(mod', mod, Function, begun)
      BY <1>6, <2>3, <3>1
    <3>3. Control /\ pc' # "parse"
      BY <3>1 DEF Control, Errs
    <3>4. HeldEntry(Function, begun) /\ DoneEntry(Function, begun)
      BY <3>3 DEF HeldEntry, NoFunc, DoneEntry
    <3> QED  BY <1>1, <1>2, <2>3, <3>1, <3>2, <3>3, <3>4, EntryKept
  <2>5. CASE ~(p + 1 >= CodeSec.last \/ first > CodeSec.last)
    <3>1. PICK l \in Answer(Obj("locals", at, item)) :
             /\ Mallocs(<<l>>)
             /\ mod' = Moved(MovedCode(Stored([body EXCEPT !.own = l]), body.last),
                             Sec.pos + 1)
             /\ IF l = Null THEN Errs
                ELSE IF TotalLocals(p + 2, cells[p + 1]) >= U32 THEN Lost("bad")
                ELSE NextTurn
      BY <1>9, <2>5 DEF FuncEntry
    <3>2. l \in Ptrs /\ Wild \notin {l}
      BY <1>3, ObjsTyped DEF PtrKinds
    <3>3. HeapGrew({l})
      BY <1>4, <3>1, OneMalloc DEF HeapGrew
    <3>4. first \in Nat /\ BodyEnd(p) \in Nat \ {0}
      <4>1. p + 1 < CodeSec.last /\ p < CodeSec.last /\ p + 1 \in Nat \ {0}
        BY <1>5, <2>5
      <4>2. cells[p] \in Nat /\ cells[p + 1] \in Nat
        BY <1>5, <4>1
      <4> HIDE DEF p
      <4> QED  BY <1>5, <4>2 DEF BodyEnd
    <3> DEFINE f == [body EXCEPT !.own = l]
    <3> HIDE DEF begun, p
    <3>5. /\ body \in FuncRecs /\ body.last = BodyEnd(p)
          /\ body.ready /\ body.type = TypeAt(idx)
      <4> HIDE DEF first
      <4> QED  BY <2>3, <3>4 DEF FuncRecs
    <3> HIDE DEF body
    <3>6. f \in FuncRecs /\ f.own = l /\ f.ready /\ f.type = TypeAt(idx)
      BY <3>2, <3>5 DEF FuncRecs
    <3>7. mod' = Moved(MovedCode(Stored(f), body.last), Sec.pos + 1)
      BY <3>1
    <3> HIDE DEF f
    <3>8. Wrote(Stored(f), mod, Function, f)
      BY <1>6, <3>6
    <3> HIDE DEF Stored
    <3>9. Wrote(MovedCode(Stored(f), body.last), mod, Function, f)
      BY <1>1, <1>3, <3>4, <3>5, <3>8, WroteAndMovedCode
    <3>10. Sec.pos + 1 \in Nat \ {0}
      BY <1>3
    <3>11. Wrote(mod', mod, Function, f)
      BY <1>1, <1>3, <3>7, <3>9, <3>10, WroteAndMoved
    <3>12. Errs \/ Lost("bad") \/ NextTurn
      BY <3>1
    <3> QED
      <4>1. Control
        BY <3>12 DEF Control, Errs, GoneStates, LostStates
      <4>2. NextTurn \/ pc' # "parse"
        BY <3>12 DEF Errs, Lost
      <4>3. \E S : HeapGrew(S) /\ Wild \notin S
        BY <3>2, <3>3
      <4>4. HeldEntry(Function, f)
        BY <3>3, <3>6, OwnHeld, OwnKinds
      <4>5. DoneEntry(Function, f)
        BY <2>1, <3>3, <3>6 DEF DoneEntry, HeapGrew
      <4> QED  BY <1>1, <1>2, <3>6, <3>11, <4>1, <4>2, <4>3, <4>4, <4>5, EntryKept
  <2> QED  BY <2>4, <2>5
<1> QED  BY <1>7, <1>8, <1>9

-----------------------------------------------------------------------------
(***************************************************************************)
(* The first turn of a handler                                             *)
(***************************************************************************)
\* A handler is before its count.
LEMMA AtCount ==
    ASSUME Typed, NEW t \in Counted \cup {Start}, Begins(t)
    PROVE  /\ pc = "parse" /\ at \in 1..Len(mod.secs) /\ at <= Len(mod.secs) /\ at \in Nat
           /\ Sec.type = t /\ item = 0 /\ Sec.pos \in Nat \ {0} /\ Sec.last \in Nat
           /\ Sec.pos < Sec.last => cells[Sec.pos] \in Nat
           /\ IsModule(mod) /\ HeapTyped /\ fails \in Nat
           /\ probe \in Nat /\ nxt \in [Kinds -> Nat]
<1>1. pc = "parse" /\ at <= Len(mod.secs) /\ Sec.type = t /\ item = 0
  BY DEF Begins, Parsing
<1>2. /\ IsModule(mod) /\ at \in Nat /\ HeapTyped /\ fails \in Nat
      /\ probe \in Nat /\ nxt \in [Kinds -> Nat]
  BY TypedParts DEF Typed, LoopTyped, HeapTyped
<1>3. /\ at \in 1..Len(mod.secs) /\ Sec.pos \in Nat \ {0} /\ Sec.last \in Nat
      /\ \A p \in Nat \ {0} : p < Sec.last => cells[p] \in Nat
  BY <1>1, InSection DEF Sec
<1> QED  BY <1>1, <1>2, <1>3

\* The step of a handler that begins, whatever it answers.
LEMMA BeginKept ==
    ASSUME Typed, NEW t \in Counted \cup {Start}, Begins(t), UNCHANGED nxt, UnchangedFile,
           Control, Keeps,
           \/ pc' # "parse" /\ SameFrees(mod', mod) /\ SameEntries
           \/ t \in Vectors /\ VectorRests(t) /\ (pc' # "parse" \/ GoesOn(1, 0))
           \/ t \in Vectors /\ VectorBegun(t),
           UnchangedHeap \/ \E S : HeapGrew(S) /\ Wild \notin S
    PROVE  ParseStep
<1>1. /\ pc = "parse" /\ at \in 1..Len(mod.secs) /\ Sec.type = t
      /\ probe \in Nat /\ nxt \in [Kinds -> Nat] /\ HeapTyped /\ fails \in Nat
  BY AtCount
<1>2. LoopInside'
  <2>1. CASE pc' # "parse"
    BY <2>1 DEF LoopInside
  <2>2. CASE t \in Vectors /\ VectorBegun(t)
    <3>1. at' = at /\ Len(mod'.vec[t].elt) = todo'
      BY <2>2 DEF VectorBegun, GoesOn
    <3>2. Sec'.type = t
      BY <1>1, <3>1 DEF Sec, Keeps, SameSections
    <3> QED  BY <3>1, <3>2 DEF LoopInside
  <2>3. CASE t \in Vectors /\ VectorRests(t) /\ GoesOn(1, 0)
    <3>1. GoesOn(1, 0) /\ \A j \in Vectors : mod'.vec[j].elt = mod.vec[j].elt
      BY <2>3 DEF VectorRests
    <3>2. at <= Len(mod.secs)
      BY AtCount
    <3> QED  BY <1>1, <3>1, <3>2, LoopStays DEF Keeps
  <2> QED  BY <2>1, <2>2, <2>3
<1>3. HeapTyped' /\ fails' <= fails /\ live \subseteq live'
  <2>1. CASE UnchangedHeap
    BY <1>1, <2>1 DEF UnchangedHeap, HeapTyped
  <2>2. CASE \E S : HeapGrew(S) /\ Wild \notin S
    BY <1>1, <2>2, HeapStaysTyped DEF HeapGrew
  <2> QED  BY <2>1, <2>2
<1>4. Writes
  <2>1. CASE pc' # "parse" /\ SameFrees(mod', mod) /\ SameEntries
    BY <2>1 DEF Writes, NothingWritten
  <2>2. CASE t \in Vectors /\ (VectorRests(t) \/ VectorBegun(t))
    BY <2>2 DEF Writes, VectorWrites
  <2> QED  BY <2>1, <2>2
<1>5. Onward
  <2>1. pc' # "parse" \/ \E n \in Nat : GoesOn(1, n)
    BY DEF VectorBegun
  <2> QED  BY <2>1 DEF Onward, GoesOn
<1> QED  BY <1>1, <1>2, <1>3, <1>4, <1>5 DEF ParseStep, UnchangedFile

LEMMA ZeroTypes ==
    ASSUME Typed, ZeroCount, Sec.type = Type
    PROVE  ParseStep
<1>1. /\ Begins(Type) /\ Sec.pos < Sec.last
      /\ mod' = Moved([mod EXCEPT !.vec[Type].cnt = 0], Sec.pos + 1)
      /\ GoesOn(1, 0) /\ UNCHANGED nxt /\ UnchangedFile /\ UnchangedHeap
  BY DEF ZeroCount, Begins, Parsing
<1>2. /\ pc = "parse" /\ at <= Len(mod.secs) /\ Sec.pos \in Nat \ {0}
      /\ IsModule(mod) /\ HeapTyped /\ fails \in Nat
      /\ probe \in Nat /\ nxt \in [Kinds -> Nat]
  BY <1>1, AtCount DEF Counted, Vectors
<1> DEFINE r == [mod.vec[Type] EXCEPT !.cnt = 0]
           m == WithVector(mod, Type, r)
<1>3. /\ r \in VecRecs(Type) /\ r.arr = mod.vec[Type].arr /\ r.elt = mod.vec[Type].elt
      /\ r.cnt = 0
  <2>1. mod.vec[Type] \in VecRecs(Type)
    BY <1>2 DEF IsModule, Vectors
  <2> QED  BY <2>1 DEF VecRecs, Type, Function
<1> HIDE DEF r
<1>4. /\ IsModule(m) /\ m.secs = mod.secs
      /\ m.imp = mod.imp /\ m.code = mod.code
      /\ m.filedata = mod.filedata /\ m.instance = mod.instance
      /\ m.vec[Type] = r /\ \A j \in Vectors \ {Type} : m.vec[j] = mod.vec[j]
  <2>1. Type \in Vectors
    BY DEF Vectors
  <2> QED  BY <1>2, <1>3, <2>1, VectorSet
<1>5. mod' = Moved(m, Sec.pos + 1)
  BY <1>1 DEF r, WithVector
<1> HIDE DEF m
<1>6. /\ IsModule(mod') /\ SameSections(mod', mod) /\ mod'.code = m.code
      /\ mod'.filedata = m.filedata /\ mod'.instance = m.instance
      /\ mod'.vec = m.vec /\ mod'.imp = m.imp
      /\ \A i \in 1..Len(mod.secs) : mod'.secs[i].free = m.secs[i].free
  <2>1. SameSections(m, mod) /\ Sec.pos + 1 \in Nat \ {0}
    BY <1>2, <1>4 DEF SameSections
  <2> QED  BY <1>2, <1>4, <1>5, <2>1, MovedModule
<1>7. Keeps
  BY <1>4, <1>6 DEF Keeps
<1>8. VectorRests(Type)
  BY <1>1, <1>3, <1>4, <1>6 DEF VectorRests, UnchangedHeap
<1>9. Control
  BY <1>1 DEF Control, Errs
<1> QED  BY <1>1, <1>2, <1>7, <1>8, <1>9, BeginKept DEF Counted, Vectors

\* A vector that is written, a handler that is set, two cursors that move.
WithArray(k, n, a, e, x) ==
    [mod EXCEPT !.vec[k] = [cnt |-> n, arr |-> a, elt |-> [i \in 1..n |-> e]],
                !.secs[at].free = x]

\* What has become of a module that was given the array of a section.
GivenArray(q, k, n, a, e, x) ==
    /\ IsModule(q) /\ SameSections(q, mod)
    /\ q.imp = mod.imp /\ q.code = mod.code
    /\ q.filedata = mod.filedata /\ q.instance = mod.instance
    /\ q.vec[k].cnt = n /\ q.vec[k].arr = a /\ Len(q.vec[k].elt) = n
    /\ \A i \in 1..n : q.vec[k].elt[i] = e
    /\ \A j \in Vectors \ {k} : q.vec[j] = mod.vec[j]
    /\ \A i \in 1..Len(mod.secs) : q.secs[i].free
         = IF i = at THEN x ELSE mod.secs[i].free

LEMMA ArrayGiven ==
    ASSUME Typed, NEW k \in Vectors, Begins(k), NEW n \in Nat, NEW a \in Ptrs,
           NEW x \in {0, Import} \cup Vectors, NEW e \in EntriesOf(k)
    PROVE  GivenArray(WithArray(k, n, a, e, x), k, n, a, e, x)
<1> DEFINE r == [cnt |-> n, arr |-> a, elt |-> [i \in 1..n |-> e]]
           m == WithVector(mod, k, r)
           p == WithHandler(m, at, x)
           q == WithArray(k, n, a, e, x)
<1>1. IsModule(mod) /\ at \in 1..Len(mod.secs)
  BY AtCount DEF Counted
<1>2. r \in VecRecs(k) /\ r.cnt = n /\ r.arr = a /\ Len(r.elt) = n
      /\ \A i \in 1..n : r.elt[i] = e
  BY SameSeq DEF VecRecs, EntriesOf
<1>3. q = p
  BY DEF WithArray, WithHandler, WithVector
<1> HIDE DEF r, q
<1>4. /\ IsModule(m) /\ m.secs = mod.secs
      /\ m.imp = mod.imp /\ m.code = mod.code
      /\ m.filedata = mod.filedata /\ m.instance = mod.instance
      /\ m.vec[k] = r /\ \A j \in Vectors \ {k} : m.vec[j] = mod.vec[j]
  BY <1>1, <1>2, VectorSet
<1> HIDE DEF m
<1>5. p = WithHandler(m, at, x) /\ at \in 1..Len(m.secs)
  BY <1>1, <1>4
<1> HIDE DEF p
<1>6. /\ IsModule(p) /\ SameSections(p, m)
      /\ p.vec = m.vec /\ p.imp = m.imp /\ p.code = m.code
      /\ p.filedata = m.filedata /\ p.instance = m.instance
      /\ \A i \in 1..Len(m.secs) : p.secs[i].free = IF i = at THEN x ELSE m.secs[i].free
  BY <1>4, <1>5, HandlerSet
<1>7. /\ IsModule(q) /\ SameSections(q, mod)
      /\ q.imp = mod.imp /\ q.code = mod.code
      /\ q.filedata = mod.filedata /\ q.instance = mod.instance
      /\ q.vec[k] = r /\ \A j \in Vectors \ {k} : q.vec[j] = mod.vec[j]
      /\ \A i \in 1..Len(mod.secs) : q.secs[i].free
           = IF i = at THEN x ELSE mod.secs[i].free
  BY <1>3, <1>4, <1>6 DEF SameSections
<1>8. /\ q.vec[k].cnt = n /\ q.vec[k].arr = a /\ Len(q.vec[k].elt) = n
      /\ \A i \in 1..n : q.vec[k].elt[i] = e
  BY <1>2, <1>7
<1> QED  BY <1>7, <1>8 DEF q, GivenArray

\* A vector is written and nothing else.
LEMMA VectorKept ==
    ASSUME NEW m, IsModule(m), SameSections(m, mod), NEW k \in Vectors, NEW r \in VecRecs(k)
    PROVE  LET q == WithVector(m, k, r) IN
           /\ IsModule(q) /\ SameSections(q, mod) /\ q.code = m.code
           /\ q.filedata = m.filedata /\ q.instance = m.instance
           /\ q.vec[k] = r /\ q.secs = m.secs /\ q.imp = m.imp
           /\ \A j \in Vectors \ {k} : q.vec[j] = m.vec[j]
<1> DEFINE q == WithVector(m, k, r)
<1>1. /\ IsModule(q) /\ q.secs = m.secs /\ q.code = m.code
      /\ q.filedata = m.filedata /\ q.instance = m.instance /\ q.vec[k] = r
      /\ q.imp = m.imp /\ \A j \in Vectors \ {k} : q.vec[j] = m.vec[j]
  BY VectorSet
<1> HIDE DEF q
<1>2. SameSections(q, mod)
  BY <1>1 DEF SameSections
<1> QED  BY <1>1, <1>2 DEF q

LEMMA VectorStep ==
    ASSUME Typed, BeginVector
    PROVE  ParseStep
<1>1. PICK k \in Vectors \ {Function, Memory} :
        /\ Begins(k)
        /\ Sec.pos < Sec.last /\ cells[Sec.pos] > 0
        /\ LET n == cells[Sec.pos]
           IN \E a \in Answer(Array(0)) :
                /\ Mallocs(<<a>>)
                /\ IF a = Null
                   THEN /\ Errs
                        /\ mod' = CASE k = Type  -> [mod EXCEPT !.vec[k].cnt = n,
                                                                !.vec[k].arr = Null]
                                    [] k = Table -> [mod EXCEPT !.vec[k].cnt = n]
                                    [] OTHER     -> mod
                   ELSE /\ GoesOn(1, n)
                        /\ mod' = Moved([mod EXCEPT
                              !.vec[k] = [cnt |-> n, arr |-> a,
                                          elt |-> [i \in 1..n |-> Unwritten]],
                              !.secs[at].free = IF k = Type THEN 0 ELSE k], Sec.pos + 1)
        /\ UNCHANGED nxt /\ UnchangedFile
  BY DEF BeginVector
<1> DEFINE n == cells[Sec.pos]
<1>2. PICK a \in Answer(Array(0)) :
                /\ Mallocs(<<a>>)
                /\ IF a = Null
                   THEN /\ Errs
                        /\ mod' = CASE k = Type  -> [mod EXCEPT !.vec[k].cnt = n,
                                                                !.vec[k].arr = Null]
                                    [] k = Table -> [mod EXCEPT !.vec[k].cnt = n]
                                    [] OTHER     -> mod
                   ELSE /\ GoesOn(1, n)
                        /\ mod' = Moved([mod EXCEPT
                              !.vec[k] = [cnt |-> n, arr |-> a,
                                          elt |-> [i \in 1..n |-> Unwritten]],
                              !.secs[at].free = IF k = Type THEN 0 ELSE k], Sec.pos + 1)
  BY <1>1
<1>3. Begins(k) /\ k \in Counted \cup {Start} /\ k \in Vectors
  BY <1>1 DEF Counted
<1>4. /\ pc = "parse" /\ at \in Nat /\ at <= Len(mod.secs) /\ Sec.pos \in Nat \ {0}
      /\ n \in Nat \ {0} /\ IsModule(mod) /\ fails \in Nat
  BY <1>1, <1>3, AtCount
<1> HIDE DEF n
<1>5. a \in Ptrs /\ Wild \notin {a}
  BY <1>4, ObjsTyped DEF PtrKinds, Array
<1>6. HeapGrew({a})
  BY <1>2, <1>4, OneMalloc DEF HeapGrew
<1>7. UNCHANGED nxt /\ UnchangedFile /\ \E S : HeapGrew(S) /\ Wild \notin S
  BY <1>1, <1>5, <1>6
<1>8. CASE a = Null
  <2>1. Errs
    BY <1>2, <1>8
  <2>2. mod.vec[k] \in VecRecs(k) /\ SameSections(mod, mod)
    BY <1>4 DEF IsModule, SameSections
  <2> DEFINE r == [mod.vec[k] EXCEPT !.cnt = n]
             m == WithVector(mod, k, r)
             s == [m.vec[k] EXCEPT !.arr = Null]
             q == WithVector(m, k, s)
  <2>3. mod' = q \/ (k # Type /\ (mod' = m \/ mod' = mod))
    BY <1>2, <1>8 DEF WithVector, Type, Table
  <2>4. r \in VecRecs(k) /\ r.elt = mod.vec[k].elt /\ r.arr = mod.vec[k].arr
    BY <1>4, <2>2 DEF VecRecs
  <2> HIDE DEF r
  <2>5. /\ IsModule(m) /\ SameSections(m, mod) /\ m.code = mod.code
        /\ m.filedata = mod.filedata /\ m.instance = mod.instance /\ m.vec[k] = r
        /\ m.secs = mod.secs /\ m.imp = mod.imp
        /\ \A j \in Vectors \ {k} : m.vec[j] = mod.vec[j]
    BY <1>4, <2>2, <2>4, VectorKept
  <2> HIDE DEF m
  <2>6. s \in VecRecs(k) /\ s.elt = r.elt /\ s.arr = Null
    <3>1. Null \in Ptrs
      BY DEF Null, Obj, Ptrs, PtrKinds
    <3> QED  BY <2>4, <2>5, <3>1 DEF VecRecs
  <2> HIDE DEF s
  <2>7. /\ IsModule(q) /\ SameSections(q, mod) /\ q.code = m.code
        /\ q.filedata = m.filedata /\ q.instance = m.instance /\ q.vec[k] = s
        /\ q.secs = m.secs /\ q.imp = m.imp
        /\ \A j \in Vectors \ {k} : q.vec[j] = m.vec[j]
    BY <2>5, <2>6, VectorKept
  <2> HIDE DEF q
  <2>8. Keeps
    BY <1>4, <2>2, <2>3, <2>5, <2>7 DEF Keeps
  <2>9. Control /\ pc' # "parse"
    BY <2>1 DEF Control, Errs
  <2>10. VectorRests(k)
    <3>1. CASE mod' = q
      BY <2>4, <2>5, <2>6, <2>7, <2>9, <3>1 DEF VectorRests
    <3>2. CASE k # Type /\ mod' = m
      BY <2>4, <2>5, <2>9, <3>2 DEF VectorRests
    <3>3. CASE k # Type /\ mod' = mod
      BY <2>9, <3>3 DEF VectorRests
    <3> QED  BY <2>3, <3>1, <3>2, <3>3
  <2> QED  BY <1>3, <1>7, <2>8, <2>9, <2>10, BeginKept
<1>9. CASE a # Null
  <2> DEFINE x == IF k = Type THEN 0 ELSE k
             q == WithArray(k, n, a, Unwritten, x)
  <2>1. GoesOn(1, n) /\ mod' = Moved(q, Sec.pos + 1)
    BY <1>2, <1>9 DEF WithArray
  <2>2. x \in {0, Import} \cup Vectors /\ Unwritten \in EntriesOf(k)
    <3>1. Unwritten \in EntryRecs
      BY EmptySeq DEF Unwritten, EntryRecs, Ptrs, PtrKinds, Wild, Obj
    <3>2. k # Function
      BY <1>1
    <3> QED  BY <1>3, <3>1, <3>2 DEF EntriesOf
  <2>3. /\ IsModule(q) /\ SameSections(q, mod)
        /\ q.imp = mod.imp /\ q.code = mod.code
        /\ q.filedata = mod.filedata /\ q.instance = mod.instance
        /\ q.vec[k].cnt = n /\ q.vec[k].arr = a /\ Len(q.vec[k].elt) = n
        /\ \A i \in 1..n : q.vec[k].elt[i] = Unwritten
        /\ \A j \in Vectors \ {k} : q.vec[j] = mod.vec[j]
        /\ \A i \in 1..Len(mod.secs) : q.secs[i].free
             = IF i = at THEN x ELSE mod.secs[i].free
    <3> HIDE DEF x
    <3>1. k \in Vectors /\ Begins(k) /\ n \in Nat /\ a \in Ptrs
      BY <1>3, <1>4, <1>5
    <3> HIDE DEF n
    <3>2. GivenArray(q, k, n, a, Unwritten, x)
      BY <2>2, <3>1, ArrayGiven
    <3> HIDE DEF q
    <3> QED  BY <3>2 DEF GivenArray
  <2> HIDE DEF q
  <2>4. Sec.pos + 1 \in Nat \ {0}
    BY <1>4
  <2>5. /\ IsModule(mod') /\ SameSections(mod', mod) /\ mod'.code = q.code
        /\ mod'.filedata = q.filedata /\ mod'.instance = q.instance
        /\ mod'.vec = q.vec /\ mod'.imp = q.imp
        /\ \A i \in 1..Len(mod.secs) : mod'.secs[i].free = q.secs[i].free
    <3>1. \A pos \in Nat \ {0} :
            /\ IsModule(Moved(q, pos)) /\ SameSections(Moved(q, pos), mod)
            /\ Moved(q, pos).code = q.code
            /\ Moved(q, pos).filedata = q.filedata /\ Moved(q, pos).instance = q.instance
            /\ Moved(q, pos).vec = q.vec /\ Moved(q, pos).imp = q.imp
            /\ \A i \in 1..Len(mod.secs) : Moved(q, pos).secs[i].free = q.secs[i].free
      BY <1>4, <2>3, MovedModule
    <3> QED  BY <2>1, <2>4, <3>1
  <2>6. Keeps
    BY <2>3, <2>5 DEF Keeps
  <2>7. VectorBegun(k)
    <3>1. mod'.vec[k].arr = Array(0) /\ HeapGrew({Array(0)})
      BY <1>6, <1>9, <2>3, <2>5 DEF Answer
    <3>2. k # Function
      BY <1>1
    <3> QED  BY <1>4, <2>1, <2>3, <2>5, <3>1, <3>2 DEF VectorBegun
  <2>8. Control
    BY <1>4, <2>1 DEF Control, Errs
  <2> QED  BY <1>3, <1>7, <2>6, <2>7, <2>8, BeginKept
<1> QED  BY <1>8, <1>9

LEMMA MemoryStep ==
    ASSUME Typed, BeginMemory
    PROVE  ParseStep
<1> DEFINE n == cells[Sec.pos]
<1>1. PICK a \in Answer(Array(0)) :
         /\ Mallocs(<<a>>)
         /\ mod' = [mod EXCEPT
                !.vec[Memory].cnt = n,
                !.vec[Memory].arr = IF a = Null THEN Null ELSE @,
                !.secs[at].free = IF a = Null THEN Memory ELSE @]
         /\ IF a = Null /\ Sec.pos + 1 < Sec.last
            THEN Lost(IF Unended(Sec.pos + 1) THEN Unending(Sec.pos + 1) ELSE "crash")
            ELSE Errs
  BY DEF BeginMemory
<1>2. Begins(Memory) /\ Memory \in Counted \cup {Start} /\ Memory \in Vectors
      /\ Sec.pos < Sec.last /\ UNCHANGED nxt /\ UnchangedFile
  BY DEF BeginMemory, Counted, Vectors
<1>3. /\ pc = "parse" /\ at \in Nat /\ at \in 1..Len(mod.secs)
      /\ n \in Nat /\ IsModule(mod) /\ fails \in Nat
  BY <1>2, AtCount
<1> HIDE DEF n
<1>4. \E S : HeapGrew(S) /\ Wild \notin S
  <2>1. Wild \notin {a}
    BY <1>3, ObjsTyped DEF PtrKinds, Array
  <2>2. HeapGrew({a})
    BY <1>1, <1>3, OneMalloc DEF HeapGrew
  <2> QED  BY <2>1, <2>2
<1> DEFINE r == [mod.vec[Memory] EXCEPT !.cnt = n]
           m == WithVector(mod, Memory, r)
           s == [m.vec[Memory] EXCEPT !.arr = IF a = Null THEN Null ELSE mod.vec[Memory].arr]
           q == WithVector(m, Memory, s)
           x == IF a = Null THEN Memory ELSE mod.secs[at].free
           p == WithHandler(q, at, x)
<1>5. mod' = p
  BY <1>1 DEF WithVector, WithHandler
<1>6. mod.vec[Memory] \in VecRecs(Memory) /\ SameSections(mod, mod)
  BY <1>2, <1>3 DEF IsModule, SameSections
<1>7. r \in VecRecs(Memory) /\ r.elt = mod.vec[Memory].elt /\ r.arr = mod.vec[Memory].arr
  BY <1>3, <1>6 DEF VecRecs
<1> HIDE DEF r
<1>8. /\ IsModule(m) /\ SameSections(m, mod) /\ m.code = mod.code
      /\ m.filedata = mod.filedata /\ m.instance = mod.instance /\ m.vec[Memory] = r
      /\ m.secs = mod.secs /\ m.imp = mod.imp
      /\ \A j \in Vectors \ {Memory} : m.vec[j] = mod.vec[j]
  BY <1>2, <1>3, <1>6, <1>7, VectorKept
<1> HIDE DEF m
<1>9. s \in VecRecs(Memory) /\ s.elt = r.elt /\ s.arr \in {r.arr, Null}
  <2>1. Null \in Ptrs
    BY DEF Null, Obj, Ptrs, PtrKinds
  <2> QED  BY <1>6, <1>7, <1>8, <2>1 DEF VecRecs
<1> HIDE DEF s
<1>10. /\ IsModule(q) /\ SameSections(q, mod) /\ q.code = m.code
       /\ q.filedata = m.filedata /\ q.instance = m.instance /\ q.vec[Memory] = s
       /\ q.secs = m.secs /\ q.imp = m.imp
       /\ \A j \in Vectors \ {Memory} : q.vec[j] = m.vec[j]
  BY <1>2, <1>8, <1>9, VectorKept
<1> HIDE DEF q
<1>11. /\ x \in {0, Import} \cup Vectors /\ at \in 1..Len(q.secs)
       /\ x \in {mod.secs[at].free, Memory}
  <2>1. at \in 1..Len(q.secs)
    BY <1>3, <1>10 DEF SameSections
  <2> QED  BY <1>2, <1>3, <2>1, SectionsOfModule
<1> HIDE DEF x
<1>12. /\ IsModule(p) /\ SameSections(p, q) /\ p.code = q.code
       /\ p.filedata = q.filedata /\ p.instance = q.instance
       /\ p.vec = q.vec /\ p.imp = q.imp
       /\ \A i \in 1..Len(q.secs) : p.secs[i].free = IF i = at THEN x ELSE q.secs[i].free
  BY <1>10, <1>11, HandlerSet
<1> HIDE DEF p
<1>13. Keeps
  BY <1>5, <1>8, <1>10, <1>12 DEF Keeps, SameSections
<1>14. Errs \/ \E how \in GoneStates : Lost(how)
  BY <1>1, UnendingGone DEF GoneStates, LostStates
<1>15. Control /\ pc' # "parse"
  BY <1>14 DEF Control, Errs, Lost, GoneStates, LostStates
<1>16. VectorRests(Memory)
  <2>1. mod'.vec = q.vec /\ mod'.imp = mod.imp
    BY <1>5, <1>8, <1>10, <1>12
  <2>2. /\ mod'.vec[Memory].elt = mod.vec[Memory].elt
        /\ mod'.vec[Memory].arr \in {mod.vec[Memory].arr, Null}
        /\ \A j \in Vectors \ {Memory} : mod'.vec[j] = mod.vec[j]
    BY <1>7, <1>8, <1>9, <1>10, <2>1
  <2>3. \A i \in 1..Len(mod.secs) :
          mod'.secs[i].free = mod.secs[i].free \/ (i = at /\ mod'.secs[i].free = Memory)
    BY <1>5, <1>8, <1>10, <1>11, <1>12
  <2> QED  BY <1>15, <2>1, <2>2, <2>3 DEF VectorRests, Memory, Type
<1> QED  BY <1>2, <1>4, <1>13, <1>15, <1>16, BeginKept

LEMMA FuncsStep ==
    ASSUME Typed, BeginFuncs
    PROVE  ParseStep
<1> DEFINE n == cells[Sec.pos]
           cpos == CodeSec.pos + 1
           pos == Sec.pos + 1
<1>1. /\ Begins(Function) /\ Sec.pos < Sec.last
      /\ \/ Errs /\ mod' = mod /\ UnchangedHeap
         \/ /\ GoesOn(1, 0)
            /\ mod' = Moved(MovedCode(mod, cpos), pos)
            /\ UnchangedHeap
         \/ n # 0 /\ \E a \in Answer(Array(0)) :
              /\ Mallocs(<<a>>)
              /\ IF a = Null
                 THEN Errs /\ mod' = [mod EXCEPT !.vec[Function].cnt = n]
                 ELSE /\ GoesOn(1, n)
                      /\ mod' = Moved(MovedCode([mod EXCEPT
                            !.vec[Function] = [cnt |-> n, arr |-> a,
                                               elt |-> [i \in 1..n |-> NoFunc]],
                            !.secs[at].free = Function], cpos), pos)
      /\ UNCHANGED nxt /\ UnchangedFile
  BY DEF BeginFuncs
<1>2. Begins(Function) /\ Function \in Counted \cup {Start} /\ Function \in Vectors
  BY <1>1 DEF Counted, Vectors
<1>3. /\ pc = "parse" /\ at \in Nat /\ at <= Len(mod.secs) /\ Sec.pos \in Nat \ {0}
      /\ n \in Nat /\ IsModule(mod) /\ fails \in Nat
  BY <1>1, <1>2, AtCount
<1>4. cpos \in Nat \ {0} /\ pos \in Nat \ {0}
  <2>1. mod.code \in 1..Len(mod.secs)
    BY <1>3, InSection
  <2>2. CodeSec.pos \in Nat
    BY <1>3, <2>1, InSection DEF CodeSec
  <2> QED  BY <1>3, <2>2
<1> HIDE DEF n, cpos, pos
<1>5. SameSections(mod, mod)
  BY DEF SameSections
<1>6. CASE Errs /\ mod' = mod /\ UnchangedHeap
  <2>1. Control /\ pc' # "parse"
    BY <1>6 DEF Control, Errs
  <2>2. Keeps /\ SameFrees(mod', mod) /\ SameEntries
    BY <1>6, SameModule DEF SameHandlers, SameFrees
  <2> QED  BY <1>1, <1>2, <1>6, <2>1, <2>2, BeginKept
<1>7. CASE /\ GoesOn(1, 0)
           /\ mod' = Moved(MovedCode(mod, cpos), pos)
           /\ UnchangedHeap
  <2> DEFINE m == MovedCode(mod, cpos)
  <2>1. /\ IsModule(m) /\ SameSections(m, mod)
        /\ m.code = mod.code /\ m.filedata = mod.filedata /\ m.instance = mod.instance
        /\ m.vec = mod.vec /\ m.imp = mod.imp
        /\ \A i \in 1..Len(mod.secs) : m.secs[i].free = mod.secs[i].free
    BY <1>3, <1>4, <1>5, MovedCodeModule
  <2> HIDE DEF m
  <2>2. /\ IsModule(mod') /\ SameSections(mod', mod) /\ mod'.code = m.code
        /\ mod'.filedata = m.filedata /\ mod'.instance = m.instance
        /\ mod'.vec = m.vec /\ mod'.imp = m.imp
        /\ \A i \in 1..Len(mod.secs) : mod'.secs[i].free = m.secs[i].free
    <3>1. mod' = Moved(m, pos)
      BY <1>7 DEF m
    <3> QED  BY <1>3, <1>4, <2>1, <3>1, MovedModule
  <2>3. Keeps
    BY <2>1, <2>2 DEF Keeps
  <2>4. VectorRests(Function)
    BY <1>7, <2>1, <2>2 DEF VectorRests, UnchangedHeap, Function, Type
  <2>5. Control
    BY <1>7 DEF Control, Errs
  <2> QED  BY <1>1, <1>2, <1>7, <2>3, <2>4, <2>5, BeginKept
<1>8. ASSUME n # 0, NEW a \in Answer(Array(0)), Mallocs(<<a>>),
             IF a = Null
             THEN Errs /\ mod' = [mod EXCEPT !.vec[Function].cnt = n]
             ELSE /\ GoesOn(1, n)
                  /\ mod' = Moved(MovedCode([mod EXCEPT
                        !.vec[Function] = [cnt |-> n, arr |-> a,
                                           elt |-> [i \in 1..n |-> NoFunc]],
                        !.secs[at].free = Function], cpos), pos)
      PROVE  ParseStep
  <2>1. a \in Ptrs /\ Wild \notin {a}
    BY <1>3, ObjsTyped DEF PtrKinds, Array
  <2>2. HeapGrew({a})
    BY <1>3, <1>8, OneMalloc DEF HeapGrew
  <2>3. UNCHANGED nxt /\ UnchangedFile /\ \E S : HeapGrew(S) /\ Wild \notin S
    BY <1>1, <2>1, <2>2
  <2>4. CASE a = Null
    <3> DEFINE r == [mod.vec[Function] EXCEPT !.cnt = n]
               m == WithVector(mod, Function, r)
    <3>1. Errs /\ mod' = m
      BY <1>8, <2>4 DEF WithVector
    <3>2. /\ r \in VecRecs(Function)
          /\ r.elt = mod.vec[Function].elt /\ r.arr = mod.vec[Function].arr
      <4>1. mod.vec[Function] \in VecRecs(Function)
        BY <1>2, <1>3 DEF IsModule
      <4> QED  BY <1>3, <4>1 DEF VecRecs
    <3> HIDE DEF r
    <3>3. /\ IsModule(m) /\ SameSections(m, mod) /\ m.code = mod.code
          /\ m.filedata = mod.filedata /\ m.instance = mod.instance
          /\ m.vec[Function] = r /\ m.secs = mod.secs /\ m.imp = mod.imp
          /\ \A j \in Vectors \ {Function} : m.vec[j] = mod.vec[j]
      BY <1>2, <1>3, <1>5, <3>2, VectorKept
    <3> HIDE DEF m
    <3>4. Keeps
      BY <3>1, <3>3 DEF Keeps
    <3>5. Control /\ pc' # "parse"
      BY <3>1 DEF Control, Errs
    <3>6. VectorRests(Function)
      BY <3>1, <3>2, <3>3, <3>5 DEF VectorRests, Function, Type
    <3> QED  BY <1>2, <2>3, <3>4, <3>5, <3>6, BeginKept
  <2>5. CASE a # Null
    <3> DEFINE q == WithArray(Function, n, a, NoFunc, Function)
               m == MovedCode(q, cpos)
    <3>1. GoesOn(1, n) /\ mod' = Moved(m, pos)
      BY <1>8, <2>5 DEF WithArray
    <3>2. NoFunc \in EntriesOf(Function)
      BY DEF NoFunc, EntriesOf, FuncRecs, Ptrs, PtrKinds, Null, Obj
    <3>3. /\ IsModule(q) /\ SameSections(q, mod)
          /\ q.imp = mod.imp /\ q.code = mod.code
          /\ q.filedata = mod.filedata /\ q.instance = mod.instance
          /\ q.vec[Function].cnt = n /\ q.vec[Function].arr = a
          /\ Len(q.vec[Function].elt) = n
          /\ \A i \in 1..n : q.vec[Function].elt[i] = NoFunc
          /\ \A j \in Vectors \ {Function} : q.vec[j] = mod.vec[j]
          /\ \A i \in 1..Len(mod.secs) : q.secs[i].free
               = IF i = at THEN Function ELSE mod.secs[i].free
      <4>1. Function \in {0, Import} \cup Vectors
        BY <1>2
      <4>2. GivenArray(q, Function, n, a, NoFunc, Function)
        BY <1>2, <1>3, <2>1, <3>2, <4>1, ArrayGiven
      <4> HIDE DEF q
      <4> QED  BY <4>2 DEF GivenArray
    <3> HIDE DEF q
    <3>4. /\ IsModule(m) /\ SameSections(m, mod)
          /\ m.code = q.code /\ m.filedata = q.filedata /\ m.instance = q.instance
          /\ m.vec = q.vec /\ m.imp = q.imp
          /\ \A i \in 1..Len(mod.secs) : m.secs[i].free = q.secs[i].free
      BY <1>3, <1>4, <3>3, MovedCodeModule
    <3> HIDE DEF m
    <3>5. /\ IsModule(mod') /\ SameSections(mod', mod) /\ mod'.code = m.code
          /\ mod'.filedata = m.filedata /\ mod'.instance = m.instance
          /\ mod'.vec = m.vec /\ mod'.imp = m.imp
          /\ \A i \in 1..Len(mod.secs) : mod'.secs[i].free = m.secs[i].free
      <4>1. /\ pc = "parse" /\ at <= Len(mod.secs) /\ pos \in Nat \ {0}
            /\ IsModule(m) /\ SameSections(m, mod) /\ mod' = Moved(m, pos)
        BY <1>3, <1>4, <3>1, <3>4
      <4> QED  BY <4>1, MovedModule
    <3>6. Keeps
      BY <3>3, <3>4, <3>5 DEF Keeps
    <3>7. VectorBegun(Function)
      <4>1. mod'.vec[Function].arr = Array(0) /\ HeapGrew({Array(0)})
        BY <2>2, <2>5, <3>3, <3>4, <3>5 DEF Answer
      <4>2. Function # Type
        BY DEF Function, Type
      <4> QED  BY <1>3, <1>8, <3>1, <3>3, <3>4, <3>5, <4>1, <4>2 DEF VectorBegun
    <3>8. Control
      BY <1>3, <3>1 DEF Control, Errs
    <3> QED  BY <1>2, <2>3, <3>6, <3>7, <3>8, BeginKept
  <2> QED  BY <2>4, <2>5
<1> QED  BY <1>1, <1>6, <1>7, <1>8

-----------------------------------------------------------------------------
(***************************************************************************)
(* Section import                                                          *)
(***************************************************************************)
\* The handler of the imports, in whichever of its passes.
LEMMA AtImports ==
    ASSUME Typed, Parsing(Import)
    PROVE  /\ pc = "parse" /\ at \in 1..Len(mod.secs) /\ at <= Len(mod.secs) /\ at \in Nat
           /\ Sec.type \notin Vectors /\ Sec.pos \in Nat \ {0} /\ Sec.last \in Nat
           /\ Sec.last <= Len(cells) + 1 /\ Len(cells) \in Nat /\ cells \in Seq(Nat)
           /\ \A p \in Nat \ {0} : p < Sec.last => cells[p] \in Nat
           /\ IsModule(mod) /\ HeapTyped /\ fails \in Nat /\ item \in Nat /\ todo \in Nat
           /\ probe \in Nat /\ nxt \in [Kinds -> Nat]
<1>1. pc = "parse" /\ at <= Len(mod.secs) /\ Sec.type = Import
  BY DEF Parsing
<1>2. /\ IsModule(mod) /\ at \in Nat /\ item \in Nat /\ todo \in Nat
      /\ HeapTyped /\ fails \in Nat
      /\ probe \in Nat /\ nxt \in [Kinds -> Nat]
  BY TypedParts DEF Typed, LoopTyped, HeapTyped
<1>3. Sec.type \notin Vectors
  BY <1>1 DEF Import, Vectors, Type, Function, Table, Memory, Global, Export, Elem, Data
<1>4. /\ at \in 1..Len(mod.secs) /\ Sec.pos \in Nat \ {0} /\ Sec.last \in Nat
      /\ Sec.last <= Len(cells) + 1 /\ Len(cells) \in Nat /\ cells \in Seq(Nat)
      /\ \A p \in Nat \ {0} : p < Sec.last => cells[p] \in Nat
  BY <1>1, InSection DEF Sec
<1> QED  BY <1>1, <1>2, <1>3, <1>4

LEMMA ImportKept ==
    ASSUME Typed, Parsing(Import), Control, Keeps,
           pc' # "parse" \/ (at' = at /\ item' # 0), Writes,
           UNCHANGED <<cells, short, fpos, back>>,
           probe' \in Nat, nxt' \in [Kinds -> Nat],
           UnchangedHeap \/ \E S : HeapGrew(S) /\ Wild \notin S
    PROVE  ParseStep
<1>1. pc = "parse" /\ at \in 1..Len(mod.secs) /\ Sec.type \notin Vectors
      /\ HeapTyped /\ fails \in Nat
  BY AtImports
<1>2. LoopInside'
  <2>1. CASE pc' # "parse"
    BY <2>1 DEF LoopInside
  <2>2. CASE at' = at
    <3>1. Sec'.type \notin Vectors
      BY <1>1, <2>2 DEF Sec, Keeps, SameSections
    <3> QED  BY <3>1 DEF LoopInside
  <2> QED  BY <2>1, <2>2
<1>3. HeapTyped' /\ fails' <= fails /\ live \subseteq live'
  <2>1. CASE UnchangedHeap
    BY <1>1, <2>1 DEF UnchangedHeap, HeapTyped
  <2>2. CASE \E S : HeapGrew(S) /\ Wild \notin S
    BY <1>1, <2>2, HeapStaysTyped DEF HeapGrew
  <2> QED  BY <2>1, <2>2
<1>4. Onward
  BY DEF Onward
<1> QED  BY <1>1, <1>2, <1>3, <1>4 DEF ParseStep

LEMMA KindAtTyped ==
    ASSUME NEW last \in Nat, NEW p \in Nat \ {0},
           \A i \in Nat \ {0} : i < last => cells[i] \in Nat,
           KindAt(p, last) # 0
    PROVE  /\ KindAt(p, last) \in Nat \ {0} /\ KindAt(p, last) < last
           /\ p < last /\ cells[p] \in Nat
           /\ LET name == p + 1 + cells[p]
              IN /\ name \in Nat \ {0} /\ name < last /\ cells[name] \in Nat
                 /\ KindAt(p, last) = name + 1 + cells[name]
<1> DEFINE name == RunEnd(p, last)
           end  == RunEnd(name, last)
<1>1. name # 0 /\ end # 0 /\ end < last /\ KindAt(p, last) = end
  BY DEF KindAt
<1>2. name \in 0..last
  BY EndsTyped
<1>3. p < last /\ name = p + 1 + cells[p] /\ cells[p] \in Nat
  BY <1>1 DEF RunEnd
<1> HIDE DEF name
<1>4. name \in Nat \ {0}
  BY <1>1, <1>2
<1>5. end \in 0..last
  BY <1>4, EndsTyped
<1>6. name < last /\ end = name + 1 + cells[name]
  BY <1>1 DEF RunEnd
<1>7. cells[name] \in Nat
  BY <1>4, <1>6
<1> HIDE DEF end
<1>8. end \in Nat \ {0}
  BY <1>1, <1>5
<1> QED  BY <1>1, <1>3, <1>4, <1>6, <1>7, <1>8

\* One import is counted.
LEMMA CountStep ==
    ASSUME Typed, CountImport
    PROVE  ParseStep
<1> DEFINE at0  == KindAt(probe, Sec.last)
           kind == cells[at0]
           tail == CountedTail(kind, at0 + 1, Sec.last)
<1>1. /\ Parsing(Import) /\ probe # 0
      /\ IF at0 = 0 THEN Errs /\ UNCHANGED <<mod, probe>>
         ELSE /\ mod' = IF kind \in Kinds THEN [mod EXCEPT !.imp[kind].cnt = @ + 1] ELSE mod
              /\ IF Cut(tail, Sec.last) THEN Errs /\ UNCHANGED probe
                                        ELSE NextTurn /\ probe' = tail
      /\ UNCHANGED <<cells, short, fpos, back, nxt>> /\ UnchangedHeap
  BY DEF CountImport, Counting
<1>2. /\ Sec.last \in Nat /\ probe \in Nat \ {0} /\ nxt \in [Kinds -> Nat]
      /\ IsModule(mod) /\ item \in Nat
      /\ \A i \in Nat \ {0} : i < Sec.last => cells[i] \in Nat
  BY <1>1, AtImports
<1> HIDE DEF at0
<1>3. at0 # 0 => at0 \in Nat \ {0}
  BY <1>2, KindAtTyped DEF at0
<1> HIDE DEF kind
<1>4. at0 # 0 => tail \in Nat
  <2> SUFFICES ASSUME at0 # 0 PROVE tail \in Nat
    OBVIOUS
  <2>1. at0 + 1 \in Nat \ {0}
    BY <1>3
  <2>2. LimitsEnd(at0 + 1, Sec.last, 1) \in 0..Sec.last
    BY <1>2, <2>1, EndsTyped
  <2>3. LimitsEnd(at0 + 1, Sec.last, 1) \in Nat
    BY <1>2, <2>2
  <2> QED  BY <2>1, <2>3 DEF CountedTail
<1> HIDE DEF tail
<1>5. /\ Keeps /\ SameFrees(mod', mod) /\ mod'.vec = mod.vec
      /\ \A k \in Kinds : /\ mod'.imp[k].arr = mod.imp[k].arr
                          /\ mod'.imp[k].elt = mod.imp[k].elt
                          /\ mod'.imp[k].cnt = 0 => mod.imp[k].cnt = 0
  <2>1. CASE mod' = mod
    BY <2>1, SameModule DEF SameFrees, SameHandlers
  <2>2. CASE kind \in Kinds /\ mod' = [mod EXCEPT !.imp[kind].cnt = @ + 1]
    <3> DEFINE rec == [mod.imp[kind] EXCEPT !.cnt = mod.imp[kind].cnt + 1]
               imp == [mod.imp EXCEPT ![kind] = rec]
    <3>1. mod' = WithImports(mod, imp)
      BY <2>2 DEF WithImports
    <3>2. mod.imp \in [Kinds -> ImpRecs] /\ mod.imp[kind] \in ImpRecs
      BY <1>2, <2>2 DEF IsModule
    <3>3. /\ rec \in ImpRecs /\ rec.arr = mod.imp[kind].arr /\ rec.elt = mod.imp[kind].elt
          /\ rec.cnt # 0
      BY <3>2 DEF ImpRecs
    <3> HIDE DEF rec
    <3>4. imp \in [Kinds -> ImpRecs]
          /\ \A k \in Kinds : /\ imp[k].arr = mod.imp[k].arr /\ imp[k].elt = mod.imp[k].elt
                              /\ imp[k].cnt = 0 => mod.imp[k].cnt = 0
      BY <2>2, <3>2, <3>3
    <3> HIDE DEF imp
    <3>5. /\ IsModule(mod') /\ mod'.secs = mod.secs
          /\ mod'.vec = mod.vec /\ mod'.imp = imp /\ mod'.code = mod.code
          /\ mod'.filedata = mod.filedata /\ mod'.instance = mod.instance
      BY <1>2, <3>1, <3>4, ImportsSet
    <3> QED  BY <3>4, <3>5 DEF Keeps, SameFrees, SameSections
  <2> QED  BY <1>1, <2>1, <2>2
<1>6. Control /\ (pc' # "parse" \/ (at' = at /\ item' # 0))
  BY <1>1, <1>2 DEF Control, Errs, NextTurn, GoesOn
<1>7. probe' \in Nat
  BY <1>1, <1>2, <1>4
<1>8. Writes
  <2>1. pc' = "parse" => NextTurn /\ probe' # 0 /\ live' = live
    BY <1>1 DEF Errs, Cut, UnchangedHeap
  <2> QED  BY <1>1, <1>5, <2>1 DEF Writes, ImportsGrow, Counting
<1> QED  BY <1>1, <1>2, <1>5, <1>6, <1>7, <1>8, ImportKept

LEMMA ArraysStep ==
    ASSUME Typed, ImportArrays
    PROVE  ParseStep
<1> DEFINE Some == {k \in Kinds : mod.imp[k].cnt > 0}
           Fresh(k) == [cnt |-> mod.imp[k].cnt, arr |-> Array(k),
                        elt |-> [i \in 1..mod.imp[k].cnt |-> NoImport]]
           Given(b) == {k \in Some : k < b}
           Asked(b) == [k \in {s \in Some : s <= b} |-> IF k = b THEN Null ELSE Array(k)]
           Imps(b) == [k \in Kinds |-> IF k \in Given(b) THEN Fresh(k)
                                       ELSE IF k = b THEN [mod.imp[k] EXCEPT !.arr = Null]
                                       ELSE mod.imp[k]]
<1>1. PICK bad \in Some \cup {4} :
         /\ Mallocs(Asked(bad))
         /\ mod' = [mod EXCEPT !.imp = Imps(bad),
                               !.secs[at].free = IF bad = 4 THEN Import ELSE @]
         /\ IF bad = 4 THEN GoesOn(1, todo) ELSE Errs
  BY DEF ImportArrays
<1>2. /\ Parsing(Import) /\ Counting /\ nxt' = [k \in Kinds |-> 1] /\ probe' = 0
      /\ UNCHANGED <<cells, short, fpos, back>>
  BY DEF ImportArrays, Counting
<1>3. /\ at \in 1..Len(mod.secs) /\ at \in Nat /\ IsModule(mod) /\ fails \in Nat /\ todo \in Nat
  BY <1>2, AtImports
<1>4. /\ \A k \in Kinds : Array(k) \in Ptrs /\ Array(k) \notin {Null, Wild}
      /\ Null \in Ptrs /\ Null # Wild
  <2>1. Null \in Ptrs /\ Null # Wild
    BY DEF Null, Wild, Obj, Ptrs, PtrKinds
  <2>2. ASSUME NEW k \in Kinds PROVE Array(k) \in Ptrs /\ Array(k) \notin {Null, Wild}
    <3>1. Array(k) \in Answer(Array(k)) /\ k \in Nat /\ "array" \in PtrKinds \ {"NULL", "wild"}
      BY DEF Answer, Kinds, PtrKinds
    <3> QED  BY <1>3, <3>1, ObjsTyped DEF Array
  <2> QED  BY <2>1, <2>2
<1>5. IsFiniteSet(DOMAIN Asked(bad))
  <2>1. DOMAIN Asked(bad) \subseteq 0..3
    BY DEF Kinds
  <2>2. IsFiniteSet(0..3)
    <3>1. \A n \in Nat : IsFiniteSet(0..n)
      BY FS_Interval
    <3> QED  BY <3>1
  <2> QED  BY <2>1, <2>2, FS_Subset
<1>6. HeapGrew(Range(Asked(bad)))
  BY <1>1, <1>3, <1>5, Mallocing DEF HeapGrew
<1>7. Wild \notin Range(Asked(bad))
  BY <1>4 DEF Range
<1>8. \A k \in Kinds : Fresh(k) \in ImpRecs
  <2> SUFFICES ASSUME NEW k \in Kinds PROVE Fresh(k) \in ImpRecs
    OBVIOUS
  <2>1. mod.imp[k].cnt \in Nat
    BY <1>3 DEF IsModule, ImpRecs
  <2>2. NoImport \in ImportRecs
    BY <1>4 DEF NoImport, ImportRecs
  <2>3. [i \in 1..mod.imp[k].cnt |-> NoImport] \in Seq(ImportRecs)
    BY <2>1, <2>2, SameSeq
  <2> QED  BY <1>4, <2>1, <2>3 DEF ImpRecs
<1>9. Imps(bad) \in [Kinds -> ImpRecs]
  <2>1. \A k \in Kinds : mod.imp[k] \in ImpRecs
    BY <1>3 DEF IsModule
  <2>2. \A k \in Kinds : [mod.imp[k] EXCEPT !.arr = Null] \in ImpRecs
    BY <1>4, <2>1 DEF ImpRecs
  <2> HIDE DEF Fresh, Given
  <2> QED  BY <1>8, <2>1, <2>2
<1> DEFINE m == WithImports(mod, Imps(bad))
           x == IF bad = 4 THEN Import ELSE mod.secs[at].free
           q == WithHandler(m, at, x)
<1>10. mod' = q
  BY <1>1 DEF WithImports, WithHandler
<1>11. /\ IsModule(m) /\ m.secs = mod.secs
       /\ m.vec = mod.vec /\ m.imp = Imps(bad) /\ m.code = mod.code
       /\ m.filedata = mod.filedata /\ m.instance = mod.instance
  <2> HIDE DEF Imps
  <2> QED  BY <1>3, <1>9, ImportsSet
<1>12. x \in {0, Import} \cup Vectors
  BY <1>3, SectionsOfModule
<1> HIDE DEF m, x
<1>13. /\ IsModule(q) /\ SameSections(q, m)
       /\ q.vec = m.vec /\ q.imp = m.imp /\ q.code = m.code
       /\ q.filedata = m.filedata /\ q.instance = m.instance
       /\ \A i \in 1..Len(mod.secs) : q.secs[i].free = IF i = at THEN x ELSE mod.secs[i].free
  BY <1>3, <1>11, <1>12, HandlerSet
<1> HIDE DEF q
<1>14. Keeps
  BY <1>10, <1>11, <1>13 DEF Keeps, SameSections
<1>15. Control /\ (pc' # "parse" \/ (at' = at /\ item' # 0))
  BY <1>1, <1>3 DEF Control, Errs, GoesOn
<1>16. Writes => ParseStep
  <2>1. probe' \in Nat /\ nxt' \in [Kinds -> Nat]
    BY <1>2
  <2> QED  BY <1>2, <1>6, <1>7, <1>14, <1>15, <2>1, ImportKept
<1>17. CASE bad # 4
  <2>1. SameFrees(mod', mod) /\ mod'.vec = mod.vec /\ mod'.imp = Imps(bad)
    <3>1. x = mod.secs[at].free
      BY <1>17 DEF x
    <3> HIDE DEF Imps
    <3> QED  BY <1>10, <1>11, <1>13, <3>1 DEF SameFrees
  <2>2. ASSUME NEW k \in Kinds, Imps(bad)[k].cnt = 0
        PROVE  mod.imp[k].cnt = 0 /\ Imps(bad)[k].arr = mod.imp[k].arr
    <3>1. mod.imp[k] \in ImpRecs /\ mod.imp[k].cnt \in Nat
      BY <1>3 DEF IsModule, ImpRecs
    <3>2. CASE k \in Given(bad)
      <4>1. Imps(bad)[k].cnt = mod.imp[k].cnt /\ mod.imp[k].cnt > 0
        BY <3>2
      <4> QED  BY <2>2, <4>1
    <3>3. CASE k \notin Given(bad) /\ k = bad
      <4>1. Imps(bad)[k] = [mod.imp[k] EXCEPT !.arr = Null] /\ mod.imp[k].cnt > 0
        BY <1>17, <3>3
      <4>2. Imps(bad)[k].cnt = mod.imp[k].cnt
        BY <3>1, <4>1 DEF ImpRecs
      <4> QED  BY <2>2, <4>1, <4>2
    <3>4. CASE k \notin Given(bad) /\ k # bad
      <4>1. Imps(bad)[k] = mod.imp[k]
        BY <3>4
      <4> QED  BY <2>2, <4>1
    <3> QED  BY <3>2, <3>3, <3>4
  <2>3. ImportsGrow
    <3> HIDE DEF Imps
    <3>1. pc' # "parse"
      BY <1>1, <1>17 DEF Errs
    <3> QED  BY <1>2, <2>1, <2>2, <3>1 DEF ImportsGrow
  <2> QED  BY <1>16, <2>3 DEF Writes
<1>18. CASE bad = 4
  <2>1. GoesOn(1, todo) /\ x = Import
    BY <1>1, <1>18 DEF x
  <2>2. mod'.vec = mod.vec
        /\ \A i \in 1..Len(mod.secs) : mod'.secs[i].free = IF i = at THEN Import ELSE mod.secs[i].free
    BY <1>10, <1>11, <1>13, <2>1
  <2>3. \A k \in Kinds : mod'.imp[k] = IF k \in Some THEN Fresh(k) ELSE mod.imp[k]
    <3>1. \A k \in Kinds : k < 4
      BY DEF Kinds
    <3> HIDE DEF Fresh, Some
    <3> QED  BY <1>10, <1>11, <1>13, <1>18, <3>1
  <2>4. \A k \in Kinds : mod'.imp[k]
         = IF mod.imp[k].cnt > 0
           THEN [cnt |-> mod.imp[k].cnt, arr |-> Array(k),
                 elt |-> [i \in 1..mod.imp[k].cnt |-> NoImport]]
           ELSE mod.imp[k]
    BY <2>3
  <2>5. Range(Asked(bad)) = {Array(k) : k \in {j \in Kinds : mod.imp[j].cnt > 0}}
    <3>1. \A k \in Kinds : k # 4 /\ k <= 4
      BY DEF Kinds
    <3>2. DOMAIN Asked(bad) = Some /\ \A k \in Some : Asked(bad)[k] = Array(k)
      <4>1. {s \in Some : s <= bad} = Some /\ \A k \in Some : k # bad
        <5>1. \A k \in Some : k <= bad /\ k # bad
          BY <1>18, <3>1
        <5> HIDE DEF Some
        <5> QED  BY <5>1
      <4> HIDE DEF Some
      <4> QED  BY <4>1
    <3> HIDE DEF Asked
    <3>3. Range(Asked(bad)) = {Array(k) : k \in Some}
      BY <3>2 DEF Range
    <3> QED  BY <3>3
  <2>6. HeapGrew({Array(k) : k \in {j \in Kinds : mod.imp[j].cnt > 0}})
    <3> HIDE DEF Asked
    <3> QED  BY <1>6, <2>5
  <2>7. ImportsBegun
    BY <1>2, <2>1, <2>2, <2>4, <2>6 DEF ImportsBegun
  <2> QED  BY <1>2, <1>16, <2>7 DEF Writes
<1> QED  BY <1>17, <1>18

\* What the names and the function of an import may be allocated as.
LEMMA ImportObjs ==
    ASSUME Typed, Parsing(Import)
    PROVE  /\ \A o \in Answer(MnameObj) : o \in Ptrs /\ o # Wild
           /\ \A o \in Answer(NsnameObj) : o \in Ptrs /\ o # Wild
           /\ \A o \in Answer(FuncObj) : o \in Ptrs /\ o # Wild
<1>1. at \in Nat /\ item \in Nat
  BY AtImports
<1>2. ASSUME NEW what \in PtrKinds \ {"NULL", "wild"}, NEW o \in Answer(Obj(what, at, item))
      PROVE  o \in Ptrs /\ o # Wild
  BY <1>1, <1>2, ObjsTyped
<1>3. {"mname", "nsname", "func"} \subseteq PtrKinds \ {"NULL", "wild"}
  BY DEF PtrKinds
<1>4. \A o \in Answer(MnameObj) : o \in Ptrs /\ o # Wild
  BY <1>2, <1>3 DEF MnameObj
<1>5. \A o \in Answer(NsnameObj) : o \in Ptrs /\ o # Wild
  BY <1>2, <1>3 DEF NsnameObj
<1>6. \A o \in Answer(FuncObj) : o \in Ptrs /\ o # Wild
  BY <1>2, <1>3 DEF FuncObj
<1> QED  BY <1>4, <1>5, <1>6

\* An import that is not stored ends the parse or the process.
LEMMA StrayStep ==
    ASSUME Typed, ImportCut \/ ImportStray
    PROVE  ParseStep
<1>1. /\ Turn(Import) /\ UNCHANGED <<mod, nxt>> /\ UnchangedFile
      /\ Errs \/ \E how \in LostStates : Lost(how)
  <2>1. CASE ImportCut
    BY <2>1 DEF ImportCut, LostStates
  <2>2. CASE ImportStray
    BY <2>2 DEF ImportStray, LostStates
  <2> QED  BY <2>1, <2>2
<1>2. Parsing(Import)
  BY <1>1 DEF Turn
<1>3. /\ fails \in Nat /\ probe \in Nat /\ nxt \in [Kinds -> Nat]
  BY <1>2, AtImports
<1>4. \/ UnchangedHeap
      \/ \E m \in Answer(MnameObj) : Mallocs(<<m>>)
      \/ \E m \in Answer(MnameObj), n \in Answer(NsnameObj) : Mallocs(<<m, n>>)
  <2>1. CASE ImportCut
    <3> DEFINE p == Sec.pos
               mname == p + 1 + cells[p]
    <3>1. \/ UnchangedHeap
          \/ \E m \in Answer(MnameObj) :
                 IF m # Null /\ mname > Len(cells) + 1
                 THEN Mallocs(<<m>>) /\ Lost("bad")
                 ELSE IF mname >= Sec.last
                 THEN Mallocs(<<m>>) /\ Errs
                 ELSE \E n \in Answer(NsnameObj) :
                        /\ Mallocs(<<m, n>>)
                        /\ IF n # Null /\ mname + 1 + cells[mname] > Len(cells) + 1
                           THEN Lost("bad") ELSE Errs
      BY <2>1 DEF ImportCut
    <3> QED  BY <3>1
  <2>2. CASE ImportStray
    BY <2>2 DEF ImportStray
  <2> QED  BY <2>1, <2>2, <1>1
<1>5. UnchangedHeap \/ \E S : HeapGrew(S) /\ Wild \notin S
  <2>1. ASSUME NEW m \in Answer(MnameObj), Mallocs(<<m>>)
        PROVE  HeapGrew({m}) /\ Wild \notin {m}
    BY <1>2, <1>3, <2>1, OneMalloc, ImportObjs DEF HeapGrew
  <2>2. ASSUME NEW m \in Answer(MnameObj), NEW n \in Answer(NsnameObj), Mallocs(<<m, n>>)
        PROVE  HeapGrew({m, n}) /\ Wild \notin {m, n}
    BY <1>2, <1>3, <2>2, TwoMallocs, ImportObjs DEF HeapGrew
  <2> QED  BY <1>4, <2>1, <2>2
<1>6. Control /\ pc' # "parse"
  <2>1. CASE Errs
    BY <2>1 DEF Control, Errs
  <2>2. CASE \E how \in LostStates : Lost(how)
    BY <2>2 DEF Control, Lost, GoneStates, LostStates
  <2> QED  BY <1>1, <2>1, <2>2
<1>7. Keeps /\ Writes
  BY <1>1, <1>6, SameModule DEF Writes, NothingWritten, SameHandlers, SameFrees
<1> QED  BY <1>1, <1>2, <1>3, <1>5, <1>6, <1>7, ImportKept DEF UnchangedFile

\* The import at idx of its kind is written.
LEMMA ImportWritten ==
    ASSUME NEW m, IsModule(m), NEW k \in Kinds, NEW idx \in Nat, NEW e \in ImportRecs
    PROVE  WroteImport([m EXCEPT !.imp[k].elt[idx] = e], m, k, idx, e)
<1> SUFFICES ASSUME NEW q, q = [m EXCEPT !.imp[k].elt[idx] = e]
             PROVE  WroteImport(q, m, k, idx, e)
  OBVIOUS
<1> DEFINE new == [m.imp[k].elt EXCEPT ![idx] = e]
           r   == [m.imp[k] EXCEPT !.elt = new]
           imp == [m.imp EXCEPT ![k] = r]
<1>1. m.imp \in [Kinds -> ImpRecs] /\ m.imp[k] \in ImpRecs
  BY DEF IsModule
<1>2. m.imp[k].elt \in Seq(ImportRecs)
  BY <1>1 DEF ImpRecs
<1>3. /\ new \in Seq(ImportRecs) /\ Len(new) = Len(m.imp[k].elt)
      /\ \A i \in 1..Len(m.imp[k].elt) : new[i] = IF i = idx THEN e ELSE m.imp[k].elt[i]
  <2>1. CASE idx \in 1..Len(m.imp[k].elt)
    BY <1>2, <2>1, ExceptSeq
  <2>2. CASE idx \notin 1..Len(m.imp[k].elt)
    <3>1. DOMAIN m.imp[k].elt = 1..Len(m.imp[k].elt)
          /\ m.imp[k].elt = [i \in 1..Len(m.imp[k].elt) |-> m.imp[k].elt[i]]
      BY <1>2, LenProperties
    <3>2. new = m.imp[k].elt
      BY <2>2, <3>1
    <3> QED  BY <1>2, <2>2, <3>2
  <2> QED  BY <2>1, <2>2
<1> HIDE DEF new
<1>4. r \in ImpRecs /\ r.cnt = m.imp[k].cnt /\ r.arr = m.imp[k].arr /\ r.elt = new
  BY <1>1, <1>3 DEF ImpRecs
<1>5. q = WithImports(m, imp)
  BY DEF new, WithImports
<1> HIDE DEF r
<1>6. imp \in [Kinds -> ImpRecs] /\ imp[k] = r /\ \A j \in Kinds \ {k} : imp[j] = m.imp[j]
  BY <1>1, <1>4
<1> HIDE DEF imp
<1>7. LET p == WithImports(m, imp) IN
      /\ IsModule(p) /\ p.secs = m.secs
      /\ p.vec = m.vec /\ p.imp = imp /\ p.code = m.code /\ p.start = m.start
      /\ p.filedata = m.filedata /\ p.instance = m.instance
  BY <1>6, ImportsSet
<1>8. /\ IsModule(q) /\ q.secs = m.secs
      /\ q.vec = m.vec /\ q.imp = imp /\ q.code = m.code
      /\ q.filedata = m.filedata /\ q.instance = m.instance
  BY <1>5, <1>7
<1> QED  BY <1>3, <1>4, <1>6, <1>8 DEF WroteImport, SameSections, SameFrees

LEMMA TailTyped ==
    ASSUME NEW k \in Kinds, NEW last \in Nat, NEW p \in Nat \ {0},
           \A i \in Nat \ {0} : i < last => cells[i] \in Nat,
           ~Cut(StoredTail(k, p, last), last)
    PROVE  /\ StoredTail(k, p, last) \in Nat \ {0}
           /\ k = FuncKind => p < last
<1>1. p + 1 \in Nat \ {0} /\ p + 2 \in Nat \ {0}
  OBVIOUS
<1>2. LimitsEnd(p, last, 1) \in 0..last /\ LimitsEnd(p + 1, last, 1) \in 0..last
  BY <1>1, EndsTyped
<1>3. StoredTail(k, p, last) \in {p + 1, p + 2, LimitsEnd(p, last, 1), LimitsEnd(p + 1, last, 1)}
      /\ (k = FuncKind => StoredTail(k, p, last) = p + 1)
  BY DEF StoredTail, Kinds, FuncKind, TabKind, MemKind, GlobKind
<1>4. StoredTail(k, p, last) # 0 /\ ~(StoredTail(k, p, last) > last)
  BY DEF Cut
<1>5. StoredTail(k, p, last) \in Nat
  BY <1>1, <1>2, <1>3
<1> QED  BY <1>3, <1>4, <1>5

LEMMA ImportStep ==
    ASSUME Typed, ImportEntry
    PROVE  ParseStep
<1> DEFINE p      == Sec.pos
           at0    == KindAt(p, Sec.last)
           kind   == cells[at0]
           nsname == p + 1 + cells[p]
           tail   == StoredTail(kind, at0 + 1, Sec.last)
           Named(m, n) == [NoImport EXCEPT
                !.mname = m,  !.mtext = SubSeq(cells, p + 1, nsname - 1),
                !.nsname = n, !.ntext = SubSeq(cells, nsname + 1, at0 - 1)]
           Stored(e) == [mod EXCEPT !.imp[kind].elt[nxt[kind]] = e]
           Next1 == nxt' = [nxt EXCEPT ![kind] = @ + 1]
<1>1. /\ Turn(Import) /\ at0 # 0 /\ UnchangedFile
      /\ kind \in Kinds /\ nxt[kind] <= Len(mod.imp[kind].elt)
  BY DEF ImportEntry
<1>2. PICK m \in Answer(MnameObj), n \in Answer(NsnameObj) :
         IF Cut(tail, Sec.last)
         THEN Mallocs(<<m, n>>) /\ Errs /\ mod' = Stored(Named(m, n)) /\ UNCHANGED nxt
         ELSE IF kind # FuncKind
         THEN /\ Mallocs(<<m, n>>)
              /\ NextTurn /\ mod' = Moved(Stored(Named(m, n)), tail) /\ Next1
         ELSE \E f \in Answer(FuncObj) :
                /\ Mallocs(<<m, n, f>>)
                /\ IF f = Null
                   THEN Errs /\ mod' = Stored(Named(m, n)) /\ UNCHANGED nxt
                   ELSE /\ NextTurn
                        /\ mod' = Moved(Stored([Named(m, n) EXCEPT
                              !.f = f, !.typeidx = cells[at0 + 1]]), tail)
                        /\ Next1
  BY DEF ImportEntry
<1>3. Parsing(Import)
  BY <1>1 DEF Turn
<1>4. /\ pc = "parse" /\ at <= Len(mod.secs) /\ p \in Nat \ {0} /\ Sec.last \in Nat
      /\ Sec.last <= Len(cells) + 1 /\ Len(cells) \in Nat /\ cells \in Seq(Nat)
      /\ \A i \in Nat \ {0} : i < Sec.last => cells[i] \in Nat
      /\ IsModule(mod) /\ fails \in Nat /\ item \in Nat /\ todo \in Nat
      /\ probe \in Nat /\ nxt \in [Kinds -> Nat]
  BY <1>3, AtImports
<1>5. /\ at0 \in Nat \ {0} /\ at0 < Sec.last /\ cells[p] \in Nat
      /\ nsname \in Nat \ {0} /\ nsname < Sec.last
  BY <1>1, <1>4, KindAtTyped
<1>6. /\ m \in Ptrs /\ m # Wild /\ n \in Ptrs /\ n # Wild
      /\ \A f \in Answer(FuncObj) : f \in Ptrs /\ f # Wild
      /\ Null \in Ptrs /\ Null \in Answer(FuncObj)
  BY <1>3, ImportObjs DEF Answer
<1>7. Named(m, n) \in ImportRecs
      /\ Named(m, n).f = Null /\ Named(m, n).mname = m /\ Named(m, n).nsname = n
  <2>1. SubSeq(cells, p + 1, nsname - 1) \in Seq(Nat)
    <3> HIDE DEF at0, nsname
    <3>1. /\ p \in Nat \ {0} /\ nsname \in Nat /\ nsname < Sec.last /\ Sec.last \in Nat
          /\ Sec.last <= Len(cells) + 1 /\ Len(cells) \in Nat
      BY <1>4, <1>5
    <3>2. p + 1 \in Nat \ {0} /\ nsname - 1 \in Int /\ nsname - 1 <= Len(cells)
      BY <3>1
    <3> QED  BY <1>4, <3>2, RunTyped
  <2>2. SubSeq(cells, nsname + 1, at0 - 1) \in Seq(Nat)
    <3> HIDE DEF at0, nsname
    <3>1. /\ nsname \in Nat /\ at0 \in Nat /\ at0 < Sec.last /\ Sec.last \in Nat
          /\ Sec.last <= Len(cells) + 1 /\ Len(cells) \in Nat
      BY <1>4, <1>5
    <3>2. nsname + 1 \in Nat \ {0} /\ at0 - 1 \in Int /\ at0 - 1 <= Len(cells)
      BY <3>1
    <3> QED  BY <1>4, <3>2, RunTyped
  <2> HIDE DEF at0, nsname
  <2> QED  BY <1>6, <2>1, <2>2 DEF NoImport, ImportRecs
<1>8. ~Cut(tail, Sec.last) => tail \in Nat \ {0} /\ (kind = FuncKind => cells[at0 + 1] \in Nat)
  <2>1. at0 + 1 \in Nat \ {0}
    BY <1>5
  <2> HIDE DEF at0, kind
  <2>2. ~Cut(tail, Sec.last) => tail \in Nat \ {0} /\ (kind = FuncKind => at0 + 1 < Sec.last)
    BY <1>1, <1>4, <2>1, TailTyped
  <2> HIDE DEF tail
  <2> QED  BY <1>4, <2>1, <2>2
<1> HIDE DEF at0, kind, tail, nsname
<1>9. ASSUME NEW e \in ImportRecs PROVE WroteImport(Stored(e), mod, kind, nxt[kind], e)
  BY <1>1, <1>4, <1>9, ImportWritten
<1>10. ASSUME NEW e \in ImportRecs, ~Cut(tail, Sec.last)
       PROVE  WroteImport(Moved(Stored(e), tail), mod, kind, nxt[kind], e)
  <2> DEFINE s == Stored(e)
             q == Moved(s, tail)
  <2>1. WroteImport(s, mod, kind, nxt[kind], e)
    BY <1>9
  <2> HIDE DEF s
  <2>2. IsModule(s) /\ SameSections(s, mod)
    BY <2>1 DEF WroteImport
  <2>3. /\ IsModule(q) /\ SameSections(q, mod)
        /\ q.code = s.code /\ q.filedata = s.filedata /\ q.instance = s.instance
        /\ q.vec = s.vec /\ q.imp = s.imp
        /\ \A i \in 1..Len(mod.secs) : q.secs[i].free = s.secs[i].free
    <3>1. tail \in Nat \ {0}
      BY <1>8, <1>10
    <3> QED  BY <1>4, <2>2, <3>1, MovedModule
  <2> HIDE DEF q
  <2>4. WroteImport(q, mod, kind, nxt[kind], e)
    BY <2>1, <2>3 DEF WroteImport, SameFrees
  <2> QED  BY <2>4 DEF q, s
<1> HIDE DEF Stored
<1> DEFINE Result(e, S) ==
             /\ WroteImport(mod', mod, kind, nxt[kind], e) /\ HeapGrew(S) /\ Wild \notin S
             /\ (Errs /\ UNCHANGED nxt) \/ (NextTurn /\ Next1)
             /\ S \ {Null} = {e.f, e.mname, e.nsname} \ {Null}
             /\ e.f \in Answer(FuncObj) /\ e.mname = m /\ e.nsname = n /\ {m, n} \subseteq S
             /\ pc' = "parse" /\ kind = FuncKind => e.f # Null
<1>11. \E e \in ImportRecs : \E S : Result(e, S)
  <2>1. CASE Cut(tail, Sec.last)
    <3>1. Mallocs(<<m, n>>) /\ Errs /\ mod' = Stored(Named(m, n)) /\ UNCHANGED nxt
      BY <1>2, <2>1
    <3>2. HeapGrew({m, n}) /\ Wild \notin {m, n}
      BY <1>4, <1>6, <3>1, TwoMallocs DEF HeapGrew
    <3> HIDE DEF Named
    <3>3. Result(Named(m, n), {m, n})
      BY <1>6, <1>7, <1>9, <3>1, <3>2 DEF Errs
    <3> QED  BY <1>7, <3>3
  <2>2. CASE ~Cut(tail, Sec.last) /\ kind # FuncKind
    <3>1. /\ Mallocs(<<m, n>>)
          /\ NextTurn /\ mod' = Moved(Stored(Named(m, n)), tail) /\ Next1
      BY <1>2, <2>2
    <3>2. HeapGrew({m, n}) /\ Wild \notin {m, n}
      BY <1>4, <1>6, <3>1, TwoMallocs DEF HeapGrew
    <3> HIDE DEF Named
    <3>3. Result(Named(m, n), {m, n})
      BY <1>6, <1>7, <1>10, <2>2, <3>1, <3>2
    <3> QED  BY <1>7, <3>3
  <2>3. CASE ~Cut(tail, Sec.last) /\ kind = FuncKind
    <3>1. PICK f \in Answer(FuncObj) :
                /\ Mallocs(<<m, n, f>>)
                /\ IF f = Null
                   THEN Errs /\ mod' = Stored(Named(m, n)) /\ UNCHANGED nxt
                   ELSE /\ NextTurn
                        /\ mod' = Moved(Stored([Named(m, n) EXCEPT
                              !.f = f, !.typeidx = cells[at0 + 1]]), tail)
                        /\ Next1
      BY <1>2, <2>3
    <3>2. HeapGrew({m, n, f}) /\ Wild \notin {m, n, f}
      BY <1>4, <1>6, <3>1, ThreeMallocs DEF HeapGrew
    <3> DEFINE e == [Named(m, n) EXCEPT !.f = f, !.typeidx = cells[at0 + 1]]
    <3>3. e \in ImportRecs /\ e.f = f /\ e.mname = m /\ e.nsname = n
      <4>1. cells[at0 + 1] \in Nat /\ f \in Ptrs
        BY <1>6, <1>8, <2>3
      <4> HIDE DEF Named
      <4> QED  BY <1>7, <4>1 DEF ImportRecs
    <3> HIDE DEF e
    <3>4. CASE f = Null
      <4> HIDE DEF Named
      <4>1. Result(Named(m, n), {m, n, f})
        BY <1>6, <1>7, <1>9, <3>1, <3>2, <3>4 DEF Errs
      <4> QED  BY <1>7, <4>1
    <3>5. CASE f # Null
      <4>1. mod' = Moved(Stored(e), tail) /\ NextTurn /\ Next1
        BY <3>1, <3>5 DEF e
      <4>2. Result(e, {m, n, f})
        BY <1>10, <2>3, <3>2, <3>3, <3>5, <4>1
      <4> QED  BY <3>3, <4>2
    <3> QED  BY <3>4, <3>5
  <2> QED  BY <2>1, <2>2, <2>3
<1> HIDE DEF Result
<1>12. PICK e \in ImportRecs : \E S : Result(e, S)
  BY <1>11
<1>13. PICK S : Result(e, S)
  BY <1>12
<1>14. /\ WroteImport(mod', mod, kind, nxt[kind], e) /\ HeapGrew(S) /\ Wild \notin S
       /\ (Errs /\ UNCHANGED nxt) \/ (NextTurn /\ Next1)
       /\ S \ {Null} = {e.f, e.mname, e.nsname} \ {Null}
       /\ e.f \in Answer(FuncObj) /\ e.mname = m /\ e.nsname = n /\ {m, n} \subseteq S
       /\ pc' = "parse" /\ kind = FuncKind => e.f # Null
  BY <1>13 DEF Result
<1>15. Keeps
  BY <1>14 DEF WroteImport, Keeps
<1>16. Control /\ (pc' # "parse" \/ (at' = at /\ item' # 0)) /\ nxt' \in [Kinds -> Nat]
       /\ (NextTurn \/ pc' # "parse")
  <2>1. CASE Errs /\ UNCHANGED nxt
    BY <1>4, <2>1 DEF Control, Errs
  <2>2. CASE NextTurn /\ Next1
    <3>1. nxt' \in [Kinds -> Nat]
      BY <1>1, <1>4, <2>2
    <3> QED  BY <1>4, <2>2, <3>1 DEF Control, NextTurn, GoesOn
  <2> QED  BY <1>14, <2>1, <2>2
<1>17. HeldImport(e)
  <2>1. {e.f, e.mname, e.nsname} \ {Null} \subseteq live'
    BY <1>14 DEF HeapGrew
  <2>2. e.mname \in Answer(MnameObj) /\ e.nsname \in Answer(NsnameObj)
    BY <1>14
  <2> QED  BY <1>14, <2>1, <2>2 DEF HeldImport, Answer
<1>18. Writes
  <2>1. probe' = 0
    BY <1>1 DEF Turn, UnchangedFile
  <2>2. pc' = "parse" => DoneImport(kind, e)
    <3>1. fails' = fails => /\ Null \notin {m, n}
                            /\ live' = live \cup ({e.f, e.mname, e.nsname} \ {Null})
      BY <1>14 DEF HeapGrew
    <3> QED  BY <1>14, <3>1 DEF Errs, DoneImport
  <2> QED  BY <1>1, <1>14, <1>16, <1>17, <2>1, <2>2 DEF Writes, ImportWrites
<1> QED  BY <1>1, <1>3, <1>4, <1>14, <1>15, <1>16, <1>18, ImportKept DEF UnchangedFile

-----------------------------------------------------------------------------
(***************************************************************************)
(* Every step of the parse                                                 *)
(***************************************************************************)
LEMMA QuietParse ==
    ASSUME Typed,
           \/ NoCount \/ SectionEnds \/ SkipSection \/ PlainEntry \/ ParseStart
           \/ BeginImports \/ ParseEnds
           \/ ZeroCount /\ Sec.type # Type
    PROVE  ParseStep
<1>1. /\ pc = "parse" /\ Control /\ UNCHANGED <<live, fails, nxt>>
      /\ probe' \in Nat /\ UNCHANGED <<cells, short, fpos, back>>
      /\ Keeps /\ SameHandlers /\ SameEntries /\ LoopInside'
      /\ pc' = "parse" => QuietTurn /\ (NextSection \/ (at' = at /\ item' # 0))
  BY QuietSteps
<1>2. HeapTyped /\ fails \in Nat /\ nxt \in [Kinds -> Nat] /\ at \in Nat
  BY TypedParts DEF Typed, HeapTyped, LoopTyped
<1>3. Onward
  BY <1>1 DEF Onward
<1>4. Writes
  BY <1>1 DEF Writes, NothingWritten, SameHandlers, SameFrees
<1> QED  BY <1>1, <1>2, <1>3, <1>4 DEF ParseStep, HeapTyped

LEMMA ParseSteps ==
    ASSUME Typed, ParseFile
    PROVE  ParseStep
<1>1. CASE \/ NoCount \/ SectionEnds \/ SkipSection \/ PlainEntry \/ ParseStart
           \/ BeginImports \/ ParseEnds
  BY <1>1, QuietParse
<1>2. CASE ZeroCount
  <2>1. CASE Sec.type = Type
    BY <1>2, <2>1, ZeroTypes
  <2>2. CASE Sec.type # Type
    BY <1>2, <2>2, QuietParse
  <2> QED  BY <2>1, <2>2
<1>3. CASE BeginVector
  BY <1>3, VectorStep
<1>4. CASE TypeEntry \/ ExportEntry \/ ElemEntry
  BY <1>4, TypeStep, ExportStep, ElemStep
<1>5. CASE BeginMemory
  BY <1>5, MemoryStep
<1>6. CASE BeginFuncs \/ FuncEntry
  BY <1>6, FuncsStep, FuncStep
<1>7. CASE CountImport \/ ImportArrays
  BY <1>7, CountStep, ArraysStep
<1>8. CASE ImportCut \/ ImportStray
  BY <1>8, StrayStep
<1>9. CASE ImportEntry
  BY <1>9, ImportStep
<1> QED  BY <1>1, <1>2, <1>3, <1>4, <1>5, <1>6, <1>7, <1>8, <1>9 DEF ParseFile

LEMMA ParseKeepsTypes ==
    ASSUME Typed, RegistryInv', ParseFile, UNCHANGED <<given, instanceVars>>
    PROVE  SessionTyped'
<1>1. ParseStep
  BY ParseSteps
<1>2. /\ pc = "parse" /\ Control /\ HeapTyped'
      /\ UNCHANGED <<cells, short, fpos, back, given, compiled, turn, funcs>>
      /\ probe' \in Nat /\ nxt' \in [Kinds -> Nat]
      /\ IsModule(mod') /\ SameSections(mod', mod) /\ mod'.code = mod.code /\ LoopInside'
  BY <1>1 DEF ParseStep, Keeps, instanceVars
<1> QED  BY <1>2, ParseTyped

-----------------------------------------------------------------------------
(***************************************************************************)
(* The steps before the parse                                              *)
(***************************************************************************)
LEMMA NamesGiven ==
    ASSUME NEW what, what \notin {"NULL", "wild"}, NEW i, NEW j
    PROVE  /\ Obj(what, i, j) # Null /\ Obj(what, i, j) # Wild
           /\ \A o \in Answer(Obj(what, i, j)) : o # Wild
<1>1. Obj(what, i, j) # Null /\ Obj(what, i, j) # Wild /\ Null # Wild
  BY DEF Obj, Null, Wild
<1> QED  BY <1>1 DEF Answer

LEMMA HeapShrinks ==
    ASSUME HeapTyped, fails' = fails, live' \subseteq live
    PROVE  HeapTyped'
BY DEF HeapTyped

\* A section is appended to the list.
Split(m, rec, c) == [m EXCEPT !.secs = Append(@, rec), !.code = c]

LEMMA SectionSplit ==
    ASSUME NEW m, IsModule(m), NEW rec \in SectionRecs, NEW c \in Nat
    PROVE  LET q == Split(m, rec, c) IN
           /\ IsModule(q) /\ q.vec = m.vec /\ q.imp = m.imp /\ q.code = c
           /\ q.filedata = m.filedata /\ q.instance = m.instance
           /\ Len(q.secs) = Len(m.secs) + 1
           /\ \A i \in 1..Len(q.secs) : q.secs[i] = IF i <= Len(m.secs) THEN m.secs[i] ELSE rec
<1> SUFFICES ASSUME NEW q, q = Split(m, rec, c)
             PROVE  /\ IsModule(q) /\ q.vec = m.vec /\ q.imp = m.imp /\ q.code = c
                    /\ q.filedata = m.filedata /\ q.instance = m.instance
                    /\ Len(q.secs) = Len(m.secs) + 1
                    /\ \A i \in 1..Len(q.secs) :
                          q.secs[i] = IF i <= Len(m.secs) THEN m.secs[i] ELSE rec
  OBVIOUS
<1> DEFINE new == Append(m.secs, rec)
<1>1. m.secs \in Seq(SectionRecs) /\ Len(m.secs) \in Nat
  BY SectionsOfModule DEF IsModule
<1>2. /\ new \in Seq(SectionRecs) /\ Len(new) = Len(m.secs) + 1
      /\ \A i \in 1..Len(m.secs) : new[i] = m.secs[i]
      /\ new[Len(m.secs) + 1] = rec
  BY <1>1, AppendProperties
<1> HIDE DEF new
<1>3. \A i \in 1..Len(new) : new[i] = IF i <= Len(m.secs) THEN m.secs[i] ELSE rec
  <2> SUFFICES ASSUME NEW i \in 1..Len(new)
               PROVE  new[i] = IF i <= Len(m.secs) THEN m.secs[i] ELSE rec
    OBVIOUS
  <2>1. i \in 1..Len(m.secs) \/ (i = Len(m.secs) + 1 /\ ~(i <= Len(m.secs)))
    BY <1>1, <1>2
  <2>2. i \in 1..Len(m.secs) => i <= Len(m.secs)
    BY <1>1
  <2> QED  BY <1>2, <2>1, <2>2
<1>4. q = [filedata |-> m.filedata, secs |-> new, code |-> c, start |-> m.start,
           vec |-> m.vec, imp |-> m.imp, instance |-> m.instance]
  BY DEF IsModule, new, Split
<1>5. /\ q.vec = m.vec /\ q.imp = m.imp /\ q.code = c /\ q.start = m.start
      /\ q.filedata = m.filedata /\ q.instance = m.instance /\ q.secs = new
  BY <1>4
<1>6. IsModule(q)
  BY <1>2, <1>4, <1>5 DEF IsModule
<1> QED  BY <1>2, <1>3, <1>5, <1>6

\* What _fw_module_load makes of the next section.
SectionAdded ==
    \E rec \in SectionRecs, c \in {mod.code, Len(mod.secs) + 1} :
       /\ rec.free = 0 /\ rec.last = fpos' /\ fpos' \in Nat \ {0} /\ fpos' >= fpos
       /\ mod' = Split(mod, rec, c)
       /\ live' = live \cup {Section(Len(mod.secs) + 1)}
       /\ UNCHANGED <<pc, at, back>>

LEMMA SplitStep ==
    ASSUME Typed, SplitSection
    PROVE  /\ pc = "sections" /\ UNCHANGED <<cells, short, item, todo, nxt, probe, parsed>>
           /\ HeapTyped' /\ fails' <= fails
           /\ \/ LoadFails /\ UNCHANGED <<live, fpos, mod>>
              \/ SectionAdded
<1>1. /\ pc = "sections" /\ UNCHANGED <<cells, short, item, todo, nxt, probe, parsed>>
      /\ fpos <= Len(cells)
  BY DEF SplitSection
<1>2. /\ IsModule(mod) /\ HeapTyped /\ fails \in Nat /\ fpos \in Nat \ {0}
      /\ RegistryInv /\ cells = given.cells
  BY TypedParts DEF Typed, HeapTyped
<1>3. cells \in Seq(Nat) /\ Len(cells) \in Nat
  BY <1>2, CasesAssumption, LenProperties DEF RegistryInv
<1>4. Len(mod.secs) \in Nat /\ mod.code \in Nat
  BY <1>2, SectionsOfModule DEF IsModule
<1> DEFINE size == cells[fpos + 1]
           rec == NewSection(cells[fpos], fpos + 2, size)
           new == Len(mod.secs) + 1
<1>5. CASE ~KnownType(cells[fpos]) \/ fpos + 1 > Len(cells)
  <2>1. LoadFails /\ UNCHANGED <<live, fails, fpos, mod>>
    BY <1>5 DEF SplitSection
  <2> QED  BY <1>1, <1>2, <2>1 DEF HeapTyped
<1>6. CASE ~(~KnownType(cells[fpos]) \/ fpos + 1 > Len(cells))
  <2>1. PICK s \in Answer(Section(new)) :
                 /\ Mallocs(<<s>>)
                 /\ IF s = Null
                    THEN LoadFails /\ UNCHANGED <<fpos, mod>>
                    ELSE /\ mod' = [mod EXCEPT
                              !.secs = Append(@, NewSection(cells[fpos], fpos + 2, size)),
                              !.code = IF cells[fpos] = Code THEN new ELSE @]
                         /\ fpos' = fpos + 2 + size
                         /\ UNCHANGED <<pc, at, back>>
    BY <1>6 DEF SplitSection
  <2>2. HeapGrew({s})
    BY <1>2, <2>1, OneMalloc DEF HeapGrew
  <2>3. s # Wild /\ Section(new) # Null
    <3>1. "section" \notin {"NULL", "wild"}
      OBVIOUS
    <3> QED  BY <2>1, <3>1, NamesGiven DEF Section
  <2>4. HeapTyped' /\ fails' <= fails
    BY <1>2, <2>2, <2>3, HeapStaysTyped DEF HeapGrew
  <2>5. CASE s = Null
    BY <1>1, <2>1, <2>2, <2>4, <2>5 DEF HeapGrew
  <2>6. CASE s # Null
    <3>1. live' = live \cup {Section(new)}
      BY <2>2, <2>6 DEF HeapGrew, Answer
    <3>2. cells[fpos] \in Nat /\ size \in Nat /\ cells[fpos] <= 11
      <4>1. fpos \in 1..Len(cells) /\ fpos + 1 \in 1..Len(cells)
        BY <1>1, <1>2, <1>3, <1>6
      <4>2. cells[fpos] \in Nat /\ size \in Nat
        BY <1>3, <4>1, ElementOfSeq
      <4> QED  BY <1>6, <4>2 DEF KnownType, Data
    <3> HIDE DEF size
    <3>3. rec \in SectionRecs /\ rec.free = 0 /\ rec.last = fpos + 2 + size
      <4>1. fpos + 2 \in Nat \ {0} /\ fpos + 2 + size \in Nat /\ cells[fpos] \in 0..11
        <5>1. fpos \in Nat /\ size \in Nat /\ cells[fpos] \in Nat /\ cells[fpos] <= 11
          BY <1>2, <3>2
        <5> QED  BY <5>1
      <4> QED  BY <4>1 DEF NewSection, SectionRecs, Custom, Data
    <3> DEFINE c == IF cells[fpos] = Code THEN new ELSE mod.code
    <3>4. mod' = Split(mod, rec, c)
      BY <2>1, <2>6 DEF Split
    <3>5. fpos' = fpos + 2 + size /\ fpos' \in Nat \ {0} /\ fpos' >= fpos
      BY <1>2, <2>1, <2>6, <3>2
    <3>6. SectionAdded
      <4>1. UNCHANGED <<pc, at, back>> /\ c \in {mod.code, Len(mod.secs) + 1}
        BY <2>1, <2>6
      <4> HIDE DEF rec, c
      <4> QED  BY <3>1, <3>3, <3>4, <3>5, <4>1 DEF SectionAdded
    <3> QED  BY <1>1, <2>4, <3>6
  <2> QED  BY <2>5, <2>6
<1> QED  BY <1>5, <1>6

\* The types of the next state, part by part.
LEMMA TypedNext ==
    ASSUME RegistryInv', cells' = given'.cells, short' = given'.short,
           probe' \in Nat, nxt' \in [Kinds -> Nat],
           back' \in {"none", "close", "done"}, pc' = "free" => back' # "none",
           pc' \in {"parse", "free"} => at' # 0,
           pc' \in States, fpos' \in Nat \ {0}, compiled' \in {"none", "ok", "err"},
           HeapTyped', LoopTyped', IsModule(mod'), SectionsInside', LoopInside', InstanceTyped'
    PROVE  SessionTyped'
<1>1. (SessionTyped <=>
             /\ cells = given.cells /\ short = given.short
             /\ probe \in Nat /\ nxt \in [Kinds -> Nat]
             /\ back \in {"none", "close", "done"}
             /\ pc = "free" => back # "none"
             /\ pc \in {"parse", "free"} => at # 0
             /\ pc \in States /\ fpos \in Nat \ {0} /\ compiled \in {"none", "ok", "err"}
             /\ HeapTyped /\ LoopTyped /\ IsModule(mod) /\ SectionsInside /\ LoopInside
             /\ InstanceTyped)'
  BY TypedParts, PTL
<1>2. IsModule(mod)'
  BY DEF IsModule
<1> QED  BY <1>1, <1>2

\* A step of a session that neither cuts nor parses a file.
LEMMA OutsideParse ==
    ASSUME Typed, RegistryInv', UNCHANGED <<cells, short, fpos, nxt, probe, given>>,
           pc' \in States \ {"open", "header", "sections", "parse"},
           pc' = "free" => at' # 0 /\ back' # "none",
           back' \in {"none", "close", "done"},
           HeapTyped', LoopTyped', IsModule(mod'),
           mod'.code = mod.code, Len(mod'.secs) = Len(mod.secs),
           compiled' \in {"none", "ok", "err"}, InstanceTyped'
    PROVE  SessionTyped'
<1>1. /\ cells = given.cells /\ short = given.short /\ fpos \in Nat \ {0}
      /\ probe \in Nat /\ nxt \in [Kinds -> Nat] /\ SectionsInside
  BY TypedParts DEF Typed
<1>2. SectionsInside' /\ LoopInside'
  BY <1>1 DEF SectionsInside, LoopInside
<1> QED  BY <1>1, <1>2, TypedNext

\* One that leaves the loader where it stands.
LEMMA LoaderStays ==
    ASSUME Typed, RegistryInv', UNCHANGED <<loaderVars, given>>,
           pc' \in States \ {"open", "header", "sections", "parse", "free"},
           HeapTyped', compiled' \in {"none", "ok", "err"}, InstanceTyped'
    PROVE  SessionTyped'
<1>1. /\ UNCHANGED <<cells, short, fpos, nxt, probe, mod, at, item, todo, back, parsed>>
      /\ IsModule(mod) /\ LoopTyped /\ back \in {"none", "close", "done"}
  BY TypedParts DEF Typed, loaderVars
<1>2. LoopTyped'
  BY <1>1 DEF LoopTyped
<1> QED  BY <1>1, <1>2, OutsideParse

LEMMA ReadKeepsTypes ==
    ASSUME Typed, RegistryInv', OpenFails \/ ReadFails \/ ReadFile \/ BadHeader \/ NewModule,
           UNCHANGED <<given, instanceVars>>
    PROVE  SessionTyped'
<1>1. /\ HeapTyped /\ fails \in Nat /\ InstanceTyped /\ compiled \in {"none", "ok", "err"}
      /\ UNCHANGED <<turn, funcs, compiled>>
      /\ IsModule(mod) /\ SectionsInside /\ LoopTyped
      /\ cells = given.cells /\ short = given.short
      /\ probe \in Nat /\ nxt \in [Kinds -> Nat] /\ back \in {"none", "close", "done"}
  BY TypedParts DEF Typed, HeapTyped, instanceVars
<1>2. pc' \notin {"resolve", "exports"} => InstanceTyped'
  BY <1>1 DEF InstanceTyped
<1>3. /\ FileObj \notin {Null, Wild} /\ FileData \notin {Null, Wild}
      /\ \A m \in Answer(Module) : m # Wild
  <2>1. {"file", "filedata", "module"} \cap {"NULL", "wild"} = {}
    OBVIOUS
  <2> QED  BY <2>1, NamesGiven DEF FileObj, FileData, Module
<1>4. CASE OpenFails \/ BadHeader
  <2>1. UNCHANGED <<live, fails, loaderVars>> /\ pc' \in {"load_null", "close"}
    BY <1>4 DEF OpenFails, BadHeader
  <2>2. HeapTyped'
    BY <1>1, <2>1 DEF HeapTyped
  <2> QED  BY <1>1, <1>2, <2>1, <2>2, LoaderStays DEF States
<1>5. CASE ReadFails
  <2>1. UNCHANGED loaderVars /\ pc' = "load_null"
    BY <1>5 DEF ReadFails
  <2>2. HeapTyped'
    BY <1>1, <1>3, <1>5 DEF ReadFails, HeapTyped
  <2> QED  BY <1>1, <1>2, <2>1, <2>2, LoaderStays DEF States
<1>6. CASE ReadFile
  <2>1. /\ pc = "open" /\ pc' = "header" /\ Mallocs(<<FileObj, FileData>>)
        /\ UNCHANGED <<cells, short, fpos, nxt, probe, mod, at, item, todo, back, parsed>>
    BY <1>6 DEF ReadFile, loaderVars
  <2>2. HeapTyped'
    <3>1. HeapGrew({FileObj, FileData}) /\ Wild \notin {FileObj, FileData}
      BY <1>1, <1>3, <2>1, TwoMallocs DEF HeapGrew
    <3> QED  BY <1>1, <3>1, HeapStaysTyped
  <2>3. SectionsInside' /\ LoopInside' /\ LoopTyped'
    BY <1>1, <2>1 DEF SectionsInside, LoopInside, LoopTyped
  <2>4. fpos \in Nat \ {0}
    BY TypedParts DEF Typed
  <2> QED  BY <1>1, <1>2, <2>1, <2>2, <2>3, <2>4, TypedNext DEF States
<1>7. CASE NewModule
  <2>1. PICK m \in Answer(Module) : Mallocs(<<m>>)
    BY <1>7 DEF NewModule
  <2>2. /\ pc = "header" /\ pc' \in {"close", "sections"} /\ fpos' = 3
        /\ UNCHANGED <<cells, short, nxt, probe, mod, at, item, todo, back, parsed>>
    BY <1>7 DEF NewModule, Mallocs
  <2>3. HeapTyped'
    <3>1. HeapGrew({m}) /\ Wild \notin {m}
      BY <1>1, <1>3, <2>1, OneMalloc DEF HeapGrew
    <3> QED  BY <1>1, <3>1, HeapStaysTyped
  <2>4. SectionsInside' /\ LoopInside' /\ LoopTyped'
    <3>1. mod.secs = << >>
      BY <1>1, <2>2 DEF SectionsInside
    <3>2. DOMAIN mod.secs = {}
      BY <3>1
    <3> QED  BY <1>1, <2>2, <3>2 DEF SectionsInside, LoopInside, LoopTyped
  <2> QED  BY <1>1, <1>2, <2>2, <2>3, <2>4, TypedNext DEF States
<1> QED  BY <1>4, <1>5, <1>6, <1>7

LEMMA CutKeepsTypes ==
    ASSUME Typed, RegistryInv', SplitSection \/ SplitEnds, UNCHANGED <<given, instanceVars>>
    PROVE  SessionTyped'
<1>1. /\ HeapTyped /\ InstanceTyped /\ compiled \in {"none", "ok", "err"}
      /\ UNCHANGED <<turn, funcs, compiled>>
      /\ IsModule(mod) /\ SectionsInside /\ LoopTyped /\ fpos \in Nat \ {0}
      /\ cells = given.cells /\ short = given.short
      /\ probe \in Nat /\ nxt \in [Kinds -> Nat] /\ back \in {"none", "close", "done"}
  BY TypedParts DEF Typed, instanceVars
<1>2. pc' \notin {"resolve", "exports"} => InstanceTyped'
  BY <1>1 DEF InstanceTyped
<1>3. /\ Len(mod.secs) \in Nat /\ DOMAIN mod.secs = 1..Len(mod.secs)
      /\ \A i \in 1..Len(mod.secs) : mod.secs[i].last \in Nat
      /\ mod.code \in Nat /\ mod.code <= Len(mod.secs)
  BY <1>1, SectionsOfModule DEF IsModule, SectionsInside
<1>4. CASE /\ pc = "sections" /\ LoadFails
           /\ UNCHANGED <<cells, short, fpos, mod, item, todo, nxt, probe, parsed>>
           /\ HeapTyped'
  <2>1. pc' = "free" /\ at' = 1 /\ back' = "close"
    BY <1>4 DEF LoadFails
  <2>2. LoopTyped'
    BY <1>1, <1>4, <2>1 DEF LoopTyped
  <2> QED  BY <1>1, <1>2, <1>4, <2>1, <2>2, OutsideParse DEF States
<1>5. CASE SplitSection
  <2>1. /\ pc = "sections" /\ UNCHANGED <<cells, short, item, todo, nxt, probe, parsed>>
        /\ HeapTyped'
        /\ \/ LoadFails /\ UNCHANGED <<live, fpos, mod>>
           \/ SectionAdded
    BY <1>5, SplitStep
  <2>2. CASE SectionAdded
    <3>1. PICK rec \in SectionRecs, c \in {mod.code, Len(mod.secs) + 1} :
             /\ rec.last = fpos' /\ fpos' \in Nat \ {0} /\ fpos' >= fpos
             /\ mod' = Split(mod, rec, c)
             /\ UNCHANGED <<pc, at, back>>
      BY <2>2 DEF SectionAdded
    <3>2. c \in Nat /\ c <= Len(mod.secs) + 1
      BY <1>3
    <3>3. LET q == Split(mod, rec, c) IN
           /\ IsModule(q) /\ q.code = c
           /\ Len(q.secs) = Len(mod.secs) + 1
           /\ \A i \in 1..Len(q.secs) :
                 q.secs[i] = IF i <= Len(mod.secs) THEN mod.secs[i] ELSE rec
      BY <1>1, <3>2, SectionSplit
    <3>4. /\ IsModule(mod') /\ mod'.code = c
          /\ Len(mod'.secs) = Len(mod.secs) + 1
          /\ \A i \in 1..Len(mod'.secs) :
                mod'.secs[i] = IF i <= Len(mod.secs) THEN mod.secs[i] ELSE rec
      BY <3>1, <3>3
    <3>5. \A i \in 1..Len(mod'.secs) : mod'.secs[i].last <= fpos'
      <4> SUFFICES ASSUME NEW i \in 1..Len(mod'.secs) PROVE mod'.secs[i].last <= fpos'
        OBVIOUS
      <4>1. CASE i <= Len(mod.secs)
        <5>1. i \in 1..Len(mod.secs)
          BY <1>3, <4>1
        <5>2. mod.secs[i].last <= fpos
          BY <1>1, <1>3, <2>1, <5>1 DEF SectionsInside
        <5>3. mod.secs[i].last \in Nat
          BY <1>3, <5>1
        <5> QED  BY <1>1, <3>1, <3>4, <4>1, <5>2, <5>3
      <4>2. CASE ~(i <= Len(mod.secs))
        BY <3>1, <3>4, <4>2
      <4> QED  BY <4>1, <4>2
    <3>6. SectionsInside' /\ LoopInside'
      <4>1. DOMAIN mod'.secs = 1..Len(mod'.secs)
        BY <3>4, SectionsOfModule
      <4>2. mod'.code <= Len(mod'.secs)
        BY <3>2, <3>4
      <4>3. pc' = "sections" /\ item' = 0
        BY <1>1, <2>1, <3>1 DEF SectionsInside
      <4> QED  BY <3>5, <4>1, <4>2, <4>3 DEF SectionsInside, LoopInside
    <3>7. LoopTyped'
      BY <1>1, <2>1, <3>1 DEF LoopTyped
    <3> QED  BY <1>1, <1>2, <2>1, <3>1, <3>4, <3>6, <3>7, TypedNext DEF States
  <2> QED  BY <1>4, <2>1, <2>2
<1>6. CASE SplitEnds
  <2>1. /\ pc = "sections" /\ HeapTyped'
        /\ UNCHANGED <<live, fails, cells, short, fpos, mod, item, todo, nxt, probe, parsed>>
    BY <1>1, <1>6 DEF SplitEnds, HeapTyped
  <2>2. CASE LoadFails
    BY <1>4, <2>1, <2>2
  <2>3. CASE ~(mod.code = 0 \/ fpos # Len(cells) + 1)
    <3>1. pc' = "parse" /\ at' = 1 /\ UNCHANGED back
      BY <1>6, <2>3 DEF SplitEnds
    <3>2. SectionsInside'
      BY <1>1, <2>1, <2>3, <3>1 DEF SectionsInside
    <3>3. LoopInside'
      <4>1. item' = 0
        BY <1>1, <2>1 DEF SectionsInside
      <4> QED  BY <4>1 DEF LoopInside
    <3>4. LoopTyped'
      BY <1>1, <2>1, <3>1 DEF LoopTyped
    <3> QED  BY <1>1, <1>2, <2>1, <3>1, <3>2, <3>3, <3>4, TypedNext DEF States
  <2> QED  BY <1>6, <2>2, <2>3 DEF SplitEnds
<1> QED  BY <1>5, <1>6

\* The data of the file, or the instance, is given to the module.
WithPtrs(m, data, instance) == [m EXCEPT !.filedata = data, !.instance = instance]

LEMMA PtrsSet ==
    ASSUME NEW m, IsModule(m), NEW d \in {Null, FileData}, NEW i \in {Null, Instance}
    PROVE  LET q == WithPtrs(m, d, i) IN
           /\ IsModule(q) /\ q.secs = m.secs /\ q.vec = m.vec /\ q.imp = m.imp
           /\ q.code = m.code /\ q.filedata = d /\ q.instance = i
<1> SUFFICES ASSUME NEW q, q = WithPtrs(m, d, i)
             PROVE  /\ IsModule(q) /\ q.secs = m.secs /\ q.vec = m.vec /\ q.imp = m.imp
                    /\ q.code = m.code /\ q.filedata = d /\ q.instance = i
  OBVIOUS
<1>1. q = [filedata |-> d, secs |-> m.secs, code |-> m.code, start |-> m.start,
           vec |-> m.vec, imp |-> m.imp, instance |-> i]
  BY DEF IsModule, WithPtrs
<1>2. /\ q.secs = m.secs /\ q.imp = m.imp /\ q.code = m.code /\ q.start = m.start
      /\ q.filedata = d /\ q.instance = i /\ q.vec = m.vec
  BY <1>1
<1> QED  BY <1>1, <1>2 DEF IsModule

LEMMA CloseKeepsTypes ==
    ASSUME Typed, RegistryInv', CloseFile \/ Detach, UNCHANGED <<given, instanceVars>>
    PROVE  SessionTyped'
<1>1. /\ HeapTyped /\ InstanceTyped /\ compiled \in {"none", "ok", "err"}
      /\ UNCHANGED <<turn, funcs, compiled>>
      /\ IsModule(mod) /\ LoopTyped /\ back \in {"none", "close", "done"}
  BY TypedParts DEF Typed, instanceVars
<1>2. pc' \notin {"resolve", "exports"} => InstanceTyped'
  BY <1>1 DEF InstanceTyped
<1>3. CASE CloseFile
  <2>1. UNCHANGED loaderVars /\ pc' = "load_null" /\ live' \subseteq live /\ fails' = fails
    BY <1>3 DEF CloseFile, Without
  <2>2. HeapTyped'
    BY <1>1, <2>1, HeapShrinks
  <2> QED  BY <1>1, <1>2, <2>1, <2>2, LoaderStays DEF States
<1>4. CASE Detach
  <2>1. /\ UNCHANGED <<cells, short, fpos, nxt, probe, at, item, todo, back, parsed>>
        /\ pc' = "loaded" /\ live' \subseteq live /\ fails' = fails
        /\ mod' = WithPtrs(mod, FileData, mod.instance)
    <3>1. mod' = [mod EXCEPT !.filedata = FileData]
      BY <1>4 DEF Detach
    <3>2. mod' = [mod EXCEPT !.filedata = FileData, !.instance = mod.instance]
      BY <1>1, <3>1 DEF IsModule
    <3> QED  BY <1>4, <3>2 DEF Detach, Without, WithPtrs
  <2>2. HeapTyped'
    BY <1>1, <2>1, HeapShrinks
  <2>3. IsModule(mod') /\ mod'.secs = mod.secs /\ mod'.code = mod.code
    <3>1. mod.instance \in {Null, Instance} /\ FileData \in {Null, FileData}
      BY <1>1 DEF IsModule
    <3>2. LET q == WithPtrs(mod, FileData, mod.instance) IN
           /\ IsModule(q) /\ q.secs = mod.secs /\ q.vec = mod.vec /\ q.imp = mod.imp
           /\ q.code = mod.code /\ q.filedata = FileData /\ q.instance = mod.instance
      BY <1>1, <3>1, PtrsSet
    <3> QED  BY <2>1, <3>2
  <2>4. LoopTyped'
    BY <1>1, <2>1 DEF LoopTyped
  <2> QED  BY <1>1, <1>2, <2>1, <2>2, <2>3, <2>4, OutsideParse DEF States
<1> QED  BY <1>3, <1>4

-----------------------------------------------------------------------------
(***************************************************************************)
(* fw_module_free                                                          *)
(***************************************************************************)
LEMMA ArrayLost ==
    ASSUME NEW v, NEW n, ArrayTrouble(v, n) # ""
    PROVE  ArrayTrouble(v, n) \in LostStates
BY ReadsLost DEF ArrayTrouble, LostStates

LEMMA VectorLost ==
    ASSUME NEW k, VectorTrouble(k) # ""
    PROVE  VectorTrouble(k) \in LostStates
BY ArrayLost DEF VectorTrouble, LostStates

LEMMA ImportsLost == ImportsTrouble \subseteq LostStates
<1>1. \A k \in Kinds : ArrayTrouble(mod.imp[k], mod.imp[k].cnt)
                         \in LostStates \cup {""}
  BY ArrayLost
<1> QED  BY <1>1 DEF ImportsTrouble, LostStates

\* The arrays of the imports are taken back.
ArraysTaken(imp) == [k \in Kinds |-> [imp[k] EXCEPT !.arr = Null]]

LEMMA ImportsTaken ==
    ASSUME IsModule(mod), mod' = WithImports(mod, ArraysTaken(mod.imp))
    PROVE  /\ IsModule(mod') /\ mod'.secs = mod.secs /\ mod'.vec = mod.vec
           /\ mod'.code = mod.code /\ mod'.filedata = mod.filedata
<1>1. ArraysTaken(mod.imp) \in [Kinds -> ImpRecs]
  <2>1. Null \in Ptrs
    BY DEF Null, Obj, Ptrs, PtrKinds
  <2>2. \A k \in Kinds : mod.imp[k] \in ImpRecs
    BY DEF IsModule
  <2>3. \A k \in Kinds : [mod.imp[k] EXCEPT !.arr = Null] \in ImpRecs
    BY <2>1, <2>2 DEF ImpRecs
  <2> QED  BY <2>3 DEF ArraysTaken
<1>2. LET q == WithImports(mod, ArraysTaken(mod.imp)) IN
       /\ IsModule(q) /\ q.secs = mod.secs
       /\ q.vec = mod.vec /\ q.imp = ArraysTaken(mod.imp) /\ q.code = mod.code
       /\ q.start = mod.start
       /\ q.filedata = mod.filedata /\ q.instance = mod.instance
  BY <1>1, ImportsSet
<1> QED  BY <1>2

\* Whatever a step of fw_module_free gives back, and where it goes.
LEMMA FreeSteps ==
    ASSUME Typed, FreeModule
    PROVE  /\ pc = "free" /\ fails' = fails /\ live' \subseteq live
           /\ UNCHANGED <<cells, short, fpos, nxt, probe, back>>
           /\ \/ NextSection
              \/ \E how \in LostStates : Lost(how)
              \/ pc' \in LostStates \cup {back} /\ UNCHANGED <<at, item, todo, parsed>>
           /\ mod' = mod \/ mod' = WithImports(mod, ArraysTaken(mod.imp))
<1>2. CASE FreePlain
  BY <1>2 DEF FreePlain, Freeing, Without, UnchangedFile
<1>3. CASE FreeImports
  <2>1. /\ pc = "free" /\ fails' = fails /\ live' \subseteq live
        /\ UNCHANGED <<cells, short, fpos, nxt, probe, back>>
    BY <1>3 DEF FreeImports, Freeing, Without, UnchangedFile
  <2>2. \/ NextSection /\ mod' = WithImports(mod, ArraysTaken(mod.imp))
        \/ (\E how \in ImportsTrouble : Lost(how)) /\ mod' = mod
    BY <1>3 DEF FreeImports, WithImports, ArraysTaken
  <2> QED  BY <2>1, <2>2, ImportsLost
<1>4. ASSUME NEW k \in Vectors, FreeVector(k)
      PROVE  /\ pc = "free" /\ fails' = fails /\ live' \subseteq live
             /\ UNCHANGED <<cells, short, fpos, nxt, probe, back>>
             /\ NextSection \/ \E how \in LostStates : Lost(how)
             /\ mod' = mod
  BY <1>4, VectorLost DEF FreeVector, Freeing, Without, UnchangedFile
<1>5. CASE FreeRest
  <2>1. ArrayTrouble(Types, Types.cnt) # "" =>
            ArrayTrouble(Types, Types.cnt) \in LostStates
    BY ArrayLost
  <2>2. pc = "free" /\ pc' \in LostStates \cup {back}
    BY <1>5, <2>1 DEF FreeRest, LostStates
  <2> QED  BY <1>5, <2>2 DEF FreeRest, Without, UnchangedFile
<1> QED  BY <1>2, <1>3, <1>4, <1>5 DEF FreeModule

LEMMA FreeKeepsTypes ==
    ASSUME Typed, RegistryInv', FreeModule, UNCHANGED <<given, instanceVars>>
    PROVE  SessionTyped'
<1>1. /\ HeapTyped /\ InstanceTyped /\ compiled \in {"none", "ok", "err"}
      /\ UNCHANGED <<turn, funcs, compiled>>
      /\ IsModule(mod) /\ LoopTyped /\ back \in {"none", "close", "done"}
      /\ pc = "free" => at # 0 /\ back # "none"
  BY TypedParts DEF Typed, instanceVars
<1>2. /\ pc = "free" /\ fails' = fails /\ live' \subseteq live
      /\ UNCHANGED <<cells, short, fpos, nxt, probe, back>>
      /\ \/ NextSection
         \/ \E how \in LostStates : Lost(how)
         \/ pc' \in LostStates \cup {back} /\ UNCHANGED <<at, item, todo, parsed>>
      /\ mod' = mod \/ mod' = WithImports(mod, ArraysTaken(mod.imp))
  BY FreeSteps
<1>3. pc' \in LostStates \cup {"free", "close", "done"} /\ at' \in {at, at + 1}
      /\ LoopTyped'
  <2>1. CASE NextSection
    BY <1>1, <1>2, <2>1 DEF NextSection, LoopTyped
  <2>2. CASE \E how \in LostStates : Lost(how)
    BY <1>1, <2>2 DEF Lost, LoopTyped
  <2>3. CASE pc' \in LostStates \cup {back} /\ UNCHANGED <<at, item, todo, parsed>>
    BY <1>1, <1>2, <2>3 DEF LoopTyped
  <2> QED  BY <1>2, <2>1, <2>2, <2>3
<1>4. HeapTyped' /\ InstanceTyped'
  BY <1>1, <1>2, <1>3, HeapShrinks DEF InstanceTyped, LostStates
<1>5. IsModule(mod') /\ mod'.secs = mod.secs /\ mod'.code = mod.code
  <2>1. CASE mod' = mod
    BY <1>1, <2>1 DEF IsModule
  <2>2. CASE mod' = WithImports(mod, ArraysTaken(mod.imp))
    BY <1>1, <2>2, ImportsTaken
  <2> QED  BY <1>2, <2>1, <2>2
<1>6. pc' = "free" => at' # 0 /\ back' # "none"
  BY <1>1, <1>2, <1>3 DEF LoopTyped
<1>7. pc' \in States \ {"open", "header", "sections", "parse"}
  BY <1>3 DEF States, LostStates
<1> QED  BY <1>1, <1>2, <1>3, <1>4, <1>5, <1>6, <1>7, OutsideParse

-----------------------------------------------------------------------------
(***************************************************************************)
(* The steps of the compilation, of the run and of the driver              *)
(***************************************************************************)
LEMMA FoundTyped ==
    ASSUME RegistryInv, NEW mname, NEW nsname
    PROVE  Found(mname, nsname) \in Hosts \cup {NoHost}
<1> DEFINE b == FindHash(mname, nsname)
           hits == Places(mname, nsname)
<1>1. CASE hits = {}
  BY <1>1 DEF Found
<1>2. CASE hits # {}
  <2>1. b \in DOMAIN buckets
    BY <1>2 DEF Places, Searched
  <2>2. /\ Searched(mname, nsname) = buckets[b] /\ Len(buckets[b]) \in Nat
        /\ DOMAIN buckets[b] = 1..Len(buckets[b])
        /\ \A i \in 1..Len(buckets[b]) : buckets[b][i] \in EntrySet
    BY <2>1, EachEntry DEF Searched
  <2>3. hits \subseteq 1..Len(buckets[b])
    BY <2>2 DEF Places
  <2> DEFINE first == CHOOSE i \in hits : \A j \in hits : i <= j
  <2>4. first \in hits
    <3>1. hits \in SUBSET Nat
      BY <2>2, <2>3
    <3>2. \E i \in hits : \A j \in hits : i <= j
      BY <1>2, <3>1, Least
    <3> QED  BY <3>2
  <2>5. Found(mname, nsname) = buckets[b][first].host
    BY <1>2, <2>2 DEF Found
  <2> HIDE DEF first
  <2>6. buckets[b][first] \in EntrySet
    BY <2>2, <2>3, <2>4
  <2> QED  BY <2>5, <2>6 DEF EntrySet
<1> QED  BY <1>1, <1>2

LEMMA TypeAtTyped ==
    ASSUME IsModule(mod), NEW idx \in Nat
    PROVE  TypeAt(idx) \in Ptrs
<1>1. mod.vec[Type] \in VecRecs(Type)
  BY DEF IsModule, Vectors
<1>2. Types.elt \in Seq(EntryRecs) /\ Len(Types.elt) \in Nat
  BY <1>1, LenProperties DEF VecRecs, Types, Type, Function
<1>3. Wild \in Ptrs
  BY DEF Wild, Obj, Ptrs, PtrKinds
<1>4. ASSUME idx < Len(Types.elt) PROVE Types.elt[idx + 1].own \in Ptrs
  <2>1. idx + 1 \in 1..Len(Types.elt)
    BY <1>2, <1>4
  <2>2. Types.elt[idx + 1] \in EntryRecs
    BY <1>2, <2>1, ElementOfSeq
  <2> QED  BY <2>2 DEF EntryRecs
<1> QED  BY <1>3, <1>4 DEF TypeAt

\* Where a step of the compilation may lead.
Compiles ==
    /\ fails' \in Nat /\ HeapTyped'
    /\ pc' \in GoneStates \cup {"resolve", "exports", "compiled"}
    /\ compiled' \in {"none", "ok", "err"} /\ InstanceTyped'
    /\ IsModule(mod') /\ mod'.secs = mod.secs /\ mod'.code = mod.code

LEMMA ValidatedKnown == \A v \in Validated : v \in {"resolve"} \cup GoneStates
BY UnendingGone DEF Validated, GoneStates, LostStates

LEMMA InstanceNew ==
    ASSUME Typed, CompileBegins
    PROVE  Compiles
<1>1. /\ HeapTyped /\ fails \in Nat /\ InstanceTyped /\ compiled \in {"none", "ok", "err"}
      /\ IsModule(mod)
  BY TypedParts DEF Typed, HeapTyped
<1>2. pc' \notin {"resolve", "exports"} /\ UNCHANGED <<turn, funcs>> => InstanceTyped'
  BY <1>1 DEF InstanceTyped
<1>3. CASE CompileErr /\ UNCHANGED <<live, fails, mod>>
  <2>1. HeapTyped' /\ IsModule(mod') /\ fails' \in Nat
    BY <1>1, <1>3 DEF HeapTyped, IsModule
  <2> QED  BY <1>2, <1>3, <2>1 DEF CompileErr, Compiles
<1>4. CASE Mallocs(<<Null>>) /\ CompileErr /\ UNCHANGED mod
  <2>1. HeapGrew({Null}) /\ Null # Wild
    BY <1>1, <1>4, OneMalloc DEF HeapGrew, Null, Wild, Obj
  <2>2. HeapTyped' /\ fails' \in Nat
    BY <1>1, <2>1, HeapStaysTyped DEF HeapGrew
  <2>3. IsModule(mod')
    BY <1>1, <1>4 DEF IsModule
  <2> QED  BY <1>2, <1>4, <2>2, <2>3 DEF CompileErr, Compiles
<1>5. ASSUME NEW a \in Answer(FuncTable), NEW v \in Validated,
             mod' = [mod EXCEPT !.instance = Instance],
             IF v # "resolve"
             THEN Mallocs(<<Instance>>) /\ CompileLost(v)
             ELSE IF a = Null
             THEN Mallocs(<<Instance, a>>) /\ CompileErr
             ELSE /\ Mallocs(<<Instance, a>>)
                  /\ pc' = "resolve"
                  /\ turn' = 1
                  /\ UNCHANGED <<funcs, compiled>>
      PROVE  Compiles
  <2>1. /\ Instance # Wild /\ a # Wild
    <3>1. {"instance", "instance funcs"} \cap {"NULL", "wild"} = {}
      OBVIOUS
    <3> QED  BY <1>5, <3>1, NamesGiven DEF Instance, FuncTable
  <2>2. \E S : HeapGrew(S) /\ Wild \notin S
    <3>1. CASE Mallocs(<<Instance>>)
      <4>1. HeapGrew({Instance})
        BY <1>1, <3>1, OneMalloc DEF HeapGrew
      <4>2. Wild \notin {Instance}
        BY <2>1
      <4> QED  BY <4>1, <4>2
    <3>2. CASE Mallocs(<<Instance, a>>)
      <4>1. HeapGrew({Instance, a})
        BY <1>1, <3>2, TwoMallocs DEF HeapGrew
      <4>2. Wild \notin {Instance, a}
        BY <2>1
      <4> QED  BY <4>1, <4>2
    <3> QED  BY <1>5, <3>1, <3>2
  <2>3. HeapTyped' /\ fails' \in Nat
    BY <1>1, <2>2, HeapStaysTyped DEF HeapGrew
  <2>4. IsModule(mod') /\ mod'.secs = mod.secs /\ mod'.code = mod.code
    <3>1. mod' = WithPtrs(mod, mod.filedata, Instance)
      <4>1. [mod EXCEPT !.instance = Instance]
              = [mod EXCEPT !.filedata = mod.filedata, !.instance = Instance]
        BY <1>1 DEF IsModule
      <4> QED  BY <1>5, <4>1 DEF WithPtrs
    <3>2. mod.filedata \in {Null, FileData} /\ Instance \in {Null, Instance}
      BY <1>1 DEF IsModule
    <3>3. LET q == WithPtrs(mod, mod.filedata, Instance) IN
           /\ IsModule(q) /\ q.secs = mod.secs /\ q.vec = mod.vec /\ q.imp = mod.imp
           /\ q.code = mod.code /\ q.filedata = mod.filedata /\ q.instance = Instance
      BY <1>1, <3>2, PtrsSet
    <3> QED  BY <3>1, <3>3
  <2>5. /\ pc' \in GoneStates \cup {"resolve", "compiled"}
        /\ compiled' \in {"none", "ok", "err"} /\ InstanceTyped'
    <3>1. CASE v # "resolve"
      <4>1. CompileLost(v) /\ v \in GoneStates
        BY <1>5, <3>1, ValidatedKnown
      <4>2. pc' \notin {"resolve", "exports"} /\ UNCHANGED <<turn, funcs, compiled>>
        BY <4>1 DEF CompileLost, GoneStates, LostStates
      <4> QED  BY <1>1, <1>2, <4>1, <4>2 DEF CompileLost
    <3>2. CASE v = "resolve" /\ a = Null
      <4>1. CompileErr
        BY <1>5, <3>2
      <4> QED  BY <1>2, <4>1 DEF CompileErr
    <3>3. CASE v = "resolve" /\ a # Null
      <4>1. pc' = "resolve" /\ turn' = 1 /\ UNCHANGED <<funcs, compiled>>
        BY <1>5, <3>3
      <4> QED  BY <1>1, <4>1 DEF InstanceTyped
    <3> QED  BY <3>1, <3>2, <3>3
  <2> QED  BY <2>3, <2>4, <2>5 DEF Compiles
<1> QED  BY <1>3, <1>4, <1>5 DEF CompileBegins

LEMMA ImportFound ==
    ASSUME Typed, ResolveImport
    PROVE  Compiles
<1>1. /\ HeapTyped /\ fails \in Nat /\ InstanceTyped /\ compiled \in {"none", "ok", "err"}
      /\ IsModule(mod) /\ RegistryInv
  BY TypedParts DEF Typed, HeapTyped
<1>2. pc' \notin {"resolve", "exports"} /\ UNCHANGED <<turn, funcs>> => InstanceTyped'
  BY <1>1 DEF InstanceTyped
<1>3. /\ pc = "resolve" /\ UNCHANGED <<live, fails, mod>>
  BY DEF ResolveImport
<1>4. HeapTyped' /\ fails' \in Nat /\ IsModule(mod')
  BY <1>1, <1>3 DEF HeapTyped, IsModule
<1> DEFINE e == ImportedFuncs.elt[turn]
           trouble == ArrayTrouble(ImportedFuncs, turn)
           new == HostFunc(Found(e.mtext, e.ntext), TypeAt(e.typeidx))
<1>5. \/ CompileErr
      \/ \E how \in LostStates : CompileLost(how)
      \/ /\ trouble = "" /\ funcs' = Append(funcs, new) /\ turn' = turn + 1
         /\ UNCHANGED <<pc, compiled>>
  <2>1. trouble # "" => trouble \in LostStates
    BY ArrayLost
  <2>2. CASE trouble # ""
    BY <2>1, <2>2 DEF ResolveImport
  <2>3. CASE trouble = ""
    <3>1. "crash" \in LostStates
      BY DEF LostStates
    <3> QED  BY <2>3, <3>1 DEF ResolveImport
  <2> QED  BY <2>2, <2>3
<1>6. CASE CompileErr
  BY <1>2, <1>3, <1>4, <1>6 DEF CompileErr, Compiles
<1>7. CASE \E how \in LostStates : CompileLost(how)
  <2>1. /\ pc' \in LostStates /\ UNCHANGED <<funcs, turn, compiled>>
    BY <1>7 DEF CompileLost
  <2>2. pc' \notin {"resolve", "exports"}
    BY <2>1 DEF LostStates
  <2> QED  BY <1>1, <1>2, <1>3, <1>4, <2>1, <2>2 DEF Compiles, GoneStates
<1>8. CASE /\ trouble = "" /\ funcs' = Append(funcs, new) /\ turn' = turn + 1
           /\ UNCHANGED <<pc, compiled>>
  <2>1. turn \in Nat /\ turn # 0 /\ funcs \in Seq(IndexRecs)
    BY <1>1, <1>3 DEF InstanceTyped
  <2>2. /\ ImportedFuncs.elt \in Seq(ImportRecs) /\ Len(ImportedFuncs.elt) \in Nat
    <3>1. mod.imp[FuncKind] \in ImpRecs
      BY <1>1 DEF IsModule, Kinds, FuncKind
    <3> QED  BY <3>1, LenProperties DEF ImpRecs, ImportedFuncs
  <2>3. turn <= Len(ImportedFuncs.elt)
    <3>1. ~(turn > Len(ImportedFuncs.elt))
      BY <1>8, <2>1 DEF ArrayTrouble
    <3> QED  BY <2>1, <2>2, <3>1
  <2>4. e \in ImportRecs
    <3>1. turn \in 1..Len(ImportedFuncs.elt)
      BY <2>1, <2>2, <2>3
    <3> QED  BY <2>2, <3>1, ElementOfSeq
  <2>5. new \in IndexRecs
    <3>1. TypeAt(e.typeidx) \in Ptrs
      BY <1>1, <2>4, TypeAtTyped DEF ImportRecs
    <3>2. Found(e.mtext, e.ntext) \in Hosts \cup {NoHost}
      BY <1>1, FoundTyped
    <3> QED  BY <3>1, <3>2 DEF HostFunc, IndexRecs
  <2> HIDE DEF new
  <2>6. funcs' \in Seq(IndexRecs)
    BY <1>8, <2>1, <2>5, AppendProperties
  <2>7. turn' \in Nat /\ turn' # 0
    <3>1. turn' = turn + 1 /\ turn \in Nat
      BY <1>8, <2>1
    <3> QED  BY <3>1
  <2>8. InstanceTyped'
    BY <2>6, <2>7 DEF InstanceTyped
  <2> QED  BY <1>1, <1>3, <1>4, <1>8, <2>8 DEF Compiles
<1> QED  BY <1>5, <1>6, <1>7, <1>8

\* The index of an export is written.
Bound(m, i, x) == [m EXCEPT !.vec[Export].elt[i].func = x]

LEMMA ExportBound ==
    ASSUME NEW m, IsModule(m), NEW i, NEW x, i \in 1..Len(m.vec[Export].elt) => x \in Nat
    PROVE  LET q == Bound(m, i, x) IN
           /\ IsModule(q) /\ q.secs = m.secs /\ q.code = m.code
           /\ q.filedata = m.filedata /\ q.instance = m.instance /\ q.imp = m.imp
           /\ \A j \in Vectors \ {Export} : q.vec[j] = m.vec[j]
           /\ q.vec[Export].cnt = m.vec[Export].cnt /\ q.vec[Export].arr = m.vec[Export].arr
           /\ Len(q.vec[Export].elt) = Len(m.vec[Export].elt)
           /\ \A j \in 1..Len(m.vec[Export].elt) :
                 /\ q.vec[Export].elt[j].own = m.vec[Export].elt[j].own
                 /\ q.vec[Export].elt[j].func
                      = IF j = i THEN x ELSE m.vec[Export].elt[j].func
<1> DEFINE old == m.vec[Export].elt
           e == [old[i] EXCEPT !.func = x]
           new == [old EXCEPT ![i] = e]
           r == [m.vec[Export] EXCEPT !.elt = new]
           q == WithVector(m, Export, r)
<1>1. Export \in Vectors /\ m.vec[Export] \in VecRecs(Export)
  BY DEF IsModule, Vectors
<1>2. old \in Seq(EntryRecs) /\ Len(old) \in Nat /\ DOMAIN old = 1..Len(old)
  BY <1>1, LenProperties DEF VecRecs, Export, Function
<1>3. /\ new \in Seq(EntryRecs) /\ Len(new) = Len(old)
      /\ \A j \in 1..Len(old) : /\ new[j].own = old[j].own
                              /\ new[j].func = IF j = i THEN x ELSE old[j].func
  <2>1. CASE i \in 1..Len(old)
    <3>1. old[i] \in EntryRecs
      BY <1>2, <2>1, ElementOfSeq
    <3>2. e \in EntryRecs /\ e.own = old[i].own /\ e.func = x
      BY <2>1, <3>1 DEF EntryRecs
    <3> HIDE DEF e, old
    <3> QED  BY <1>2, <2>1, <3>2, ExceptSeq
  <2>2. CASE i \notin 1..Len(old)
    <3>1. old = [j \in 1..Len(old) |-> old[j]]
      BY <1>2, LenProperties
    <3>2. new = old
      <4> HIDE DEF e, old
      <4> QED  BY <1>2, <2>2, <3>1
    <3> QED  BY <1>2, <2>2, <3>2
  <2> QED  BY <2>1, <2>2
<1> HIDE DEF new
<1>4. r \in VecRecs(Export) /\ r.cnt = m.vec[Export].cnt /\ r.arr = m.vec[Export].arr
      /\ r.elt = new
  BY <1>1, <1>3 DEF VecRecs, Export, Function
<1>5. Bound(m, i, x) = q
  BY DEF new, WithVector, Bound
<1> HIDE DEF r
<1>6. /\ IsModule(q) /\ q.secs = m.secs
      /\ q.imp = m.imp /\ q.code = m.code
      /\ q.filedata = m.filedata /\ q.instance = m.instance
      /\ q.vec[Export] = r /\ \A j \in Vectors \ {Export} : q.vec[j] = m.vec[j]
  BY <1>1, <1>4, VectorSet
<1> HIDE DEF q
<1> QED  BY <1>3, <1>4, <1>5, <1>6

LEMMA CompileSteps ==
    ASSUME Typed, CompileNext
    PROVE  Compiles
<1>1. /\ HeapTyped /\ fails \in Nat /\ InstanceTyped /\ compiled \in {"none", "ok", "err"}
      /\ IsModule(mod)
  BY TypedParts DEF Typed, HeapTyped
<1>2. pc' \notin {"resolve", "exports"} /\ UNCHANGED <<turn, funcs>> => InstanceTyped'
  BY <1>1 DEF InstanceTyped
<1>3. CASE TableOwn
  <2> DEFINE own == [j \in 1..OwnFuncs.cnt |-> OwnAddress(j)]
  <2>1. /\ pc' = "exports" /\ turn' = 1 /\ funcs' = funcs \o own
        /\ UNCHANGED <<live, fails, mod, compiled>>
    BY <1>3 DEF TableOwn, loaderVars, ImportsFirst
  <2>2. OwnFuncs.cnt \in Nat
    <3>1. mod.vec[Function] \in VecRecs(Function)
      BY <1>1 DEF IsModule, Vectors
    <3> QED  BY <3>1 DEF VecRecs, OwnFuncs
  <2>3. \A j \in 1..OwnFuncs.cnt : OwnAddress(j) \in IndexRecs
    <3> SUFFICES ASSUME NEW j \in 1..OwnFuncs.cnt PROVE OwnAddress(j) \in IndexRecs
      OBVIOUS
    <3>1. Null \in Ptrs /\ Wild \in Ptrs /\ j \in Nat
      BY <2>2 DEF Null, Wild, Obj, Ptrs, PtrKinds
    <3>2. OwnFunc(j) \in IndexRecs /\ StrayFunc \in IndexRecs
      BY <3>1 DEF OwnFunc, StrayFunc, IndexRecs
    <3> QED  BY <3>2 DEF OwnAddress
  <2>4. own \in Seq(IndexRecs)
    BY <2>2, <2>3, IsASeq
  <2> HIDE DEF own
  <2>5. funcs' \in Seq(IndexRecs)
    BY <1>1, <2>1, <2>4, ConcatProperties DEF InstanceTyped
  <2>6. HeapTyped' /\ fails' \in Nat /\ IsModule(mod') /\ InstanceTyped'
    BY <1>1, <2>1, <2>5 DEF HeapTyped, IsModule, InstanceTyped
  <2> QED  BY <1>1, <2>1, <2>6 DEF Compiles
<1>4. CASE BindExport
  <2>1. PICK idx \in IndexOf(Exports.elt[turn]) :
          IF ~InIndexSpace(idx)
          THEN CompileErr /\ UNCHANGED mod
          ELSE /\ mod' = [mod EXCEPT !.vec[Export].elt[turn].func = idx + 1]
               /\ turn' = turn + 1
               /\ UNCHANGED <<pc, funcs, compiled>>
    BY <1>4 DEF BindExport
  <2>2. pc = "exports" /\ UNCHANGED <<live, fails>>
    BY <1>4 DEF BindExport
  <2>3. HeapTyped' /\ fails' \in Nat
    BY <1>1, <2>2 DEF HeapTyped
  <2>4. CASE ~InIndexSpace(idx)
    <3>1. CompileErr /\ UNCHANGED mod
      BY <2>1, <2>4
    <3>2. IsModule(mod')
      BY <1>1, <3>1 DEF IsModule
    <3> QED  BY <1>2, <2>3, <3>1, <3>2 DEF CompileErr, Compiles
  <2>5. CASE InIndexSpace(idx)
    <3>1. /\ mod' = Bound(mod, turn, idx + 1) /\ turn' = turn + 1
          /\ UNCHANGED <<pc, funcs, compiled>>
      BY <2>1, <2>5 DEF Bound
    <3>2. turn \in 1..Len(mod.vec[Export].elt) => idx + 1 \in Nat
      <4> SUFFICES ASSUME turn \in 1..Len(mod.vec[Export].elt) PROVE idx + 1 \in Nat
        OBVIOUS
      <4>1. mod.vec[Export] \in VecRecs(Export)
        BY <1>1 DEF IsModule, Vectors
      <4>2. mod.vec[Export].elt \in Seq(EntryRecs)
        BY <4>1 DEF VecRecs, Export, Function
      <4>3. Exports.elt[turn] \in EntryRecs
        BY <4>2, ElementOfSeq DEF Exports
      <4>4. Exports.elt[turn].idx \in Nat \cup {-1}
        BY <4>3 DEF EntryRecs
      <4>5. Len(funcs) \in Nat
        BY <1>1, LenProperties DEF InstanceTyped
      <4>6. idx \in Nat
        BY <4>4, <4>5 DEF IndexOf
      <4> QED  BY <4>6
    <3>3. LET q == Bound(mod, turn, idx + 1) IN
           IsModule(q) /\ q.secs = mod.secs /\ q.code = mod.code
      BY <1>1, <3>2, ExportBound
    <3>4. IsModule(mod') /\ mod'.secs = mod.secs /\ mod'.code = mod.code
      BY <3>1, <3>3
    <3>5. InstanceTyped'
      BY <1>1, <3>1 DEF InstanceTyped
    <3> QED  BY <1>1, <2>2, <2>3, <3>1, <3>4, <3>5 DEF Compiles
  <2> QED  BY <2>4, <2>5
<1>5. CASE CompileEnds
  <2>1. /\ pc' = "compiled" /\ compiled' = "ok"
        /\ UNCHANGED <<live, fails, mod, turn, funcs>>
    BY <1>5 DEF CompileEnds, loaderVars
  <2>2. HeapTyped' /\ fails' \in Nat /\ IsModule(mod')
    BY <1>1, <2>1 DEF HeapTyped, IsModule
  <2> QED  BY <1>2, <2>1, <2>2 DEF Compiles
<1> QED  BY <1>3, <1>4, <1>5, InstanceNew, ImportFound DEF CompileNext

\* What a run allocates: its context, and the arguments of a host function.
RunObjs == Range(ContextObjs) \cup Range(HostObjs)

LEMMA RunObjsKnown ==
    /\ RunObjs = {Obj("context", 0, 0), Obj("stack", 0, 0), Obj("args", 0, 0), Obj("rets", 0, 0)}
    /\ ContextObjs \in Seq(RunObjs) /\ Len(ContextObjs) = 2
    /\ \A i \in 1..2 : HostObjs[i] \in RunObjs
    /\ Null \notin RunObjs /\ Wild \notin RunObjs
<1> DEFINE a == Obj("context", 0, 0)
           b == Obj("stack", 0, 0)
           c == Obj("args", 0, 0)
           d == Obj("rets", 0, 0)
<1>1. {Null, Wild} \cap {a, b, c, d} = {}
  <2>1. {"context", "stack", "args", "rets"} \cap {"NULL", "wild"} = {}
    OBVIOUS
  <2>2. \A o \in {a, b, c, d} : o # Null /\ o # Wild
    BY <2>1, NamesGiven
  <2> QED  BY <2>2
<1>2. ContextObjs = <<a, b>> /\ HostObjs = <<c, d>>
  BY DEF ContextObjs, HostObjs
<1> HIDE DEF a, b, c, d
<1>3. Range(<<a, b>>) = {a, b} /\ Range(<<c, d>>) = {c, d}
  BY DEF Range
<1>4. RunObjs = {a, b, c, d}
  BY <1>2, <1>3 DEF RunObjs
<1>5. <<a, b>> \in Seq({a, b, c, d}) /\ Len(<<a, b>>) = 2
  OBVIOUS
<1>6. \A i \in 1..2 : HostObjs[i] \in {c, d}
  BY <1>2
<1> QED  BY <1>1, <1>2, <1>4, <1>5, <1>6 DEF a, b, c, d

LEMMA RunGrows ==
    ASSUME HeapTyped, NEW ptrs \in Seq(RunObjs \cup {Null}), Mallocs(ptrs)
    PROVE  /\ HeapTyped' /\ fails' <= fails
           /\ live \subseteq live' /\ live' \subseteq live \cup RunObjs
           /\ fails' = fails => \A i \in 1..Len(ptrs) : ptrs[i] # Null
<1>1. Len(ptrs) \in Nat /\ DOMAIN ptrs = 1..Len(ptrs)
  BY LenProperties
<1>2. IsFiniteSet(DOMAIN ptrs)
  BY <1>1, UpTo
<1>3. Range(ptrs) \subseteq RunObjs \cup {Null}
  BY <1>1, ElementOfSeq DEF Range
<1>4. /\ fails' \in Nat /\ fails' <= fails
      /\ live' = live \cup (Range(ptrs) \ {Null})
      /\ fails' = fails => Null \notin Range(ptrs)
  BY <1>2, Mallocing DEF HeapTyped
<1>5. HeapTyped'
  BY <1>3, <1>4, RunObjsKnown DEF HeapTyped
<1> QED  BY <1>1, <1>3, <1>4, <1>5 DEF Range

(* However a function runs, what it allocates and does not give back is    *)
(* its own.  With no allocation failed it is lost only if it is not        *)
(* harmless.                                                               *)
LEMMA RunHeap ==
    ASSUME HeapTyped, NEW k, RunFunc(k)
    PROVE  /\ HeapTyped' /\ fails' <= fails
           /\ live \subseteq live' /\ live' \subseteq live \cup RunObjs
           /\ ran' = k
           /\ pc' \in LostStates \cup {"succeeded", "failed", "exit", "hung"}
           /\ fails' = fails /\ Harmless(k) => pc' \in {"succeeded", "failed"}
<1> DEFINE Grown == /\ HeapTyped' /\ fails' <= fails
                    /\ live \subseteq live' /\ live' \subseteq live \cup RunObjs
           Anyhow == pc' \in LostStates \cup {"succeeded", "failed", "exit", "hung"}
           Quietly == fails' = fails /\ Harmless(k) => pc' \in {"succeeded", "failed"}
<1>1. fails \in Nat /\ ran' = k
  BY DEF HeapTyped, RunFunc
<1>2. ContextObjs \in Seq(RunObjs \cup {Null}) /\ Len(ContextObjs) = 2
  <2>1. RunObjs \subseteq RunObjs \cup {Null}
    OBVIOUS
  <2> QED  BY <2>1, RunObjsKnown
<1>3. ASSUME Mallocs(ContextObjs)
      PROVE  Grown
  BY <1>2, <1>3, RunGrows
<1>4. ASSUME Mallocs(ContextObjs \o <<Null>>)
      PROVE  Grown /\ fails' # fails
  <2>1. <<Null>> \in Seq(RunObjs \cup {Null}) /\ Len(<<Null>>) = 1 /\ <<Null>>[1] = Null
    OBVIOUS
  <2> DEFINE ptrs == ContextObjs \o <<Null>>
  <2>2. ptrs \in Seq(RunObjs \cup {Null}) /\ Len(ptrs) = 3 /\ ptrs[3] = Null
    BY <1>2, <2>1, ConcatProperties
  <2>3. Mallocs(ptrs)
    BY <1>4
  <2> HIDE DEF ptrs
  <2> QED  BY <2>2, <2>3, RunGrows
<1>5. ASSUME NEW n \in 1..2, Mallocs(ContextObjs \o SubSeq(HostObjs, 1, n))
      PROVE  Grown
  <2>1. SubSeq(HostObjs, 1, n) \in Seq(RunObjs \cup {Null})
    <3>1. \A i \in 1..n : HostObjs[i] \in RunObjs \cup {Null}
      BY RunObjsKnown
    <3> QED  BY <3>1, SubSeqProperties
  <2> DEFINE ptrs == ContextObjs \o SubSeq(HostObjs, 1, n)
  <2>2. ptrs \in Seq(RunObjs \cup {Null}) /\ Mallocs(ptrs)
    BY <1>2, <1>5, <2>1, ConcatProperties
  <2> HIDE DEF ptrs
  <2> QED  BY <2>2, RunGrows
<1>6. CASE UNCHANGED live /\ (fails' = fails \/ (fails > 0 /\ fails' = fails - 1)) /\ pc' = "failed"
  <2>1. fails' \in Nat /\ fails' <= fails
    BY <1>1, <1>6
  <2> QED  BY <1>1, <1>6, <2>1 DEF HeapTyped
<1>7. CASE funcs[k].own = 0 /\ RunHost
  <2>1. pc' \in {"succeeded", "failed"}
    BY <1>7 DEF RunHost
  <2>2. Grown
    BY <1>3, <1>4, <1>5, <1>7 DEF RunHost
  <2> QED  BY <1>1, <2>1, <2>2
<1>8. CASE funcs[k].own # 0 /\ RunOwn(k)
  <2>1. Grown /\ Anyhow
    BY <1>3, <1>4, <1>8 DEF RunOwn, OwnOutcomes
  <2>2. Quietly
    <3> SUFFICES ASSUME fails' = fails, Harmless(k) PROVE pc' \in {"succeeded", "failed"}
      OBVIOUS
    <3>1. Quiet(k)
      BY <1>8 DEF Harmless
    <3>2. pc' \in {"succeeded"}
      BY <1>4, <1>8, <3>1 DEF RunOwn
    <3> QED  BY <3>2
  <2> QED  BY <1>1, <2>1, <2>2
<1> QED  BY <1>6, <1>7, <1>8 DEF RunFunc

LEMMA RunSteps ==
    ASSUME Typed, Run(Main)
    PROVE  /\ HeapTyped' /\ fails' \in Nat
           /\ pc' \in LostStates \cup {"succeeded", "failed", "exit", "hung"}
           /\ UNCHANGED <<loaderVars, importsVars, funcs, turn, compiled>>
<1>1. HeapTyped /\ fails \in Nat
  BY TypedParts DEF Typed, HeapTyped
<1>2. UNCHANGED <<loaderVars, importsVars, funcs, turn, compiled>>
  BY DEF Run
<1>4. ASSUME NEW k, RunFunc(k)
      PROVE  /\ HeapTyped' /\ fails' \in Nat
             /\ pc' \in LostStates \cup {"succeeded", "failed", "exit", "hung"}
  BY <1>1, <1>4, RunHeap DEF HeapTyped
<1>5. CASE UNCHANGED <<live, fails>> /\ pc' \in LostStates \cup {"failed"}
  BY <1>1, <1>2, <1>5 DEF HeapTyped
<1>6. CASE \E k : RunFunc(k)
  BY <1>2, <1>4, <1>6
<1>7. ASSUME NEW ptr, pc' = Reads(ptr), ptr \notin live \/ Reads(ptr) # ""
      PROVE  pc' \in LostStates
  <2>1. Reads(ptr) # ""
    BY <1>7 DEF Reads
  <2> QED  BY <1>7, <2>1, ReadsLost
<1>8. \/ UNCHANGED <<live, fails>> /\ pc' \in LostStates \cup {"failed"}
      \/ \E k : RunFunc(k)
  <2>1. CASE Stops(Main) = {}
    BY <2>1 DEF Run
  <2>2. CASE Stops(Main) # {}
    <3> DEFINE e == Exports.elt[ExportStop(Main)]
    <3>1. IF e.own \notin live
          THEN pc' = Reads(e.own) /\ UNCHANGED <<live, fails, ran>>
          ELSE IF Reads(FuncTypeOf(funcs[e.func])) # ""
          THEN /\ pc' = Reads(FuncTypeOf(funcs[e.func]))
               /\ UNCHANGED <<live, fails, ran>>
          ELSE RunFunc(e.func)
      BY <2>2 DEF Run
    <3> HIDE DEF e
    <3> QED  BY <1>7, <3>1
  <2> QED  BY <2>1, <2>2
<1> QED  BY <1>5, <1>6, <1>8

LEMMA InstanceKeepsTypes ==
    ASSUME Typed, RegistryInv', InstanceStep
    PROVE  SessionTyped'
<1>1. /\ InstanceTyped /\ compiled \in {"none", "ok", "err"}
      /\ IsModule(mod) /\ LoopTyped /\ back \in {"none", "close", "done"}
  BY TypedParts DEF Typed
<1>2. UNCHANGED given
  BY DEF InstanceStep
<1>3. CASE CompileNext
  <2>1. Compiles
    BY <1>3, CompileSteps
  <2>2. UNCHANGED <<cells, short, fpos, nxt, probe, at, item, todo, back, parsed>>
    BY <1>3 DEF CompileNext, CompileBegins, ResolveImport, TableOwn, BindExport,
                CompileEnds, LoaderRests, loaderVars
  <2>3. LoopTyped'
    BY <1>1, <2>2 DEF LoopTyped
  <2>4. /\ pc' \in States \ {"open", "header", "sections", "parse"} /\ pc' # "free"
        /\ HeapTyped' /\ compiled' \in {"none", "ok", "err"} /\ InstanceTyped'
        /\ IsModule(mod') /\ mod'.secs = mod.secs /\ mod'.code = mod.code
    BY <2>1 DEF Compiles, States, GoneStates, LostStates
  <2> QED  BY <1>1, <1>2, <2>2, <2>3, <2>4, OutsideParse
<1>4. CASE Run(Main)
  <2>1. /\ HeapTyped' /\ pc' \in LostStates \cup {"succeeded", "failed", "exit", "hung"}
        /\ UNCHANGED <<loaderVars, funcs, turn, compiled>>
    BY <1>4, RunSteps
  <2>2. InstanceTyped' /\ pc' \in States \ {"open", "header", "sections", "parse", "free"}
    BY <1>1, <2>1 DEF InstanceTyped, States, LostStates
  <2> QED  BY <1>1, <1>2, <2>1, <2>2, LoaderStays
<1> QED  BY <1>3, <1>4 DEF InstanceStep

\* What the driver registers is an object, and no memory nobody has written.
LEMMA EntryObjsTyped ==
    ASSUME NEW i
    PROVE  /\ EntryObjs(i)[1] # Wild
           /\ \A o \in Answer(EntryObjs(i)[2]) \cup Answer(EntryObjs(i)[3]) : o # Wild
<1>1. {"host", "hostmname", "hostnsname"} \cap {"NULL", "wild"} = {}
  OBVIOUS
<1>2. /\ EntryObjs(i)[1] = Obj("host", i, 0) /\ EntryObjs(i)[2] = Obj("hostmname", i, 0)
      /\ EntryObjs(i)[3] = Obj("hostnsname", i, 0)
  BY DEF EntryObjs
<1> QED  BY <1>1, <1>2, NamesGiven

LEMMA RegisterHeap ==
    ASSUME Typed, RegisterNext
    PROVE  /\ HeapTyped' /\ pc' \in {"register", "crash"}
           /\ UNCHANGED <<loaderVars, instanceVars, given>>
<1>1. HeapTyped /\ fails \in Nat /\ pc = "register"
  BY TypedParts DEF Typed, HeapTyped, RegisterNext
<1>2. UNCHANGED <<loaderVars, instanceVars, given>>
  BY DEF RegisterNext
<1>3. pc' \in {pc, "crash"}
        /\ \/ Mallocs(<<Null>>)
           \/ \E m \in Answer(EntryObjs(reg)[2]), n \in Answer(EntryObjs(reg)[3]) :
                 Mallocs(<<EntryObjs(reg)[1], m, n>>)
  <2>1. CASE AddGlobal(reg, given.regs[reg])
    BY <2>1 DEF AddGlobal
  <2>2. CASE AddFunc(reg, given.regs[reg])
    BY <2>2 DEF AddFunc
  <2> QED  BY <2>1, <2>2 DEF RegisterNext
<1>4. CASE Mallocs(<<Null>>)
  <2>1. HeapGrew({Null}) /\ Wild \notin {Null}
    BY <1>1, <1>4, OneMalloc DEF HeapGrew, Null, Wild, Obj
  <2> QED  BY <1>1, <1>2, <1>3, <2>1, HeapStaysTyped
<1>5. ASSUME NEW m \in Answer(EntryObjs(reg)[2]), NEW n \in Answer(EntryObjs(reg)[3]),
             Mallocs(<<EntryObjs(reg)[1], m, n>>)
      PROVE  HeapTyped'
  <2> DEFINE o == EntryObjs(reg)[1]
  <2>1. Wild \notin {o, m, n} /\ Mallocs(<<o, m, n>>)
    BY <1>5, EntryObjsTyped
  <2> HIDE DEF o
  <2>2. HeapGrew({o, m, n})
    BY <1>1, <2>1, ThreeMallocs DEF HeapGrew
  <2> QED  BY <1>1, <2>1, <2>2, HeapStaysTyped
<1> QED  BY <1>1, <1>2, <1>3, <1>4, <1>5

LEMMA DriverKeepsTypes ==
    ASSUME Typed, RegistryInv',
           LoadedNothing \/ LoadedModule \/ RegisterNext \/ RegisteredAll
             \/ Compiled \/ GivesUp \/ Succeeds
    PROVE  SessionTyped'
<1>1. /\ HeapTyped /\ fails \in Nat /\ InstanceTyped /\ compiled \in {"none", "ok", "err"}
      /\ IsModule(mod) /\ LoopTyped
  BY TypedParts DEF Typed, HeapTyped
<1>2. CASE LoadedNothing \/ RegisteredAll \/ Compiled
  <2>1. /\ UNCHANGED <<live, fails, loaderVars, instanceVars, given>>
        /\ pc' \in {"crash", "compile", "run"}
    BY <1>2 DEF LoadedNothing, RegisteredAll, Compiled
  <2>2. HeapTyped' /\ compiled' \in {"none", "ok", "err"} /\ InstanceTyped'
    BY <1>1, <2>1 DEF HeapTyped, InstanceTyped, instanceVars
  <2> QED  BY <2>1, <2>2, LoaderStays DEF States, LostStates
<1>3. CASE LoadedModule
  <2>1. PICK w \in Answer(Wrap) : Mallocs(<<w>>) /\ pc' \in {"crash", "register"}
    BY <1>3 DEF LoadedModule, NewWrap
  <2>2. UNCHANGED <<loaderVars, instanceVars, given>>
    BY <1>3 DEF LoadedModule
  <2>3. w # Wild
    <3>1. "imports" \notin {"NULL", "wild"}
      OBVIOUS
    <3> QED  BY <2>1, <3>1, NamesGiven DEF Wrap
  <2>4. HeapTyped'
    <3>1. HeapGrew({w}) /\ Wild \notin {w}
      BY <1>1, <2>1, <2>3, OneMalloc DEF HeapGrew
    <3> QED  BY <1>1, <3>1, HeapStaysTyped
  <2>5. compiled' \in {"none", "ok", "err"} /\ InstanceTyped'
    BY <1>1, <2>1, <2>2 DEF InstanceTyped, instanceVars
  <2> QED  BY <2>1, <2>2, <2>4, <2>5, LoaderStays DEF States, LostStates
<1>4. CASE RegisterNext
  <2>1. /\ HeapTyped' /\ pc' \in {"register", "crash"}
        /\ UNCHANGED <<loaderVars, instanceVars, given>>
    BY <1>4, RegisterHeap
  <2>2. compiled' \in {"none", "ok", "err"} /\ InstanceTyped'
    BY <1>1, <2>1 DEF InstanceTyped, instanceVars
  <2> QED  BY <2>1, <2>2, LoaderStays DEF States, LostStates
<1>5. CASE GivesUp
  <2>1. /\ UNCHANGED <<live, fails, cells, short, fpos, mod, nxt, probe, parsed,
                       instanceVars, given>>
        /\ pc' = "free" /\ at' = 1 /\ item' = 0 /\ todo' = 0 /\ back' = "done"
    BY <1>5 DEF GivesUp
  <2>2. HeapTyped' /\ compiled' \in {"none", "ok", "err"} /\ InstanceTyped' /\ LoopTyped'
        /\ IsModule(mod')
    BY <1>1, <2>1 DEF HeapTyped, InstanceTyped, instanceVars, LoopTyped, IsModule
  <2> QED  BY <2>1, <2>2, OutsideParse DEF States
<1>6. CASE Succeeds
  <2>1. /\ UNCHANGED <<fails, loaderVars, instanceVars, given>> /\ pc' = "done"
        /\ live' \subseteq live
    BY <1>6 DEF Succeeds, FreeWrap
  <2>2. HeapTyped' /\ compiled' \in {"none", "ok", "err"} /\ InstanceTyped'
    BY <1>1, <2>1, HeapShrinks DEF InstanceTyped, instanceVars
  <2> QED  BY <2>1, <2>2, LoaderStays DEF States
<1> QED  BY <1>2, <1>3, <1>4, <1>5, <1>6

-----------------------------------------------------------------------------
(***************************************************************************)
(* Type correctness                                                        *)
(***************************************************************************)
LEMMA EmptyModule ==
    /\ IsModule(Zeroed) /\ Zeroed.secs = << >> /\ Len(Zeroed.secs) = 0 /\ Zeroed.code = 0
    /\ Zeroed.filedata = Null /\ Zeroed.instance = Null
    /\ Zeroed.vec = [k \in Vectors |-> Empty] /\ Zeroed.imp = [k \in Kinds |-> Empty]
<1> DEFINE v == [k \in Vectors |-> Empty]
           i == [k \in Kinds |-> Empty]
<1>1. /\ Zeroed.secs = << >> /\ Zeroed.code = 0 /\ Zeroed.start = 0
      /\ Zeroed.filedata = Null /\ Zeroed.instance = Null
      /\ Zeroed.vec = v /\ Zeroed.imp = i
  BY DEF Zeroed
<1>2. Zeroed = [filedata |-> Zeroed.filedata, secs |-> Zeroed.secs, code |-> Zeroed.code,
                start |-> Zeroed.start, vec |-> Zeroed.vec, imp |-> Zeroed.imp,
                instance |-> Zeroed.instance]
  BY <1>1 DEF Zeroed
<1>3. << >> \in Seq(SectionRecs) /\ Len(<< >>) = 0
  BY EmptySeq
<1>4. Null \in Ptrs
  BY DEF Null, Obj, Ptrs, PtrKinds
<1>5. Empty \in ImpRecs /\ \A k \in Vectors : Empty \in VecRecs(k)
  <2>1. << >> \in Seq(ImportRecs) /\ << >> \in Seq(FuncRecs) /\ << >> \in Seq(EntryRecs)
    BY EmptySeq
  <2> QED  BY <1>4, <2>1 DEF Empty, ImpRecs, VecRecs
<1> HIDE DEF v, i
<1>6. v = [k \in Vectors |-> v[k]] /\ (\A k \in Vectors : v[k] \in VecRecs(k))
      /\ i \in [Kinds -> ImpRecs]
  BY <1>5 DEF v, i
<1>7. IsModule(Zeroed)
  BY <1>1, <1>2, <1>3, <1>6 DEF IsModule
<1> QED  BY <1>1, <1>3, <1>7 DEF v, i

\* A number that is not read to its end ends all else.
LEMMA NumberLost ==
    ASSUME NumberUnended
    PROVE  /\ pc' \in {"hung", "overread"} /\ pc \in {"sections", "parse"}
           /\ UNCHANGED <<live, fails, loaderVars>>
<1>1. PICK p \in NumbersAhead : pc' = Unending(p)
  BY DEF NumberUnended
<1>2. pc \in {"sections", "parse"}
  BY <1>1 DEF NumbersAhead
<1> QED  BY <1>1, <1>2, UnendingGone DEF NumberUnended

LEMMA UnendedKeepsTypes ==
    ASSUME Typed, RegistryInv', NumberUnended, UNCHANGED <<given, instanceVars>>
    PROVE  SessionTyped'
<1>1. /\ HeapTyped /\ InstanceTyped /\ compiled \in {"none", "ok", "err"}
      /\ pc' \in {"hung", "overread"} /\ UNCHANGED <<live, fails, loaderVars>>
  BY TypedParts, NumberLost DEF Typed
<1>2. HeapTyped' /\ compiled' \in {"none", "ok", "err"} /\ InstanceTyped'
  BY <1>1 DEF HeapTyped, InstanceTyped, instanceVars
<1> QED  BY <1>1, <1>2, LoaderStays DEF States

LEMMA InitTyped == Init => Typed
<1> SUFFICES ASSUME Init PROVE Typed
  OBVIOUS
<1>1. RegistryInv /\ given \in Cases
  BY InitRegistry DEF RegistryInv
<1>2. /\ cells = given.cells /\ short = given.short /\ fails = given.fails
      /\ pc = "open" /\ live = {}
      /\ fpos = 1 /\ mod = Zeroed /\ at = 0 /\ item = 0 /\ todo = 0
      /\ nxt = [k \in Kinds |-> 0] /\ probe = 0 /\ back = "none" /\ parsed = "none"
      /\ funcs = << >> /\ turn = 0 /\ compiled = "none"
  BY DEF Init, LoaderInit, InstanceInit
<1>3. IsModule(mod) /\ mod.secs = << >> /\ mod.code <= Len(mod.secs)
  BY <1>2, EmptyModule
<1>4. HeapTyped
  BY <1>1, <1>2, CasesAssumption DEF HeapTyped
<1>5. SectionsInside /\ LoopInside /\ LoopTyped
  BY <1>2, <1>3 DEF SectionsInside, LoopInside, LoopTyped
<1>6. InstanceTyped
  <2>1. << >> \in Seq(IndexRecs)
    BY EmptySeq
  <2> QED  BY <1>2, <2>1 DEF InstanceTyped
<1>7. nxt \in [Kinds -> Nat] /\ pc \in States /\ fpos \in Nat \ {0}
  BY <1>2 DEF States
<1>8. SessionTyped
  BY <1>1, <1>2, <1>3, <1>4, <1>5, <1>6, <1>7, TypedParts
<1> QED  BY <1>1, <1>8 DEF Typed

LEMMA StepTyped == Typed /\ [Next]_vars => Typed'
<1> SUFFICES ASSUME Typed, [Next]_vars PROVE Typed'
  OBVIOUS
<1>1. RegistryInv'
  BY StepRegistry DEF Typed
<1>2. CASE LoaderStep
  <2>1. UNCHANGED <<given, instanceVars>> /\ LoaderNext
    BY <1>2 DEF LoaderStep
  <2>2. CASE LoadFile
    BY <1>1, <2>1, <2>2, ReadKeepsTypes, CutKeepsTypes, CloseKeepsTypes DEF LoadFile, Typed
  <2>3. CASE ParseFile
    BY <1>1, <2>1, <2>3, ParseKeepsTypes DEF Typed
  <2>4. CASE FreeModule
    BY <1>1, <2>1, <2>4, FreeKeepsTypes DEF Typed
  <2>5. CASE NumberUnended
    BY <1>1, <2>1, <2>5, UnendedKeepsTypes DEF Typed
  <2> QED  BY <2>1, <2>2, <2>3, <2>4, <2>5 DEF LoaderNext
<1>3. CASE InstanceStep
  BY <1>1, <1>3, InstanceKeepsTypes DEF Typed
<1>4. CASE \/ LoadedNothing \/ LoadedModule \/ RegisterNext \/ RegisteredAll
           \/ Compiled \/ GivesUp \/ Succeeds
  BY <1>1, <1>4, DriverKeepsTypes DEF Typed
<1>5. CASE UNCHANGED vars
  <2>1. /\ SessionTyped /\ UNCHANGED <<pc, live, fails, cells, short, fpos, mod, at, item, todo,
              nxt, probe, back, parsed, buckets, turn, funcs, compiled, given, reg>>
    BY <1>5 DEF vars, loaderVars, importsVars, instanceVars, Typed
  <2>2. SessionTyped'
    BY <2>1 DEF SessionTyped, TypeOK, IsModule, SectionsInside, LoopInside, InstanceTyped, Sec
  <2> QED  BY <1>1, <2>2 DEF Typed
<1> QED  BY <1>2, <1>3, <1>4, <1>5 DEF Next

(* The counts, the cursors and the results of a session have their types,  *)
(* whatever the file holds, wherever an allocation fails and whatever the  *)
(* driver registers: nothing the loader stores of a file is out of its     *)
(* range, and neither NULL nor memory nobody has written is ever counted   *)
(* among what fw_malloc has given.                                         *)
THEOREM SessionTypeCorrect == Spec => []TypeOK
<1>1. Init => Typed
  BY InitTyped
<1>2. Typed /\ [Next]_vars => Typed'
  BY StepTyped
<1>3. Typed => TypeOK
  BY DEF Typed, SessionTyped
<1> QED  BY <1>1, <1>2, <1>3, PTL DEF Spec

-----------------------------------------------------------------------------
(***************************************************************************)
(* A load that fails                                                       *)
(***************************************************************************)
\* Nothing has been parsed of the module.
Bare(m) == /\ m.filedata = Null /\ m.vec = Zeroed.vec /\ m.imp = Zeroed.imp
           /\ \A i \in DOMAIN m.secs : m.secs[i].free = 0

\* Past the load, or in the middle of nothing.
LEMMA LoadIsOver ==
    ASSUME pc' \notin {"open", "header", "sections", "close", "load_null"}, back' # "close"
    PROVE  LoadInv'
BY DEF LoadInv, LoadLeavesNothing

LEMMA LoadOver ==
    ASSUME LoadInv, pc \notin {"open", "header", "sections", "free", "close", "load_null"},
           pc \notin LostStates
    PROVE  back # "close"
BY DEF LoadInv

LEMMA SectionNames ==
    /\ \A i, j : Section(i) = Section(j) => i = j
    /\ \A i : Section(i) \notin {FileObj, FileData, Module, Null}
    /\ FileObj \notin {FileData, Module, Null} /\ FileData \notin {Module, Null}
    /\ Module # Null
<1>1. ASSUME NEW what, NEW i, NEW j, NEW other, NEW k, NEW l,
             Obj(what, i, j) = Obj(other, k, l)
      PROVE  what = other /\ i = k
  BY <1>1 DEF Obj
<1>2. \A i, j : Section(i) = Section(j) => i = j
  BY <1>1 DEF Section
<1>3. /\ "section" \notin {"file", "filedata", "module", "NULL"}
      /\ "file" \notin {"filedata", "module", "NULL"}
      /\ "filedata" \notin {"module", "NULL"} /\ "module" # "NULL"
  OBVIOUS
<1>4. \A i : Section(i) \notin {FileObj, FileData, Module, Null}
  BY <1>1, <1>3 DEF Section, FileObj, FileData, Module, Null
<1>5. /\ FileObj \notin {FileData, Module, Null} /\ FileData \notin {Module, Null}
      /\ Module # Null
  BY <1>1, <1>3 DEF FileObj, FileData, Module, Null
<1> QED  BY <1>2, <1>4, <1>5

LEMMA ReadLoads ==
    ASSUME Typed, LoadInv, OpenFails \/ ReadFails \/ ReadFile \/ BadHeader \/ NewModule,
           UNCHANGED given
    PROVE  LoadInv'
<1>1. /\ fails \in Nat /\ short = given.short /\ IsModule(mod) /\ SectionsInside
  BY TypedParts DEF Typed, HeapTyped
<1>2. /\ pc \in {"open", "header"} /\ back = "none" /\ parsed = "none" /\ Bare(mod)
      /\ (pc = "open" => live = {}) /\ (pc = "header" => live = {FileObj, FileData})
  BY DEF LoadInv, Bare, OpenFails, ReadFails, ReadFile, BadHeader, NewModule
<1>3. UNCHANGED <<mod, back, parsed>>
  BY DEF OpenFails, ReadFails, ReadFile, BadHeader, NewModule, loaderVars
<1>4. /\ back' = "none" /\ parsed' = "none" /\ Bare(mod')
  BY <1>2, <1>3 DEF Bare
<1>5. CASE OpenFails
  <2>1. pc' = "load_null" /\ live' = {}
    BY <1>2, <1>5 DEF OpenFails
  <2> QED  BY <1>4, <2>1 DEF LoadInv, LoadLeavesNothing
<1>6. CASE ReadFails
  <2>1. pc' = "load_null" /\ live' \subseteq (IF given'.short THEN {FileData} ELSE {})
    BY <1>1, <1>2, <1>6 DEF ReadFails
  <2> QED  BY <1>4, <2>1 DEF LoadInv, LoadLeavesNothing
<1>7. CASE ReadFile
  <2>1. pc' = "header" /\ HeapGrew({FileObj, FileData}) /\ live = {}
    BY <1>1, <1>2, <1>7, TwoMallocs DEF HeapGrew, ReadFile
  <2>2. live' = {FileObj, FileData}
    BY <2>1, SectionNames DEF HeapGrew
  <2> QED  BY <1>4, <2>1, <2>2 DEF LoadInv, LoadLeavesNothing, Bare
<1>8. CASE BadHeader
  <2>1. pc' = "close" /\ live' = {FileObj, FileData}
    BY <1>2, <1>8 DEF BadHeader
  <2> QED  BY <1>4, <2>1 DEF LoadInv, LoadLeavesNothing
<1>9. CASE NewModule
  <2>1. PICK m \in Answer(Module) :
          /\ Mallocs(<<m>>)
          /\ pc' = IF m = Null THEN "close" ELSE "sections"
    BY <1>9 DEF NewModule
  <2>2. live' = {FileObj, FileData} \cup ({m} \ {Null})
    BY <1>1, <1>2, <1>9, <2>1, OneMalloc DEF NewModule
  <2>3. CASE m = Null
    <3>1. pc' = "close" /\ live' = {FileObj, FileData}
      BY <2>1, <2>2, <2>3
    <3> QED  BY <1>4, <3>1 DEF LoadInv, LoadLeavesNothing
  <2>4. CASE m # Null
    <3>1. pc' = "sections" /\ live' = {FileObj, FileData, Module}
      BY <2>1, <2>2, <2>4 DEF Answer
    <3>2. mod'.secs = << >> /\ Len(mod'.secs) = 0
      BY <1>1, <1>3, <1>9, EmptySeq DEF SectionsInside, NewModule
    <3>3. Loading(1)' = {FileObj, FileData, Module}
      BY <3>2 DEF Loading
    <3> QED  BY <1>4, <3>1, <3>3 DEF LoadInv, LoadLeavesNothing, Bare
  <2> QED  BY <2>3, <2>4
<1> QED  BY <1>5, <1>6, <1>7, <1>8, <1>9

LEMMA CutLoads ==
    ASSUME Typed, LoadInv, SplitSection \/ SplitEnds, UNCHANGED given
    PROVE  LoadInv'
<1>1. /\ IsModule(mod) /\ Len(mod.secs) \in Nat /\ DOMAIN mod.secs = 1..Len(mod.secs)
  BY TypedParts, SectionsOfModule DEF Typed
<1>2. /\ pc = "sections" /\ back = "none" /\ parsed = "none" /\ live = Loading(1) /\ Bare(mod)
  BY DEF LoadInv, Bare, SplitSection, SplitEnds
<1>3. CASE LoadFails /\ UNCHANGED <<live, mod>>
  <2>1. pc' = "free" /\ at' = 1 /\ back' = "close"
    BY <1>3 DEF LoadFails
  <2>2. live' = Loading(at)' /\ Bare(mod')
    BY <1>2, <1>3, <2>1 DEF Loading, Bare
  <2> QED  BY <2>1, <2>2 DEF LoadInv, LoadLeavesNothing, Bare
<1>4. CASE SplitEnds
  <2>1. CASE LoadFails
    BY <1>3, <1>4, <2>1 DEF SplitEnds
  <2>2. CASE pc' = "parse" /\ UNCHANGED back
    BY <1>2, <2>2, LoadIsOver
  <2> QED  BY <1>4, <2>1, <2>2 DEF SplitEnds
<1>5. CASE SplitSection
  <2>1. UNCHANGED parsed /\ ((LoadFails /\ UNCHANGED <<live, fpos, mod>>) \/ SectionAdded)
    BY <1>5, SplitStep
  <2>2. CASE SectionAdded
    <3>1. PICK rec \in SectionRecs, c \in {mod.code, Len(mod.secs) + 1} :
             /\ rec.free = 0
             /\ mod' = Split(mod, rec, c)
             /\ live' = live \cup {Section(Len(mod.secs) + 1)}
             /\ UNCHANGED <<pc, at, back>>
      BY <2>2 DEF SectionAdded
    <3>2. c \in Nat
      BY <1>1 DEF IsModule
    <3>3. LET q == Split(mod, rec, c) IN
           /\ IsModule(q) /\ q.vec = mod.vec /\ q.imp = mod.imp /\ q.code = c
           /\ q.filedata = mod.filedata /\ q.instance = mod.instance
           /\ Len(q.secs) = Len(mod.secs) + 1
           /\ \A i \in 1..Len(q.secs) :
                 q.secs[i] = IF i <= Len(mod.secs) THEN mod.secs[i] ELSE rec
      BY <1>1, <3>2, SectionSplit
    <3>4. /\ IsModule(mod') /\ mod'.vec = mod.vec /\ mod'.imp = mod.imp
          /\ mod'.filedata = mod.filedata
          /\ Len(mod'.secs) = Len(mod.secs) + 1
          /\ \A i \in 1..Len(mod'.secs) :
                mod'.secs[i] = IF i <= Len(mod.secs) THEN mod.secs[i] ELSE rec
      BY <3>1, <3>3
    <3>5. Bare(mod')
      <4>1. DOMAIN mod'.secs = 1..Len(mod'.secs)
        BY <3>4, SectionsOfModule
      <4>2. \A i \in 1..Len(mod'.secs) : mod'.secs[i].free = 0
        <5> SUFFICES ASSUME NEW i \in 1..Len(mod'.secs) PROVE mod'.secs[i].free = 0
          OBVIOUS
        <5>1. i <= Len(mod.secs) => i \in 1..Len(mod.secs)
          BY <1>1
        <5> QED  BY <1>1, <1>2, <3>1, <3>4, <5>1 DEF Bare
      <4> QED  BY <1>2, <3>4, <4>1, <4>2 DEF Bare
    <3>6. live' = Loading(1)'
      <4>1. 1..Len(mod'.secs) = 1..Len(mod.secs) \cup {Len(mod.secs) + 1}
        BY <1>1, <3>4
      <4>2. {Section(i) : i \in 1..Len(mod'.secs)}
              = {Section(i) : i \in 1..Len(mod.secs)} \cup {Section(Len(mod.secs) + 1)}
        BY <4>1
      <4> QED  BY <1>2, <3>1, <4>2 DEF Loading
    <3> QED  BY <1>2, <2>1, <3>1, <3>5, <3>6 DEF LoadInv, LoadLeavesNothing, Bare, LostStates
  <2> QED  BY <1>3, <2>1, <2>2
<1> QED  BY <1>4, <1>5

\* Sections are freed from the first on.
LEMMA FreeLoads ==
    ASSUME Typed, LoadInv, FreeModule, UNCHANGED given
    PROVE  LoadInv'
<1>2. /\ pc = "free" /\ back' = back
      /\ \/ NextSection
         \/ \E how \in LostStates : Lost(how)
         \/ pc' \in LostStates \cup {back} /\ UNCHANGED <<at, item, todo, parsed>>
  BY FreeSteps
<1>1. /\ IsModule(mod) /\ Len(mod.secs) \in Nat /\ DOMAIN mod.secs = 1..Len(mod.secs)
      /\ at \in Nat \ {0}
  <2>1. IsModule(mod) /\ at # 0 /\ at \in Nat
    BY <1>2, TypedParts DEF Typed, LoopTyped
  <2> QED  BY <2>1, SectionsOfModule
<1>3. back \in {"close", "done"}
  BY <1>2, TypedParts DEF Typed
<1>4. CASE back = "done"
  <2>1. pc' \in LostStates \cup {"free", "done"}
    BY <1>2, <1>4 DEF NextSection, Lost
  <2> QED  BY <1>2, <1>4, <2>1, LoadIsOver DEF LostStates
<1>5. CASE back = "close"
  <2>1. live = Loading(at) /\ Bare(mod)
    BY <1>2, <1>5 DEF LoadInv, Bare
  <2>2. \A h : Freeing(h) => h = 0 /\ at <= Len(mod.secs)
    BY <1>1, <2>1 DEF Freeing, Sec, Bare
  <2>3. ~FreeImports /\ \A k \in Vectors : ~FreeVector(k)
    <3>1. Import # 0 /\ \A k \in Vectors : k # 0
      BY DEF Vectors, Import, Type, Function, Table, Memory, Global, Export, Elem, Data
    <3>2. (FreeImports => Freeing(Import)) /\ \A k \in Vectors : FreeVector(k) => Freeing(k)
      BY DEF FreeImports, FreeVector
    <3> QED  BY <2>2, <3>1, <3>2
  <2>4. CASE FreePlain
    <3>1. /\ at <= Len(mod.secs) /\ live' = live \ {Section(at)}
          /\ mod' = mod /\ pc' = "free" /\ at' = at + 1
      <4>1. Range(<<Section(at)>>) = {Section(at)}
        BY DEF Range
      <4> QED  BY <1>2, <2>2, <2>4, <4>1 DEF FreePlain, Without, NextSection
    <3>2. at..Len(mod.secs) = {at} \cup ((at + 1)..Len(mod.secs))
      BY <1>1, <3>1
    <3>3. \A i \in (at + 1)..Len(mod.secs) : i # at
      BY <1>1
    <3>4. Loading(at) \ {Section(at)} = Loading(at + 1)
      <4>1. {Section(i) : i \in at..Len(mod.secs)}
              = {Section(at)} \cup {Section(i) : i \in (at + 1)..Len(mod.secs)}
        BY <3>2
      <4>2. Section(at) \notin {Section(i) : i \in (at + 1)..Len(mod.secs)}
        BY <3>3, SectionNames
      <4>3. Section(at) \notin {FileObj, FileData, Module}
        BY SectionNames
      <4> QED  BY <4>1, <4>2, <4>3 DEF Loading
    <3>5. live' = Loading(at)' /\ Bare(mod')
      BY <2>1, <3>1, <3>4 DEF Loading, Bare
    <3> QED  BY <1>2, <1>5, <3>1, <3>5 DEF LoadInv, LoadLeavesNothing, Bare
  <2>5. CASE FreeRest
    <3>1. mod.vec[Type] = Empty /\ mod.filedata = Null
      BY <2>1, EmptyModule DEF Bare, Vectors
    <3>2. Types.cnt = 0 /\ Types.arr = Null /\ Types.elt = << >>
      BY <3>1 DEF Types, Empty
    <3>3. ArrayTrouble(Types, Types.cnt) = ""
      BY <3>2, EmptySeq DEF ArrayTrouble
    <3> DEFINE ptrs == Owned(Type, Types.cnt) \o <<Types.arr, mod.filedata, Module>>
    <3>4. ptrs = <<Null, Null, Module>>
      <4>1. Owned(Type, 0) = << >>
        BY DEF Owned
      <4>2. ptrs = << >> \o <<Null, Null, Module>>
        BY <3>1, <3>2, <4>1
      <4>3. \A a, b, c : << >> \o <<a, b, c>> = <<a, b, c>>
        OBVIOUS
      <4> QED  BY <4>2, <4>3
    <3>5. Loading(at) = {FileObj, FileData, Module}
      <4>1. at > Len(mod.secs)
        BY <2>5 DEF FreeRest
      <4>2. at..Len(mod.secs) = {}
        BY <1>1, <4>1
      <4> QED  BY <4>2 DEF Loading
    <3>6. /\ mod' = mod
          /\ \/ pc' = "close" /\ live' = Without(ptrs)
             \/ pc' \in LostStates
      <4>1. /\ mod' = mod
            /\ IF ArrayTrouble(Types, Types.cnt) = "" /\ Freeable(ptrs)
               THEN pc' = back /\ live' = Without(ptrs)
               ELSE pc' = (IF ArrayTrouble(Types, Types.cnt) = ""
                           THEN "bad" ELSE ArrayTrouble(Types, Types.cnt))
        BY <2>5 DEF FreeRest
      <4> HIDE DEF ptrs
      <4> QED  BY <1>5, <3>3, <4>1 DEF LostStates
    <3>7. Without(ptrs) = {FileObj, FileData}
      <4>1. Range(<<Null, Null, Module>>) = {Null, Module}
        BY DEF Range
      <4> QED  BY <2>1, <3>4, <3>5, <4>1, SectionNames DEF Without
    <3>8. Bare(mod')
      BY <2>1, <3>6 DEF Bare
    <3> HIDE DEF ptrs
    <3> QED  BY <1>2, <1>5, <3>6, <3>7, <3>8 DEF LoadInv, LoadLeavesNothing, Bare, LostStates
  <2> QED  BY <2>3, <2>4, <2>5 DEF FreeModule
<1> QED  BY <1>3, <1>4, <1>5

LEMMA CloseLoads ==
    ASSUME Typed, LoadInv, CloseFile \/ Detach
    PROVE  LoadInv'
<1>1. CASE CloseFile
  <2>1. /\ live = {FileObj, FileData} /\ pc' = "load_null" /\ UNCHANGED <<mod, back, parsed>>
        /\ live' = Without(<<FileData, FileObj>>)
    BY <1>1 DEF CloseFile, LoadInv, loaderVars
  <2>2. live' = {}
    <3>1. Range(<<FileData, FileObj>>) = {FileObj, FileData}
      BY DEF Range
    <3> QED  BY <2>1, <3>1 DEF Without
  <2>3. back' = "close" => Bare(mod')
    BY <2>1 DEF LoadInv, Bare
  <2> QED  BY <2>1, <2>2, <2>3 DEF LoadInv, LoadLeavesNothing, Bare
<1>2. CASE Detach
  <2>1. pc = "detach" /\ pc' = "loaded" /\ back' = back
    BY <1>2 DEF Detach
  <2> QED  BY <2>1, LoadOver, LoadIsOver DEF LostStates
<1> QED  BY <1>1, <1>2

LEMMA ParseLoads ==
    ASSUME Typed, LoadInv, ParseFile
    PROVE  LoadInv'
<1>1. pc = "parse" /\ Control /\ back' = back
  BY ParseSteps DEF ParseStep
<1>2. pc' \in {"parse", "detach"} \cup GoneStates
  BY <1>1, ControlTyped DEF Typed
<1> QED  BY <1>1, <1>2, LoadOver, LoadIsOver DEF GoneStates, LostStates

LEMMA UnendedLoads ==
    ASSUME LoadInv, NumberUnended
    PROVE  LoadInv'
<1>1. /\ pc' \in {"hung", "overread"} /\ pc \in {"sections", "parse"} /\ back' = back
  BY NumberLost DEF loaderVars
<1>2. back # "close"
  BY <1>1 DEF LoadInv, LostStates
<1> QED  BY <1>1, <1>2, LoadIsOver

LEMMA InstanceLoads ==
    ASSUME Typed, LoadInv, InstanceStep
    PROVE  LoadInv'
<1>1. CASE CompileNext
  <2>1. /\ pc \in {"compile", "resolve", "exports"} /\ back' = back
    <3>1. CASE CompileBegins
      BY <3>1 DEF CompileBegins, LoaderRests
    <3>2. CASE ResolveImport
      BY <3>2 DEF ResolveImport, LoaderRests
    <3>3. CASE TableOwn \/ CompileEnds
      BY <3>3 DEF TableOwn, CompileEnds, LoaderRests, loaderVars
    <3>4. CASE BindExport
      BY <3>4 DEF BindExport, LoaderRests
    <3> QED  BY <1>1, <3>1, <3>2, <3>3, <3>4 DEF CompileNext
  <2>2. pc' \in GoneStates \cup {"resolve", "exports", "compiled"}
    BY <1>1, CompileSteps DEF Compiles
  <2> QED  BY <2>1, <2>2, LoadOver, LoadIsOver DEF GoneStates, LostStates
<1>2. CASE Run(Main)
  <2>1. pc' \in LostStates \cup {"succeeded", "failed", "exit", "hung"} /\ back' = back
    BY <1>2, RunSteps DEF loaderVars
  <2>2. pc = "run"
    BY <1>2 DEF Run
  <2> QED  BY <2>1, <2>2, LoadOver, LoadIsOver DEF LostStates
<1> QED  BY <1>1, <1>2 DEF InstanceStep

LEMMA DriverLoads ==
    ASSUME Typed, LoadInv,
           LoadedNothing \/ LoadedModule \/ RegisterNext \/ RegisteredAll
             \/ Compiled \/ GivesUp \/ Succeeds
    PROVE  LoadInv'
<1>1. CASE LoadedNothing
  <2>1. pc = "load_null" /\ pc' = "crash" /\ UNCHANGED <<live, mod, back, parsed>>
    BY <1>1 DEF LoadedNothing, loaderVars
  <2>2. back' = "close" => Bare(mod')
    BY <2>1 DEF LoadInv, Bare
  <2> QED  BY <2>1, <2>2 DEF LoadInv, LoadLeavesNothing, Bare, LostStates
<1>2. CASE GivesUp
  <2>1. pc' = "free" /\ back' = "done"
    BY <1>2 DEF GivesUp
  <2> QED  BY <2>1, LoadIsOver
<1>3. CASE LoadedModule \/ RegisterNext \/ RegisteredAll \/ Compiled \/ Succeeds
  <2>1. /\ pc \in {"loaded", "register", "compiled", "succeeded"} /\ back' = back
        /\ pc' \in {"register", "crash", "compile", "run", "done"}
    <3>1. CASE RegisterNext
      BY <3>1, RegisterHeap DEF RegisterNext, loaderVars
    <3>2. CASE LoadedModule
      BY <3>2 DEF LoadedModule, NewWrap, loaderVars
    <3>3. CASE RegisteredAll \/ Compiled \/ Succeeds
      BY <3>3 DEF RegisteredAll, Compiled, Succeeds, loaderVars
    <3> QED  BY <1>3, <3>1, <3>2, <3>3
  <2> QED  BY <2>1, LoadOver, LoadIsOver DEF LostStates
<1> QED  BY <1>1, <1>2, <1>3

LEMMA InitLoads == Init => LoadInv
<1> SUFFICES ASSUME Init PROVE LoadInv
  OBVIOUS
<1>1. pc = "open" /\ live = {} /\ mod = Zeroed /\ back = "none" /\ parsed = "none"
  BY DEF Init, LoaderInit
<1>2. Bare(mod)
  <2>1. Len(mod.secs) = 0 /\ DOMAIN mod.secs = 1..Len(mod.secs)
    BY <1>1, EmptyModule, SectionsOfModule
  <2> QED  BY <1>1, <2>1, EmptyModule DEF Bare
<1> QED  BY <1>1, <1>2 DEF LoadInv, LoadLeavesNothing, Bare

LEMMA StepLoads == Typed /\ LoadInv /\ [Next]_vars => LoadInv'
<1> SUFFICES ASSUME Typed, LoadInv, [Next]_vars PROVE LoadInv'
  OBVIOUS
<1>1. CASE LoaderStep
  <2>1. UNCHANGED given /\ LoaderNext
    BY <1>1 DEF LoaderStep
  <2>2. CASE LoadFile
    BY <2>1, <2>2, ReadLoads, CutLoads, CloseLoads DEF LoadFile
  <2>3. CASE ParseFile
    BY <2>3, ParseLoads
  <2>4. CASE FreeModule
    BY <2>1, <2>4, FreeLoads
  <2>5. CASE NumberUnended
    BY <2>5, UnendedLoads
  <2> QED  BY <2>1, <2>2, <2>3, <2>4, <2>5 DEF LoaderNext
<1>2. CASE InstanceStep
  BY <1>2, InstanceLoads
<1>3. CASE \/ LoadedNothing \/ LoadedModule \/ RegisterNext \/ RegisteredAll
           \/ Compiled \/ GivesUp \/ Succeeds
  BY <1>3, DriverLoads
<1>4. CASE UNCHANGED vars
  <2>1. UNCHANGED <<pc, live, mod, at, back, parsed, given>>
    BY <1>4 DEF vars, loaderVars
  <2> QED  BY <2>1 DEF LoadInv, LoadLeavesNothing, Loading
<1> QED  BY <1>1, <1>2, <1>3, <1>4 DEF Next

(* A load that fails - at the header, at a section, or at any of its        *)
(* allocations - leaves nothing allocated behind, whatever the file: what  *)
(* fw_module_free frees is all that had been allocated, the handle and the *)
(* data of the file follow.  The exception is the data of a file fread     *)
(* falls short of.                                                         *)
THEOREM LoadsCleanUp == Spec => []LoadLeavesNothing
<1>1. Init => Typed /\ LoadInv
  BY InitTyped, InitLoads
<1>2. Typed /\ LoadInv /\ [Next]_vars => Typed' /\ LoadInv'
  BY StepTyped, StepLoads
<1>3. LoadInv => LoadLeavesNothing
  BY DEF LoadInv
<1> QED  BY <1>1, <1>2, <1>3, PTL DEF Spec

=============================================================================
