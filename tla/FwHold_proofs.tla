---------------------------- MODULE FwHold_proofs ----------------------------
(***************************************************************************)
(* What a module keeps allocated while it is loaded, what fw_module_free   *)
(* finds of it and leaves, the two passes over the imports, and what the   *)
(* compilation and the run read of a module parsed to its end.             *)
(***************************************************************************)
EXTENDS FwLoad_proofs

-----------------------------------------------------------------------------
(***************************************************************************)
(* The objects and the sections                                            *)
(***************************************************************************)
LEMMA ObjParts ==
    \A a, b, c, d, e, f : Obj(a, b, c) = Obj(d, e, f) => a = d /\ b = e /\ c = f
BY DEF Obj

\* What is allocated for section i, but for its own record.
SectionWhats == {"array", "type", "locals", "name", "funcs", "func", "mname", "nsname"}

Of(i) == {Obj(w, i, j) : w \in SectionWhats, j \in Nat}

LEMMA NotOf ==
    /\ \A i : Null \notin Of(i) /\ Wild \notin Of(i)
    /\ \A i : Module \notin Of(i) /\ FileData \notin Of(i) /\ FileObj \notin Of(i)
    /\ \A i, j : Section(j) \notin Of(i)
    /\ \A i, j : i # j => Of(i) \cap Of(j) = {}
    /\ \A j : Section(j) # Wild /\ Wild \notin {FileObj, FileData, Module, Null}
<1>1. /\ SectionWhats \cap {"NULL", "wild", "module", "filedata", "file", "section"} = {}
      /\ "wild" \notin {"NULL", "module", "filedata", "file", "section"}
  BY DEF SectionWhats
<1>2. ASSUME NEW i, NEW o \in Of(i)
      PROVE  \E w \in SectionWhats, j \in Nat : o = Obj(w, i, j)
  BY <1>2 DEF Of
<1>3. ASSUME NEW what, what \notin SectionWhats, NEW i, NEW j, NEW k
      PROVE  Obj(what, j, k) \notin Of(i)
  BY <1>2, <1>3, ObjParts
<1>4. \A i : Null \notin Of(i) /\ Wild \notin Of(i)
  BY <1>1, <1>3 DEF Null, Wild
<1>5. \A i : Module \notin Of(i) /\ FileData \notin Of(i) /\ FileObj \notin Of(i)
  BY <1>1, <1>3 DEF Module, FileData, FileObj
<1>6. \A i, j : Section(j) \notin Of(i)
  BY <1>1, <1>3 DEF Section
<1>7. \A i, j : i # j => Of(i) \cap Of(j) = {}
  BY <1>2, ObjParts
<1>8. \A j : Section(j) # Wild /\ Wild \notin {FileObj, FileData, Module, Null}
  BY <1>1, ObjParts DEF Section, FileObj, FileData, Module, Null, Wild
<1> QED  BY <1>4, <1>5, <1>6, <1>7, <1>8

\* A section that is counted is the only one of its type.
LEMMA OnlyOne ==
    ASSUME IsModule(mod), NoSectionTwice, NEW i \in 1..Len(mod.secs), NEW j \in 1..Len(mod.secs),
           mod.secs[i].type \in Counted, mod.secs[j].type = mod.secs[i].type
    PROVE  i = j
<1> SUFFICES ASSUME i # j PROVE FALSE
  OBVIOUS
<1> DEFINE S == SectionsOf(mod.secs[i].type)
<1>1. Len(mod.secs) \in Nat /\ DOMAIN mod.secs = 1..Len(mod.secs)
  BY SectionsOfModule
<1>2. S \subseteq 1..Len(mod.secs) /\ {i, j} \subseteq S
  BY <1>1 DEF SectionsOf
<1>3. Cardinality(S) <= 1
  BY DEF NoSectionTwice
<1> HIDE DEF S
<1>4. IsFiniteSet(S)
  BY <1>1, <1>2, UpTo, FS_Subset
<1>5. Cardinality({i, j}) <= Cardinality(S) /\ Cardinality(S) \in Nat
  BY <1>2, <1>4, FS_Subset, FS_CardinalityType
<1>6. Cardinality({i, j}) = 2
  <2>2. Cardinality({j}) = 1 /\ IsFiniteSet({j})
    BY FS_Singleton
  <2>3. {j} \cup {i} = {i, j} /\ i \notin {j}
    OBVIOUS
  <2>4. Cardinality({j} \cup {i}) = Cardinality({j}) + 1
    BY <2>2, <2>3, FS_AddElement
  <2> QED  BY <2>2, <2>3, <2>4
<1> QED  BY <1>3, <1>5, <1>6

\* The sections keep their types.
LEMMA SectionsStay ==
    ASSUME IsModule(mod), IsModule(mod'), SameSections(mod', mod)
    PROVE  /\ DOMAIN mod'.secs = DOMAIN mod.secs
           /\ NoSectionTwice' <=> NoSectionTwice
           /\ \A t : SectionsOf(t)' = SectionsOf(t)
<1>1. DOMAIN mod'.secs = 1..Len(mod.secs) /\ DOMAIN mod.secs = 1..Len(mod.secs)
  BY SectionsOfModule DEF SameSections
<1>2. \A t : SectionsOf(t)' = SectionsOf(t)
  BY <1>1 DEF SectionsOf, SameSections
<1>3. NoSectionTwice' <=> NoSectionTwice
  BY <1>2 DEF NoSectionTwice
<1> QED  BY <1>1, <1>2, <1>3

-----------------------------------------------------------------------------
(***************************************************************************)
(* A section whose part of the module stays as it is                       *)
(***************************************************************************)
\* The entries of a vector, by their number.
LEMMA VectorEntries ==
    ASSUME NEW m, IsModule(m), NEW k \in Vectors
    PROVE  /\ DOMAIN m.vec[k].elt = 1..Len(m.vec[k].elt) /\ Len(m.vec[k].elt) \in Nat
           /\ m.vec[k].cnt \in Nat /\ m.vec[k].elt \in Seq(EntriesOf(k))
           /\ \A j \in 1..Len(m.vec[k].elt) : m.vec[k].elt[j] \in EntriesOf(k)
<1>1. m.vec[k] \in VecRecs(k)
  BY DEF IsModule
<1>2. m.vec[k].cnt \in Nat /\ m.vec[k].elt \in Seq(EntriesOf(k))
  BY <1>1 DEF VecRecs, EntriesOf
<1> QED  BY <1>2, LenProperties, ElementOfSeq

LEMMA ImportEntries ==
    ASSUME NEW m, IsModule(m), NEW k \in Kinds
    PROVE  /\ Len(m.imp[k].elt) \in Nat /\ m.imp[k].cnt \in Nat
           /\ \A n \in 1..Len(m.imp[k].elt) : m.imp[k].elt[n] \in ImportRecs
<1>1. m.imp[k] \in ImpRecs
  BY DEF IsModule
<1>2. m.imp[k].cnt \in Nat /\ m.imp[k].elt \in Seq(ImportRecs)
  BY <1>1 DEF ImpRecs
<1> QED  BY <1>2, LenProperties, ElementOfSeq

LEMMA NamedOf ==
    /\ \A i : Obj("array", i, 0) \in Of(i)
    /\ \A i, k : k \in Kinds => Obj("array", i, k) \in Of(i)
    /\ \A i, k, j : j \in Nat => Obj(OwnKind(k), i, j) \in Of(i)
    /\ \A i, p, j : p \in 1..3 /\ j \in Nat => Obj(ImportKind(p), i, j) \in Of(i)
<1>1. {"array", "type", "locals", "name", "funcs", "func", "mname", "nsname"} = SectionWhats
  BY DEF SectionWhats
<1>2. \A k : OwnKind(k) \in SectionWhats
  BY <1>1 DEF OwnKind
<1>3. \A p \in 1..3 : ImportKind(p) \in SectionWhats
  <2>1. /\ ImportKind(1) = "func" /\ ImportKind(2) = "mname" /\ ImportKind(3) = "nsname"
    BY DEF ImportKind
  <2>2. \A p \in 1..3 : p = 1 \/ p = 2 \/ p = 3
    OBVIOUS
  <2> QED  BY <1>1, <2>1, <2>2
<1>4. 0 \in Nat /\ \A k \in Kinds : k \in Nat
  BY DEF Kinds
<1> QED  BY <1>1, <1>2, <1>3, <1>4 DEF Of

\* What a vector points to is the same in the next state.
SameVector(k) ==
    /\ mod'.vec[k].cnt = mod.vec[k].cnt /\ mod'.vec[k].arr = mod.vec[k].arr
    /\ Len(mod'.vec[k].elt) = Len(mod.vec[k].elt)
    /\ \A j \in 1..Len(mod.vec[k].elt) : mod'.vec[k].elt[j].own = mod.vec[k].elt[j].own

LEMMA VectorStays ==
    ASSUME IsModule(mod), IsModule(mod'), NEW i, NEW k \in Vectors, VectorHeld(k, i),
           mod'.secs[i].free = mod.secs[i].free,
           SameVector(k), live \cap Of(i) \subseteq live'
    PROVE  VectorHeld(k, i)'
<1>1. /\ DOMAIN mod.vec[k].elt = 1..Len(mod.vec[k].elt)
      /\ DOMAIN mod'.vec[k].elt = 1..Len(mod.vec[k].elt)
      /\ Len(mod.vec[k].elt) \in Nat
  BY VectorEntries DEF SameVector
<1>2. \A j \in DOMAIN mod.vec[k].elt : Obj(OwnKind(k), i, j) \in Of(i)
  BY <1>1, NamedOf
<1>3. Obj("array", i, 0) \in Of(i)
  BY NamedOf
<1> QED  BY <1>1, <1>2, <1>3 DEF VectorHeld, SameVector

\* What an import points to.
LEMMA ImportPtrTyped ==
    ASSUME IsModule(mod), NEW k \in Kinds, NEW n \in 1..Len(mod.imp[k].elt), NEW p \in 1..3
    PROVE  ImportPtr(k, n, p) \in Ptrs /\ ImportPtr(k, n, p)[3] \in Nat
<1> DEFINE e == mod.imp[k].elt[n]
<1>1. e \in ImportRecs /\ n # 0
  BY ImportEntries
<1>2. e.f \in Ptrs /\ e.mname \in Ptrs /\ e.nsname \in Ptrs
  BY <1>1 DEF ImportRecs
<1>3. ImportPtr(k, n, p) = <<e.f, e.mname, e.nsname>>[p]
  BY <1>1 DEF ImportPtr
<1> HIDE DEF e
<1>4. ImportPtr(k, n, p) \in Ptrs
  BY <1>2, <1>3
<1>5. \A o \in Ptrs : o[3] \in Nat
  BY DEF Ptrs
<1> QED  BY <1>4, <1>5

LEMMA ImportsStay ==
    ASSUME IsModule(mod), NEW i, ImportsHeld(i),
           mod'.secs[i].free = mod.secs[i].free, mod'.imp = mod.imp,
           pc' = "parse" /\ at' = i => mod.secs[i].free = 0,
           live \cap Of(i) \subseteq live'
    PROVE  ImportsHeld(i)'
<1>1. \A k, n, p : ImportPtr(k, n, p)' = ImportPtr(k, n, p)
  BY DEF ImportPtr
<1>2. ASSUME mod.secs[i].free # 0, NEW k \in Kinds, mod.imp[k].cnt > 0
      PROVE  /\ mod.imp[k].arr = Obj("array", i, k) /\ mod.imp[k].arr \in live'
             /\ Len(mod.imp[k].elt) = mod.imp[k].cnt
             /\ \A n \in 1..mod.imp[k].cnt, p \in 1..3 : ImportHeld(i, k, n, p)'
  <2>1. /\ mod.imp[k].arr = Obj("array", i, k) /\ mod.imp[k].arr \in live
        /\ Len(mod.imp[k].elt) = mod.imp[k].cnt
        /\ \A n \in 1..mod.imp[k].cnt, p \in 1..3 : ImportHeld(i, k, n, p)
    BY <1>2 DEF ImportsHeld
  <2>2. mod.imp[k].arr \in live'
    BY <2>1, NamedOf
  <2>3. ASSUME NEW n \in 1..mod.imp[k].cnt, NEW p \in 1..3
        PROVE  ImportHeld(i, k, n, p)'
    <3> DEFINE o == ImportPtr(k, n, p)
    <3>1. ImportHeld(i, k, n, p) /\ o[3] \in Nat
      BY <2>1, <2>3, ImportPtrTyped
    <3>2. o # Null => o \in live'
      <4>1. o # Null => o \in live /\ o = Obj(ImportKind(p), i, o[3])
        BY <3>1 DEF ImportHeld
      <4> HIDE DEF o
      <4> QED  BY <3>1, <4>1, NamedOf
    <3> QED  BY <1>1, <1>2, <3>1, <3>2 DEF ImportHeld
  <2> QED  BY <2>1, <2>2, <2>3
<1> QED  BY <1>2 DEF ImportsHeld

LEMMA HeldStays ==
    ASSUME IsModule(mod), IsModule(mod'), SameSections(mod', mod),
           NEW i \in 1..Len(mod.secs), SectionHeld(i),
           mod'.secs[i].free = mod.secs[i].free,
           mod.secs[i].type \in Vectors => SameVector(mod.secs[i].type),
           mod.secs[i].type = Import =>
               mod'.imp = mod.imp /\ (pc' = "parse" /\ at' = i => mod.secs[i].free = 0),
           live \cap Of(i) \subseteq live'
    PROVE  SectionHeld(i)'
<1>1. PICK t : t = mod.secs[i].type
  OBVIOUS
<1>2. mod'.secs[i].type = t
  BY <1>1 DEF SameSections
<1>3. t \in Vectors => VectorHeld(t, i)'
  BY <1>1, VectorStays DEF SectionHeld
<1>4. t = Import => ImportsHeld(i)'
  BY <1>1, ImportsStay DEF SectionHeld
<1>5. t \notin Counted => mod'.secs[i].free = 0
  BY <1>1 DEF SectionHeld
<1> QED  BY <1>2, <1>3, <1>4, <1>5 DEF SectionHeld

-----------------------------------------------------------------------------
(***************************************************************************)
(* A step of fw_module_parse, seen from the other sections                 *)
(***************************************************************************)
LEMMA WritesOwn ==
    ASSUME Writes
    PROVE  /\ \A j \in Vectors : ~Parsing(j) => mod'.vec[j] = mod.vec[j]
           /\ ~Parsing(Import) => mod'.imp = mod.imp
           /\ \A i \in 1..Len(mod.secs) : i # at => mod'.secs[i].free = mod.secs[i].free
<1>1. \A k : (Turn(k) => Parsing(k)) /\ (Begins(k) => Parsing(k))
  BY DEF Turn, Begins
<1>2. CASE NothingWritten
  BY <1>2 DEF NothingWritten, SameEntries, SameFrees
<1>3. CASE EntryWrites
  <2>1. PICK k \in Vectors : Turn(k) /\ \E e \in EntriesOf(k) : Wrote(mod', mod, k, e)
    BY <1>3, FilledVectors DEF EntryWrites
  <2>2. \A j \in Vectors : ~Parsing(j) => j # k
    BY <1>1, <2>1
  <2> QED  BY <2>1, <2>2 DEF Wrote, SameFrees
<1>4. CASE VectorWrites
  <2>1. PICK k \in Vectors : Begins(k) /\ (VectorBegun(k) \/ VectorRests(k))
    BY <1>4 DEF VectorWrites
  <2>2. \A j \in Vectors : ~Parsing(j) => j # k
    BY <1>1, <2>1
  <2> QED  BY <2>1, <2>2 DEF VectorBegun, VectorRests
<1>5. CASE ImportsGrow
  BY <1>5 DEF ImportsGrow, Counting, SameFrees
<1>6. CASE Counting /\ ImportsBegun
  BY <1>6 DEF ImportsBegun, Counting
<1>7. CASE ImportWrites
  BY <1>1, <1>7 DEF ImportWrites, WroteImport, SameFrees
<1> QED  BY <1>2, <1>3, <1>4, <1>5, <1>6, <1>7 DEF Writes

LEMMA OthersHeld ==
    ASSUME Typed, ParseStep, NoSectionTwice,
           NEW i \in 1..Len(mod.secs), i # at, SectionHeld(i), Ahead(i)
    PROVE  SectionHeld(i)'
<1>1. /\ IsModule(mod) /\ at \in Nat \ {0} /\ Len(mod.secs) \in Nat
  <2>1. IsModule(mod) /\ at \in Nat \ {0}
    BY TypedParts DEF Typed, LoopTyped, ParseStep
  <2> QED  BY <2>1, SectionsOfModule
<1>2. /\ pc = "parse" /\ Onward /\ IsModule(mod') /\ SameSections(mod', mod)
      /\ live \subseteq live' /\ Writes
  BY DEF ParseStep, Keeps
<1>3. \A t \in Counted : mod.secs[i].type = t => ~Parsing(t)
  <2> SUFFICES ASSUME mod.secs[i].type \in Counted, Parsing(mod.secs[i].type) PROVE FALSE
    OBVIOUS
  <2>1. at \in 1..Len(mod.secs) /\ mod.secs[at].type = mod.secs[i].type
    BY <1>1 DEF Parsing, Sec
  <2> QED  BY <1>1, <2>1, OnlyOne
<1>4. /\ mod'.secs[i].free = mod.secs[i].free
      /\ mod.secs[i].type \in Vectors => SameVector(mod.secs[i].type)
      /\ mod.secs[i].type = Import => mod'.imp = mod.imp
  <2>1. Vectors \subseteq Counted /\ Import \in Counted
    BY DEF Counted
  <2>2. \A j \in Vectors : mod'.vec[j] = mod.vec[j] => SameVector(j)
    BY DEF SameVector
  <2> QED  BY <1>2, <1>3, <2>1, <2>2, WritesOwn
<1>5. pc' = "parse" /\ at' = i => mod.secs[i].free = 0
  <2> SUFFICES ASSUME pc' = "parse", at' = i PROVE mod.secs[i].free = 0
    OBVIOUS
  <2>1. i = at + 1
    BY <1>2 DEF Onward, NextSection
  <2>2. i > at
    BY <1>1, <2>1
  <2> QED  BY <1>2, <2>2 DEF Ahead
<1> QED  BY <1>1, <1>2, <1>4, <1>5, HeldStays

-----------------------------------------------------------------------------
(***************************************************************************)
(* The section whose handler takes the step                                *)
(***************************************************************************)
LEMMA EntryHeld ==
    ASSUME Typed, NEW k \in Vectors, NEW e, Turn(k), Wrote(mod', mod, k, e), HeldEntry(k, e),
           live \subseteq live', NEW i \in 1..Len(mod.secs), i = at, VectorHeld(k, i)
    PROVE  VectorHeld(k, i)'
<1>1. IsModule(mod) /\ IsModule(mod') /\ item \in 1..Len(mod.vec[k].elt)
  BY AtEntry, TypedParts DEF Typed, Wrote
<1>2. /\ DOMAIN mod.vec[k].elt = 1..Len(mod.vec[k].elt)
      /\ DOMAIN mod'.vec[k].elt = 1..Len(mod.vec[k].elt)
      /\ Len(mod'.vec[k].elt) = Len(mod.vec[k].elt)
      /\ mod'.vec[k].cnt = mod.vec[k].cnt /\ mod'.vec[k].arr = mod.vec[k].arr
      /\ mod'.secs[i].free = mod.secs[i].free
      /\ \A j \in 1..Len(mod.vec[k].elt) :
            mod'.vec[k].elt[j] = IF j = item THEN e ELSE mod.vec[k].elt[j]
  <2>1. /\ Len(mod'.vec[k].elt) = Len(mod.vec[k].elt)
        /\ mod'.vec[k].cnt = mod.vec[k].cnt /\ mod'.vec[k].arr = mod.vec[k].arr
        /\ \A j \in 1..Len(mod.vec[k].elt) :
              mod'.vec[k].elt[j] = IF j = item THEN e ELSE mod.vec[k].elt[j]
    BY DEF Wrote
  <2>2. mod'.secs[i].free = mod.secs[i].free
    BY DEF Wrote, SameFrees
  <2> QED  BY <1>1, <2>1, <2>2, VectorEntries
<1>3. ASSUME NEW j \in 1..Len(mod.vec[k].elt)
      PROVE  \/ mod'.vec[k].elt[j].own = Null
             \/ (mod'.vec[k].elt[j].own = Wild /\ k # Function)
             \/ (mod'.vec[k].elt[j].own = Obj(OwnKind(k), i, j)
                   /\ mod'.vec[k].elt[j].own \in live')
  <2>1. CASE j = item
    BY <1>2, <2>1 DEF HeldEntry
  <2>2. CASE j # item
    BY <1>2, <2>2 DEF VectorHeld
  <2> QED  BY <2>1, <2>2
<1> QED  BY <1>2, <1>3 DEF VectorHeld

LEMMA BegunHeld ==
    ASSUME Typed, IsModule(mod'), NEW k \in Vectors, VectorBegun(k),
           NEW i \in 1..Len(mod.secs), i = at
    PROVE  VectorHeld(k, i)'
<1>1. PICK n \in Nat \ {0} :
          /\ mod'.vec[k].cnt = n /\ Len(mod'.vec[k].elt) = n
          /\ \A j \in 1..n : mod'.vec[k].elt[j]
               = (IF k = Function THEN NoFunc ELSE Unwritten)
  BY DEF VectorBegun
<1>2. /\ mod'.vec[k].arr = Obj("array", i, 0) /\ mod'.vec[k].arr \in live'
      /\ mod'.vec[k].arr # Null
  <2>1. Obj("array", i, 0) # Null
    <3>1. "array" \notin {"NULL", "wild"}
      OBVIOUS
    <3> QED  BY <3>1, NamesGiven
  <2> QED  BY <2>1 DEF VectorBegun, HeapGrew, Array
<1>3. mod'.secs[i].free = IF k = Type THEN 0 ELSE k
  BY DEF VectorBegun
<1>4. DOMAIN mod'.vec[k].elt = 1..n /\ mod'.vec[k].cnt <= Len(mod'.vec[k].elt)
  BY <1>1, VectorEntries
<1>5. NoFunc.own = Null /\ Unwritten.own = Wild
  BY DEF NoFunc, Unwritten
<1>6. \A j \in 1..n : mod'.vec[k].elt[j].own = IF k = Function THEN Null ELSE Wild
  BY <1>1, <1>5
<1> QED  BY <1>1, <1>2, <1>3, <1>4, <1>6 DEF VectorHeld

LEMMA RestsHeld ==
    ASSUME Typed, IsModule(mod'), NEW k \in Vectors, Begins(k), VectorRests(k),
           live \subseteq live', NEW i \in 1..Len(mod.secs), i = at, VectorHeld(k, i), Ahead(i)
    PROVE  VectorHeld(k, i)'
<1>1. /\ mod'.vec[k].elt = mod.vec[k].elt /\ mod'.vec[k].arr \in {mod.vec[k].arr, Null}
      /\ k = Type => mod'.vec[k].arr = Null \/ mod'.vec[k].cnt = 0
      /\ \/ mod'.secs[i].free = mod.secs[i].free
         \/ k = Memory /\ mod'.secs[i].free = Memory
  BY DEF VectorRests
<1>2. mod.secs[i].free = 0
  BY DEF Begins, Parsing, Ahead
<1>3. mod'.secs[i].free # 0 => mod'.secs[i].free = k /\ k = Memory /\ k # Type
  BY <1>1, <1>2 DEF Memory, Type
<1>4. Len(mod.vec[k].elt) \in Nat
  BY VectorEntries, TypedParts DEF Typed
<1> QED  BY <1>1, <1>3, <1>4 DEF VectorHeld

LEMMA GrowHeld ==
    ASSUME ImportsGrow, NEW i \in 1..Len(mod.secs), i = at, ImportsHeld(i), Ahead(i)
    PROVE  ImportsHeld(i)'
<1>1. mod.secs[i].free = 0
  BY DEF ImportsGrow, Counting, Parsing, Ahead
<1>2. mod'.secs[i].free = 0
  BY <1>1 DEF ImportsGrow, SameFrees
<1> QED  BY <1>2 DEF ImportsGrow, ImportsHeld

LEMMA ArraysHeld ==
    ASSUME Typed, ImportsBegun, NEW i \in 1..Len(mod.secs), i = at, ImportsHeld(i)
    PROVE  ImportsHeld(i)'
<1>1. mod'.secs[i].free = Import
  BY DEF ImportsBegun
<1>2. ASSUME NEW k \in Kinds, mod'.imp[k].cnt = 0
      PROVE  mod'.imp[k].arr = Null
  <2>1. CASE mod.imp[k].cnt > 0
    <3>1. mod'.imp[k] = [cnt |-> mod.imp[k].cnt, arr |-> Array(k),
                         elt |-> [j \in 1..mod.imp[k].cnt |-> NoImport]]
      BY <2>1 DEF ImportsBegun
    <3>2. mod'.imp[k].cnt = mod.imp[k].cnt
      BY <3>1
    <3> QED  BY <1>2, <2>1, <3>2
  <2>2. CASE ~(mod.imp[k].cnt > 0)
    BY <1>2, <2>2 DEF ImportsBegun, ImportsHeld
  <2> QED  BY <2>1, <2>2
<1>3. ASSUME NEW k \in Kinds, mod'.imp[k].cnt > 0
      PROVE  /\ mod'.imp[k].arr = Obj("array", i, k) /\ mod'.imp[k].arr \in live'
             /\ Len(mod'.imp[k].elt) = mod'.imp[k].cnt
             /\ \A n \in 1..mod'.imp[k].cnt, p \in 1..3 : ImportHeld(i, k, n, p)'
  <2> DEFINE c == mod.imp[k].cnt
             s == [n \in 1..c |-> NoImport]
  <2>1. mod.imp[k].cnt > 0 /\ c \in Nat
    <3>1. c \in Nat
      BY ImportEntries, TypedParts DEF Typed
    <3>2. ~(mod.imp[k].cnt > 0) => mod'.imp[k] = mod.imp[k]
      BY DEF ImportsBegun
    <3> QED  BY <1>3, <3>1, <3>2
  <2>2. mod'.imp[k] = [cnt |-> c, arr |-> Array(k), elt |-> s]
    BY <2>1 DEF ImportsBegun
  <2>3. mod'.imp[k].cnt = c /\ mod'.imp[k].arr = Array(k) /\ mod'.imp[k].elt = s
    BY <2>2
  <2>4. Array(k) \in live' /\ Array(k) = Obj("array", i, k)
    <3>1. Array(k) = Obj("array", i, k)
      BY DEF Array
    <3>2. Array(k) # Null
      <4>1. "array" \notin {"NULL", "wild"}
        OBVIOUS
      <4> QED  BY <3>1, <4>1, NamesGiven
    <3>3. Array(k) \in {Array(j) : j \in {l \in Kinds : mod.imp[l].cnt > 0}}
      BY <2>1
    <3> QED  BY <3>1, <3>2, <3>3 DEF ImportsBegun, HeapGrew
  <2>5. Len(s) = c /\ \A n \in 1..c : s[n] = NoImport
    <3>1. Len(s) = c
      BY <2>1, SameSeq
    <3> QED  BY <3>1
  <2>6. ASSUME NEW n \in 1..c, NEW p \in 1..3
        PROVE  ImportHeld(i, k, n, p)'
    <3>1. mod'.imp[k].elt[n] = NoImport /\ n # 0
      BY <2>1, <2>3, <2>5
    <3>2. ImportPtr(k, n, p)' = <<NoImport.f, NoImport.mname, NoImport.nsname>>[p]
      BY <3>1 DEF ImportPtr
    <3>3. NoImport.f = Null /\ NoImport.mname = Null /\ NoImport.nsname = Null
      BY DEF NoImport
    <3>4. ImportPtr(k, n, p)' = Null
      BY <3>2, <3>3
    <3> QED  BY <3>4 DEF ImportHeld
  <2> HIDE DEF c, s
  <2> QED  BY <2>3, <2>4, <2>5, <2>6
<1> QED  BY <1>1, <1>2, <1>3 DEF ImportsHeld

\* What the next state has of an import: what it had, or what was stored.
LEMMA StoredPtr ==
    ASSUME Typed, NEW k \in Kinds, NEW e \in ImportRecs, WroteImport(mod', mod, k, nxt[k], e),
           HeldImport(e), NEW q \in Kinds, NEW n \in 1..Len(mod.imp[q].elt), NEW p \in 1..3
    PROVE  IF q = k /\ n = nxt[k]
           THEN \/ ImportPtr(q, n, p)' = Null
                \/ /\ ImportPtr(q, n, p)' = Obj(ImportKind(p), at, item)
                   /\ ImportPtr(q, n, p)' \in live'
           ELSE ImportPtr(q, n, p)' = ImportPtr(q, n, p)
<1>1. n # 0
  BY ImportEntries, TypedParts DEF Typed
<1>2. CASE q = k /\ n = nxt[k]
  <2>1. mod'.imp[q].elt[n] = e
    BY <1>2 DEF WroteImport
  <2>2. ImportPtr(q, n, p)' = <<e.f, e.mname, e.nsname>>[p]
    BY <1>1, <2>1 DEF ImportPtr
  <2>3. \/ p = 1 /\ ImportPtr(q, n, p)' = e.f
        \/ p = 2 /\ ImportPtr(q, n, p)' = e.mname
        \/ p = 3 /\ ImportPtr(q, n, p)' = e.nsname
    BY <2>2
  <2>4. ImportKind(1) = "func" /\ ImportKind(2) = "mname" /\ ImportKind(3) = "nsname"
    BY DEF ImportKind
  <2> QED  BY <1>2, <2>3, <2>4 DEF HeldImport, FuncObj, MnameObj, NsnameObj
<1>3. CASE ~(q = k /\ n = nxt[k])
  <2>1. mod'.imp[q].elt[n] = mod.imp[q].elt[n]
    BY <1>3 DEF WroteImport
  <2>2. ImportPtr(q, n, p)' = ImportPtr(q, n, p)
    BY <1>1, <2>1 DEF ImportPtr
  <2> QED  BY <1>3, <2>2
<1> QED  BY <1>2, <1>3

LEMMA StoredHeld ==
    ASSUME Typed, ImportWrites, live \subseteq live',
           NEW i \in 1..Len(mod.secs), i = at, ImportsHeld(i)
    PROVE  ImportsHeld(i)'
<1>1. PICK k \in Kinds : \E e \in ImportRecs : WroteImport(mod', mod, k, nxt[k], e) /\ HeldImport(e)
  BY DEF ImportWrites
<1>2. PICK e \in ImportRecs : WroteImport(mod', mod, k, nxt[k], e) /\ HeldImport(e)
  BY <1>1
<1>3. /\ pc = "parse" /\ item \in Nat /\ IsModule(mod)
      /\ pc' = "parse" => item' = item + 1
  BY TypedParts DEF Typed, LoopTyped, ImportWrites, Turn, Parsing, NextTurn, GoesOn
<1>4. /\ \A q \in Kinds : /\ mod'.imp[q].cnt = mod.imp[q].cnt /\ mod'.imp[q].arr = mod.imp[q].arr
                          /\ Len(mod'.imp[q].elt) = Len(mod.imp[q].elt)
      /\ mod'.secs[i].free = mod.secs[i].free
  BY <1>2 DEF WroteImport, SameFrees
<1> DEFINE o(q, n, p) == ImportPtr(q, n, p)
<1>5. ASSUME mod.secs[i].free # 0, NEW q \in Kinds, mod.imp[q].cnt > 0,
             NEW n \in 1..mod.imp[q].cnt, NEW p \in 1..3
      PROVE  /\ Len(mod.imp[q].elt) = mod.imp[q].cnt
             /\ ImportHeld(i, q, n, p) /\ o(q, n, p)[3] \in Nat
  <2>1. Len(mod.imp[q].elt) = mod.imp[q].cnt /\ ImportHeld(i, q, n, p)
    BY <1>5 DEF ImportsHeld
  <2> QED  BY <1>3, <1>5, <2>1, ImportPtrTyped
<1>6. ASSUME mod.secs[i].free # 0, NEW q \in Kinds, mod.imp[q].cnt > 0,
             NEW n \in 1..mod.imp[q].cnt, NEW p \in 1..3
      PROVE  IF q = k /\ n = nxt[k]
             THEN \/ ImportPtr(q, n, p)' = Null
                  \/ /\ ImportPtr(q, n, p)' = Obj(ImportKind(p), i, item)
                     /\ ImportPtr(q, n, p)' \in live'
             ELSE /\ ImportPtr(q, n, p)' = o(q, n, p)
                  /\ o(q, n, p) # Null =>
                        /\ o(q, n, p) \in live' /\ o(q, n, p) = Obj(ImportKind(p), i, o(q, n, p)[3])
                        /\ o(q, n, p)[3] < item
                        /\ \A r \in Kinds : \A m \in 1..mod.imp[r].cnt :
                              o(r, m, p) = o(q, n, p) => r = q /\ m = n
  <2>1. ImportHeld(i, q, n, p) /\ n \in 1..Len(mod.imp[q].elt)
    BY <1>5, <1>6
  <2>2. IF q = k /\ n = nxt[k]
        THEN \/ ImportPtr(q, n, p)' = Null
             \/ /\ ImportPtr(q, n, p)' = Obj(ImportKind(p), at, item)
                /\ ImportPtr(q, n, p)' \in live'
        ELSE ImportPtr(q, n, p)' = ImportPtr(q, n, p)
    BY <1>2, <2>1, StoredPtr
  <2>3. o(q, n, p) # Null =>
            /\ o(q, n, p) \in live /\ o(q, n, p) = Obj(ImportKind(p), i, o(q, n, p)[3])
            /\ o(q, n, p)[3] < item
            /\ \A r \in Kinds : \A m \in 1..mod.imp[r].cnt :
                  o(r, m, p) = o(q, n, p) => r = q /\ m = n
    BY <1>3, <2>1 DEF ImportHeld
  <2> QED  BY <2>2, <2>3
<1>7. ASSUME mod.secs[i].free # 0, NEW q \in Kinds, mod.imp[q].cnt > 0,
             NEW n \in 1..mod.imp[q].cnt, NEW p \in 1..3, ImportPtr(q, n, p)' # Null
      PROVE  /\ ImportPtr(q, n, p)' \in live'
             /\ ImportPtr(q, n, p)' = Obj(ImportKind(p), i, ImportPtr(q, n, p)'[3])
             /\ ImportPtr(q, n, p)'[3] \in 0..item
             /\ ImportPtr(q, n, p)'[3] = item <=> (q = k /\ n = nxt[k])
  <2>1. \A w, j : Obj(w, i, j)[3] = j
    BY DEF Obj
  <2>2. CASE q = k /\ n = nxt[k]
    BY <1>3, <1>6, <1>7, <2>1, <2>2
  <2>3. CASE ~(q = k /\ n = nxt[k])
    BY <1>3, <1>5, <1>6, <1>7, <2>3
  <2> QED  BY <2>2, <2>3
<1>8. ASSUME mod.secs[i].free # 0, NEW q \in Kinds, mod.imp[q].cnt > 0,
             NEW n \in 1..mod.imp[q].cnt, NEW p \in 1..3, ImportPtr(q, n, p)' # Null,
             NEW r \in Kinds, NEW m \in 1..mod.imp[r].cnt,
             ImportPtr(r, m, p)' = ImportPtr(q, n, p)'
      PROVE  r = q /\ m = n
  <2>1. mod.imp[r].cnt > 0
    BY <1>3, <1>8, ImportEntries
  <2>2. (q = k /\ n = nxt[k]) <=> (r = k /\ m = nxt[k])
    BY <1>7, <1>8, <2>1
  <2>3. CASE q = k /\ n = nxt[k]
    BY <2>2, <2>3
  <2>4. CASE ~(q = k /\ n = nxt[k])
    BY <1>6, <1>8, <2>1, <2>2, <2>4
  <2> QED  BY <2>3, <2>4
<1>9. ASSUME mod.secs[i].free # 0, NEW q \in Kinds, mod.imp[q].cnt > 0,
             NEW n \in 1..mod.imp[q].cnt, NEW p \in 1..3
      PROVE  ImportHeld(i, q, n, p)'
  <2> SUFFICES ASSUME ImportPtr(q, n, p)' # Null
               PROVE  ImportHeld(i, q, n, p)'
    BY DEF ImportHeld
  <2>1. pc' = "parse" => ImportPtr(q, n, p)'[3] < item'
    BY <1>3, <1>7, <1>9
  <2> QED  BY <1>4, <1>7, <1>8, <1>9, <2>1 DEF ImportHeld
<1>10. ASSUME mod.secs[i].free # 0, NEW q \in Kinds, mod.imp[q].cnt > 0
       PROVE  /\ mod.imp[q].arr = Obj("array", i, q) /\ mod.imp[q].arr \in live'
              /\ Len(mod.imp[q].elt) = mod.imp[q].cnt
  BY <1>10 DEF ImportsHeld
<1> QED  BY <1>4, <1>9, <1>10 DEF ImportsHeld

LEMMA QuietAtImports ==
    ASSUME at \in Nat, QuietTurn, at' = at, Sec.type = Import
    PROVE  item = 0
<1>1. ~NextSection
  BY DEF NextSection
<1>2. Sec.type \notin {Table, Global, Data, Elem}
  BY DEF Import, Table, Global, Data, Elem
<1> QED  BY <1>1, <1>2 DEF QuietTurn

LEMMA AtHeld ==
    ASSUME Typed, ParseStep, NEW i \in 1..Len(mod.secs), i = at, SectionHeld(i), Ahead(i)
    PROVE  SectionHeld(i)'
<1>1. /\ pc = "parse" /\ IsModule(mod) /\ IsModule(mod') /\ SameSections(mod', mod)
      /\ live \subseteq live' /\ Writes
  BY TypedParts DEF Typed, ParseStep, Keeps
<1>2. PICK t : t = mod.secs[i].type
  OBVIOUS
<1>3. /\ mod'.secs[i].type = t /\ Sec.type = t
      /\ \A k : (Turn(k) => k = t) /\ (Begins(k) => k = t) /\ (Parsing(k) => k = t)
  BY <1>1, <1>2 DEF SameSections, Sec, Turn, Begins, Parsing
<1>4. Import \notin Vectors /\ Vectors \subseteq Counted /\ Import \in Counted
  BY DEF Counted, Vectors, Import, Type, Function, Table, Memory, Global, Export, Elem, Data
<1>5. /\ t \in Vectors => VectorHeld(t, i)
      /\ t = Import => ImportsHeld(i)
  BY <1>2 DEF SectionHeld
<1>6. ASSUME t \in Vectors, VectorHeld(t, i)'
      PROVE  SectionHeld(i)'
  BY <1>3, <1>4, <1>6 DEF SectionHeld
<1>7. ASSUME t = Import, ImportsHeld(i)'
      PROVE  SectionHeld(i)'
  BY <1>3, <1>4, <1>7 DEF SectionHeld
<1>8. CASE NothingWritten
  <2>1. /\ mod'.secs[i].free = mod.secs[i].free /\ SameEntries
        /\ pc' = "parse" /\ at' = i /\ t = Import => item = 0
    <3>1. at \in Nat
      BY TypedParts DEF Typed, LoopTyped
    <3> QED  BY <1>3, <1>8, <3>1, QuietAtImports DEF NothingWritten, SameFrees
  <2>2. item = 0 => mod.secs[i].free = 0
    BY <1>1 DEF Ahead
  <2>3. t \in Vectors => SameVector(t)
    BY <2>1 DEF SameVector, SameEntries
  <2>4. mod'.imp = mod.imp
    BY <2>1 DEF SameEntries
  <2> QED  BY <1>1, <1>2, <2>1, <2>2, <2>3, <2>4, HeldStays
<1>9. CASE EntryWrites
  <2>1. PICK k \in Vectors : Turn(k) /\ \E e \in EntriesOf(k) :
                               Wrote(mod', mod, k, e) /\ HeldEntry(k, e)
    BY <1>9, FilledVectors DEF EntryWrites
  <2>2. VectorHeld(k, i)'
    BY <1>1, <1>3, <1>5, <2>1, EntryHeld
  <2> QED  BY <1>3, <1>6, <2>1, <2>2
<1>10. CASE VectorWrites
  <2>1. PICK k \in Vectors : Begins(k) /\ (VectorBegun(k) \/ VectorRests(k))
    BY <1>10 DEF VectorWrites
  <2>2. VectorHeld(k, i)'
    BY <1>1, <1>3, <1>5, <2>1, BegunHeld, RestsHeld
  <2> QED  BY <1>3, <1>6, <2>1, <2>2
<1>11. CASE ImportsGrow
  <2>1. t = Import
    BY <1>3, <1>11 DEF ImportsGrow, Counting
  <2> QED  BY <1>5, <1>7, <1>11, <2>1, GrowHeld
<1>12. CASE Counting /\ ImportsBegun
  <2>1. t = Import
    BY <1>3, <1>12 DEF Counting
  <2> QED  BY <1>5, <1>7, <1>12, <2>1, ArraysHeld
<1>13. CASE ImportWrites
  <2>1. t = Import
    BY <1>3, <1>13 DEF ImportWrites
  <2> QED  BY <1>1, <1>5, <1>7, <1>13, <2>1, StoredHeld
<1> QED  BY <1>1, <1>8, <1>9, <1>10, <1>11, <1>12, <1>13 DEF Writes

-----------------------------------------------------------------------------
(***************************************************************************)
(* A step of fw_module_parse                                               *)
(***************************************************************************)
LEMMA AheadStays ==
    ASSUME Typed, ParseStep, NEW i \in 1..Len(mod.secs), Ahead(i)
    PROVE  Ahead(i)'
<1>1. /\ pc = "parse" /\ SameSections(mod', mod) /\ Writes /\ Onward
      /\ at \in Nat /\ i \in Nat
  <2>1. at \in Nat /\ Len(mod.secs) \in Nat
    BY TypedParts, SectionsOfModule DEF Typed, LoopTyped
  <2> QED  BY <2>1 DEF ParseStep, Keeps
<1>2. CASE pc' # "parse"
  BY <1>2 DEF Ahead
<1>3. CASE pc' = "parse" /\ i # at
  <2>1. mod'.secs[i].free = mod.secs[i].free
    BY <1>1, <1>3, WritesOwn
  <2>2. i < at => ~(i > at') /\ i # at'
    BY <1>1, <1>3 DEF Onward, NextSection
  <2>3. i > at => mod.secs[i].free = 0
    BY <1>1 DEF Ahead
  <2> QED  BY <1>1, <1>3, <2>1, <2>2, <2>3 DEF Ahead
<1>4. CASE pc' = "parse" /\ i = at
  <2>1. CASE NextSection
    BY <1>1, <1>4, <2>1 DEF NextSection, Ahead
  <2>2. CASE at' = at /\ item' # 0
    <3> SUFFICES ASSUME probe' # 0, Sec'.type = Import
                 PROVE  mod'.secs[i].free = 0
      BY <1>1, <1>4, <2>2 DEF Ahead
    <3>1. Sec.type = Import
      BY <1>1, <1>4, <2>2 DEF Sec, SameSections
    <3>2. ~EntryWrites /\ ~VectorWrites
      <4>1. Import \notin Vectors
        BY DEF Vectors, Import, Type, Function, Table, Memory, Global, Export, Elem, Data
      <4>2. \A k : (Turn(k) => k = Import) /\ (Begins(k) => k = Import)
        BY <3>1 DEF Turn, Begins, Parsing
      <4> QED  BY <4>1, <4>2, FilledVectors DEF EntryWrites, VectorWrites
    <3>3. CASE NothingWritten
      <4>1. item = 0 /\ SameFrees(mod', mod)
        BY <1>1, <1>4, <2>2, <3>1, <3>3, QuietAtImports DEF NothingWritten
      <4> QED  BY <1>1, <1>4, <4>1 DEF SameFrees, Ahead
    <3>4. CASE ImportsGrow
      BY <1>1, <1>4, <3>1, <3>4 DEF ImportsGrow, Counting, SameFrees, Ahead
    <3>5. ~ImportsBegun /\ ~ImportWrites
      BY DEF ImportsBegun, ImportWrites
    <3> QED  BY <1>1, <3>2, <3>3, <3>4, <3>5 DEF Writes
  <2> QED  BY <1>1, <1>4, <2>1, <2>2 DEF Onward
<1> QED  BY <1>2, <1>3, <1>4

LEMMA ParseHolds ==
    ASSUME Typed, HoldInv, ParseFile
    PROVE  HoldInv'
<1>1. ParseStep
  BY ParseSteps
<1>2. /\ pc = "parse" /\ IsModule(mod) /\ IsModule(mod') /\ SameSections(mod', mod)
      /\ live \subseteq live' /\ Writes /\ back' = back
      /\ DOMAIN mod.secs = 1..Len(mod.secs) /\ DOMAIN mod'.secs = 1..Len(mod.secs)
      /\ pc' \in {"parse", "detach"} \cup GoneStates
  <2>1. IsModule(mod) /\ DOMAIN mod.secs = 1..Len(mod.secs)
    BY TypedParts, SectionsOfModule DEF Typed
  <2>2. /\ pc = "parse" /\ Control /\ IsModule(mod') /\ SameSections(mod', mod)
        /\ live \subseteq live' /\ Writes /\ back' = back
    BY <1>1 DEF ParseStep, Keeps
  <2>3. pc' \in {"parse", "detach"} \cup GoneStates
    BY <2>2, ControlTyped DEF Typed
  <2> QED  BY <2>1, <2>2, <2>3, SectionsStay
<1>3. back # "done" /\ (Loaded' => Loaded)
  BY <1>2 DEF HoldInv, Loaded, LostStates
<1>4. ASSUME Loaded
      PROVE  /\ {Module, FileData} \subseteq live'
             /\ \A i \in 1..Len(mod.secs) : Ahead(i)' /\ Section(i) \in live'
  <2>1. /\ {Module, FileData} \subseteq live
        /\ \A i \in 1..Len(mod.secs) : Ahead(i) /\ Section(i) \in live
    BY <1>2, <1>4 DEF HoldInv, Left
  <2>2. \A i \in 1..Len(mod.secs) : Ahead(i)'
    BY <1>1, <2>1, AheadStays
  <2> QED  BY <1>2, <2>1, <2>2
<1>5. ASSUME Loaded, NoSectionTwice
      PROVE  /\ SectionsOf(Type) = {} => Types' = Empty
             /\ \A i \in 1..Len(mod.secs) : SectionHeld(i)'
  <2>1. /\ SectionsOf(Type) = {} => Types = Empty
        /\ \A i \in 1..Len(mod.secs) : SectionHeld(i) /\ Ahead(i)
    BY <1>2, <1>5 DEF HoldInv, Left
  <2>2. \A i \in 1..Len(mod.secs) : SectionHeld(i)'
    <3> SUFFICES ASSUME NEW i \in 1..Len(mod.secs) PROVE SectionHeld(i)'
      OBVIOUS
    <3>1. CASE i = at
      BY <1>1, <2>1, <3>1, AtHeld
    <3>2. CASE i # at
      BY <1>1, <1>5, <2>1, <3>2, OthersHeld
    <3> QED  BY <3>1, <3>2
  <2>3. ASSUME SectionsOf(Type) = {} PROVE Types' = Empty
    <3>1. ~Parsing(Type)
      <4> SUFFICES ASSUME Parsing(Type) PROVE FALSE
        OBVIOUS
      <4>1. at \in DOMAIN mod.secs /\ mod.secs[at].type = Type
        <5>1. at \in Nat \ {0} /\ Len(mod.secs) \in Nat
          BY <1>2, TypedParts, SectionsOfModule DEF Typed, LoopTyped
        <5> QED  BY <1>2, <5>1 DEF Parsing, Sec
      <4> QED  BY <2>3, <4>1 DEF SectionsOf
    <3>2. mod'.vec[Type] = mod.vec[Type]
      BY <1>2, <3>1, WritesOwn DEF Vectors
    <3> QED  BY <2>1, <2>3, <3>2 DEF Types
  <2> QED  BY <2>2, <2>3
<1>6. (NoSectionTwice' <=> NoSectionTwice) /\ SectionsOf(Type)' = SectionsOf(Type)
  BY <1>2, SectionsStay
<1>7. pc' \notin {"parse", "detach"} => ~Loaded'
  BY <1>2 DEF Loaded, GoneStates, LostStates
<1> QED  BY <1>2, <1>3, <1>4, <1>5, <1>6, <1>7 DEF HoldInv, HalfParsedFreed

-----------------------------------------------------------------------------
(***************************************************************************)
(* The steps that parse nothing and free nothing                           *)
(***************************************************************************)
LEMMA SameVectors ==
    ASSUME mod'.vec = mod.vec
    PROVE  \A k \in Vectors : SameVector(k)
BY DEF SameVector

LEMMA BareHeld ==
    ASSUME IsModule(mod), Bare(mod), NEW i \in 1..Len(mod.secs)
    PROVE  SectionHeld(i)
<1>1. mod.secs[i].free = 0
  BY SectionsOfModule DEF Bare
<1>2. /\ Empty.arr = Null /\ Empty.elt = << >> /\ Empty.cnt = 0
      /\ DOMAIN Empty.elt = {}
  <2>1. Empty.arr = Null /\ Empty.elt = << >> /\ Empty.cnt = 0
    BY DEF Empty
  <2>2. DOMAIN << >> = {}
    OBVIOUS
  <2> QED  BY <2>1, <2>2
<1>3. /\ \A k \in Vectors : mod.vec[k] = Empty
      /\ \A k \in Kinds : mod.imp[k] = Empty
  BY EmptyModule DEF Bare
<1>4. \A k \in Vectors : VectorHeld(k, i)
  BY <1>1, <1>2, <1>3 DEF VectorHeld
<1>5. ImportsHeld(i)
  BY <1>1, <1>2, <1>3 DEF ImportsHeld
<1> QED  BY <1>1, <1>4, <1>5 DEF SectionHeld

LEMMA StartHolds ==
    ASSUME Typed, LoadInv, SplitEnds, pc' = "parse", back' = back
    PROVE  HoldInv'
<1>1. /\ pc = "sections" /\ back = "none" /\ live = Loading(1) /\ Bare(mod)
      /\ mod' = mod /\ live' = live
  BY DEF SplitEnds, LoadInv, Bare
<1>2. /\ IsModule(mod) /\ IsModule(mod') /\ SameSections(mod', mod)
      /\ DOMAIN mod.secs = 1..Len(mod.secs)
  BY <1>1, TypedParts, SameModule, SectionsOfModule DEF Typed, Keeps
<1>3. \A i \in 1..Len(mod.secs) : mod.secs[i].free = 0
  BY <1>1, <1>2 DEF Bare
<1>4. ASSUME NEW i \in 1..Len(mod.secs) PROVE SectionHeld(i)'
  <2>1. SectionHeld(i)
    BY <1>1, <1>2, BareHeld
  <2>2. mod.secs[i].type \in Vectors => SameVector(mod.secs[i].type)
    BY <1>1, SameVectors
  <2>3. mod.secs[i].free = 0
    BY <1>3
  <2> QED  BY <1>1, <1>2, <2>1, <2>2, <2>3, HeldStays
<1>5. Types' = Empty
  BY <1>1, EmptyModule DEF Bare, Types, Vectors
<1>6. /\ {Module, FileData} \subseteq live'
      /\ \A i \in 1..Len(mod.secs) : Section(i) \in live' /\ Ahead(i)'
  <2>1. {Module, FileData} \subseteq live'
    BY <1>1 DEF Loading
  <2>2. \A i \in 1..Len(mod.secs) : Section(i) \in live'
    BY <1>1 DEF Loading
  <2>3. \A i \in 1..Len(mod.secs) : Ahead(i)'
    BY <1>1, <1>3 DEF Ahead
  <2> QED  BY <2>1, <2>2, <2>3
<1> QED  BY <1>1, <1>2, <1>4, <1>5, <1>6 DEF HoldInv, HalfParsedFreed

\* A module that is loaded, and stays so.
LEMMA KeptHolds ==
    ASSUME Typed, HoldInv, Loaded, pc # "free", pc' # "parse",
           IsModule(mod'), mod'.secs = mod.secs, mod'.imp = mod.imp,
           \A k \in Vectors : SameVector(k), mod'.vec[Type] = mod.vec[Type],
           live \ {FileObj} \subseteq live', mod'.filedata = FileData,
           back' = "done" => pc' = "free"
    PROVE  HoldInv'
<1>1. /\ IsModule(mod) /\ SameSections(mod', mod)
      /\ DOMAIN mod.secs = 1..Len(mod.secs) /\ DOMAIN mod'.secs = 1..Len(mod.secs)
      /\ NoSectionTwice' <=> NoSectionTwice
      /\ SectionsOf(Type)' = SectionsOf(Type)
  <2>1. IsModule(mod)
    BY TypedParts DEF Typed
  <2>2. SameSections(mod', mod)
    BY DEF SameSections
  <2> QED  BY <2>1, <2>2, SectionsOfModule, SectionsStay
<1>2. /\ {Module, FileData} \subseteq live
      /\ \A i \in 1..Len(mod.secs) : Section(i) \in live
      /\ NoSectionTwice =>
            /\ SectionsOf(Type) = {} => Types = Empty
            /\ \A i \in 1..Len(mod.secs) : SectionHeld(i)
  BY <1>1 DEF HoldInv, Left
<1>3. /\ {Module, FileData} \subseteq live'
      /\ \A i \in 1..Len(mod.secs) : Section(i) \in live'
  BY <1>2, SectionNames
<1>4. \A i : Ahead(i)'
  BY DEF Ahead
<1>5. ASSUME NoSectionTwice, NEW i \in 1..Len(mod.secs)
      PROVE  SectionHeld(i)'
  <2>1. live \cap Of(i) \subseteq live'
    BY NotOf
  <2>2. SectionHeld(i) /\ mod'.secs[i].free = mod.secs[i].free
    BY <1>2, <1>5
  <2> QED  BY <1>1, <2>1, <2>2, HeldStays
<1>6. Types = Empty => Types' = Empty
  BY DEF Types
<1> QED  BY <1>1, <1>2, <1>3, <1>4, <1>5, <1>6 DEF HoldInv, HalfParsedFreed, LostStates

\* One that is not, or not any more.
LEMMA NothingHeld ==
    ASSUME back' # "done", ~Loaded'
    PROVE  HoldInv'
BY DEF HoldInv, HalfParsedFreed

LEMMA UnendedHolds ==
    ASSUME HoldInv, NumberUnended
    PROVE  HoldInv'
<1>1. pc' \in {"hung", "overread"} /\ pc \in {"sections", "parse"} /\ back' = back
  BY NumberLost DEF loaderVars
<1>2. back # "done"
  BY <1>1 DEF HoldInv, LostStates
<1> QED  BY <1>1, <1>2, NothingHeld DEF Loaded

LEMMA LoadHolds ==
    ASSUME Typed, LoadInv, HoldInv, LoadFile
    PROVE  HoldInv'
<1>1. CASE OpenFails \/ ReadFails \/ ReadFile \/ BadHeader \/ NewModule
  <2>1. /\ pc \in {"open", "header"} /\ back' = back
        /\ pc' \in {"load_null", "header", "close", "sections"}
    BY <1>1 DEF OpenFails, ReadFails, ReadFile, BadHeader, NewModule, loaderVars
  <2>2. back' # "done" /\ ~Loaded'
    BY <2>1 DEF HoldInv, LostStates, Loaded
  <2> QED  BY <2>2, NothingHeld
<1>2. CASE SplitSection
  <2>1. pc = "sections" /\ ((pc' = "free" /\ back' = "close") \/ (pc' = pc /\ back' = back))
    BY <1>2 DEF SplitSection, LoadFails
  <2>2. back' # "done" /\ ~Loaded'
    BY <2>1 DEF HoldInv, LostStates, Loaded
  <2> QED  BY <2>2, NothingHeld
<1>3. CASE SplitEnds
  <2>1. CASE pc' = "parse" /\ back' = back
    BY <1>3, <2>1, StartHolds
  <2>2. CASE pc' = "free" /\ back' = "close"
    <3>1. back' # "done" /\ ~Loaded'
      BY <2>2 DEF Loaded
    <3> QED  BY <3>1, NothingHeld
  <2> QED  BY <1>3, <2>1, <2>2 DEF SplitEnds, LoadFails
<1>4. CASE CloseFile
  <2>1. pc = "close" /\ pc' = "load_null" /\ back' = back
    BY <1>4 DEF CloseFile, loaderVars
  <2>2. back' # "done" /\ ~Loaded'
    BY <2>1 DEF HoldInv, LostStates, Loaded
  <2> QED  BY <2>2, NothingHeld
<1>5. CASE Detach
  <2>1. /\ pc = "detach" /\ pc' = "loaded" /\ back' = back /\ live \ {FileObj} \subseteq live'
        /\ mod' = [mod EXCEPT !.filedata = FileData]
    <3>1. Range(<<FileObj>>) = {FileObj}
      BY DEF Range
    <3> QED  BY <1>5, <3>1 DEF Detach, Without
  <2>2. back # "done" /\ Loaded
    BY <2>1, LoadOver DEF HoldInv, LostStates, Loaded
  <2>3. /\ IsModule(mod') /\ mod'.secs = mod.secs /\ mod'.vec = mod.vec /\ mod'.imp = mod.imp
        /\ mod'.filedata = FileData
    <3>1. IsModule(mod) /\ mod.instance \in {Null, Instance} /\ FileData \in {Null, FileData}
      BY TypedParts DEF Typed, IsModule
    <3>2. LET q == WithPtrs(mod, FileData, mod.instance) IN
           /\ IsModule(q) /\ q.secs = mod.secs /\ q.vec = mod.vec /\ q.imp = mod.imp
           /\ q.code = mod.code /\ q.filedata = FileData /\ q.instance = mod.instance
      BY <3>1, PtrsSet
    <3>3. mod' = WithPtrs(mod, FileData, mod.instance)
      BY <2>1, <3>1 DEF WithPtrs, IsModule
    <3> QED  BY <3>2, <3>3
  <2>4. \A k \in Vectors : SameVector(k)
    BY <2>3, SameVectors
  <2> QED  BY <2>1, <2>2, <2>3, <2>4, KeptHolds
<1> QED  BY <1>1, <1>2, <1>3, <1>4, <1>5 DEF LoadFile

\* The compilation writes the address of the instance, and the functions of
\* the exports.
CompileKeeps ==
    /\ live \subseteq live' /\ IsModule(mod') /\ mod'.secs = mod.secs /\ mod'.imp = mod.imp
    /\ mod'.filedata = mod.filedata
    /\ \A k \in Vectors \ {Export} : mod'.vec[k] = mod.vec[k]
    /\ \A k \in Vectors : SameVector(k)

LEMMA ModuleKept ==
    ASSUME Typed, mod' = mod, live \subseteq live'
    PROVE  CompileKeeps
<1>1. IsModule(mod')
  BY TypedParts DEF Typed, IsModule
<1>2. \A k \in Vectors : SameVector(k)
  BY SameVectors
<1> QED  BY <1>1, <1>2 DEF CompileKeeps

LEMMA CompileKept ==
    ASSUME Typed, CompileNext
    PROVE  CompileKeeps
<1>1. IsModule(mod)
  BY TypedParts DEF Typed
<1>2. \A ptrs : Mallocs(ptrs) => live \subseteq live'
  BY DEF Mallocs
<1>3. CASE CompileBegins
  <2>1. /\ live \subseteq live'
        /\ mod' = mod \/ mod' = [mod EXCEPT !.instance = Instance]
    <3>1. CASE mod.instance # Null
      BY <1>3, <3>1 DEF CompileBegins
    <3>2. CASE Mallocs(<<Null>>) /\ mod' = mod
      BY <1>2, <3>2
    <3>3. CASE \E a \in Answer(FuncTable) :
                 /\ Mallocs(<<Instance>>) \/ Mallocs(<<Instance, a>>)
                 /\ mod' = [mod EXCEPT !.instance = Instance]
      BY <1>2, <3>3
    <3> QED  BY <1>3, <3>1, <3>2, <3>3 DEF CompileBegins
  <2>2. CASE mod' = [mod EXCEPT !.instance = Instance]
    <3>1. mod' = WithPtrs(mod, mod.filedata, Instance)
      BY <1>1, <2>2 DEF WithPtrs, IsModule
    <3>2. mod.filedata \in {Null, FileData} /\ Instance \in {Null, Instance}
      BY <1>1 DEF IsModule
    <3>3. LET q == WithPtrs(mod, mod.filedata, Instance) IN
           /\ IsModule(q) /\ q.secs = mod.secs /\ q.vec = mod.vec /\ q.imp = mod.imp
           /\ q.code = mod.code /\ q.filedata = mod.filedata /\ q.instance = Instance
      BY <1>1, <3>2, PtrsSet
    <3>4. \A k \in Vectors : SameVector(k)
      BY <3>1, <3>3, SameVectors
    <3> QED  BY <2>1, <3>1, <3>3, <3>4 DEF CompileKeeps
  <2> QED  BY <2>1, <2>2, ModuleKept
<1>4. CASE ResolveImport \/ TableOwn \/ CompileEnds
  <2>1. live' = live /\ mod' = mod
    BY <1>4 DEF ResolveImport, TableOwn, CompileEnds, loaderVars
  <2> QED  BY <2>1, ModuleKept
<1>5. CASE BindExport
  <2>1. IsModule(mod') /\ live' = live
    BY <1>5, CompileSteps DEF Compiles, CompileNext, BindExport
  <2>2. PICK idx \in IndexOf(Exports.elt[turn]) :
          \/ mod' = mod
          \/ mod' = Bound(mod, turn, idx + 1)
    BY <1>5 DEF BindExport, Bound
  <2>3. CASE mod' = mod
    BY <2>1, <2>3, ModuleKept
  <2>4. CASE mod' = Bound(mod, turn, idx + 1)
    <3>1. turn \in 1..Len(mod.vec[Export].elt) => idx + 1 \in Nat
      <4> SUFFICES ASSUME turn \in 1..Len(mod.vec[Export].elt) PROVE idx + 1 \in Nat
        OBVIOUS
      <4>1. Exports.elt[turn] \in EntryRecs
        <5>1. Export \in Vectors /\ Export # Function
          BY DEF Vectors, Export, Function
        <5> QED  BY <1>1, <5>1, VectorEntries DEF Exports, EntriesOf
      <4>2. Exports.elt[turn].idx \in Nat \cup {-1}
        BY <4>1 DEF EntryRecs
      <4>3. Len(funcs) \in Nat
        BY TypedParts, LenProperties DEF Typed, InstanceTyped
      <4>4. idx \in Nat
        BY <4>2, <4>3 DEF IndexOf
      <4> QED  BY <4>4
    <3>2. LET q == Bound(mod, turn, idx + 1) IN
           /\ IsModule(q) /\ q.secs = mod.secs /\ q.code = mod.code
           /\ q.filedata = mod.filedata /\ q.instance = mod.instance /\ q.imp = mod.imp
           /\ \A j \in Vectors \ {Export} : q.vec[j] = mod.vec[j]
           /\ q.vec[Export].cnt = mod.vec[Export].cnt /\ q.vec[Export].arr = mod.vec[Export].arr
           /\ Len(q.vec[Export].elt) = Len(mod.vec[Export].elt)
           /\ \A j \in 1..Len(mod.vec[Export].elt) :
                 q.vec[Export].elt[j].own = mod.vec[Export].elt[j].own
      BY <1>1, <3>1, ExportBound
    <3>3. \A k \in Vectors : SameVector(k)
      BY <2>4, <3>2 DEF SameVector
    <3> QED  BY <2>1, <2>4, <3>2, <3>3 DEF CompileKeeps
  <2> QED  BY <2>2, <2>3, <2>4
<1> QED  BY <1>3, <1>4, <1>5 DEF CompileNext

\* Where the compilation and the run may lead.
InstanceStates == GoneStates \cup {"resolve", "exports", "compiled", "succeeded", "failed", "exit"}

LEMMA InstanceGoes ==
    ASSUME Typed, InstanceStep
    PROVE  /\ pc \in {"compile", "resolve", "exports", "run"} /\ pc' \in InstanceStates
           /\ UNCHANGED <<cells, nxt, parsed, back, item, given>>
<1>1. CASE CompileNext
  <2>1. /\ pc \in {"compile", "resolve", "exports"}
        /\ UNCHANGED <<cells, nxt, parsed, back, item>>
    BY <1>1 DEF CompileNext, CompileBegins, ResolveImport, TableOwn, BindExport,
                CompileEnds, LoaderRests, loaderVars
  <2> QED  BY <1>1, <2>1, CompileSteps DEF Compiles, InstanceStates, InstanceStep
<1>2. CASE Run(Main)
  BY <1>2, RunSteps DEF Run, loaderVars, InstanceStates, GoneStates, InstanceStep
<1> QED  BY <1>1, <1>2 DEF InstanceStep

\* A run adds to the heap, whatever it may be lost by.
LEMMA RunAdds ==
    ASSUME Typed, Run(Main)
    PROVE  live \subseteq live' /\ live' \subseteq live \cup RunObjs /\ fails' <= fails
<1>1. HeapTyped
  BY TypedParts DEF Typed
<1>2. UNCHANGED <<live, fails>> \/ \E k : RunFunc(k)
  BY DEF Run
<1>3. fails' = fails => fails' <= fails
  BY <1>1 DEF HeapTyped
<1>4. ASSUME NEW k, RunFunc(k)
      PROVE  live \subseteq live' /\ live' \subseteq live \cup RunObjs /\ fails' <= fails
  BY <1>1, <1>4, RunHeap
<1> QED  BY <1>2, <1>3, <1>4

LEMMA InstanceKeeps ==
    ASSUME Typed, InstanceStep
    PROVE  CompileKeeps
<1>1. CASE Run(Main)
  <2>1. mod' = mod
    BY <1>1 DEF Run, loaderVars
  <2> QED  BY <1>1, <2>1, RunAdds, ModuleKept
<1> QED  BY <1>1, CompileKept DEF InstanceStep

LEMMA InstanceHolds ==
    ASSUME Typed, LoadInv, HoldInv, InstanceStep
    PROVE  HoldInv'
<1>1. /\ pc \in {"compile", "resolve", "exports", "run"} /\ back' = back
      /\ pc' \in InstanceStates
  BY InstanceGoes
<1>2. CompileKeeps
  BY InstanceKeeps
<1>3. Loaded /\ back # "done" /\ mod.filedata = FileData
  BY <1>1, LoadOver DEF HoldInv, Loaded, LostStates
<1>4. mod'.vec[Type] = mod.vec[Type]
  BY <1>2 DEF CompileKeeps, Vectors, Type, Export
<1> QED  BY <1>1, <1>2, <1>3, <1>4, KeptHolds DEF CompileKeeps, InstanceStates, GoneStates, LostStates

LEMMA DriverHolds ==
    ASSUME Typed, LoadInv, HoldInv,
           LoadedNothing \/ LoadedModule \/ RegisterNext \/ RegisteredAll
             \/ Compiled \/ GivesUp \/ Succeeds
    PROVE  HoldInv'
<1>1. CASE LoadedNothing \/ Succeeds
  <2>1. pc \in {"load_null", "succeeded"} /\ back' = back /\ pc' \in {"crash", "done"}
    BY <1>1 DEF LoadedNothing, Succeeds, loaderVars
  <2>2. back' # "done" /\ ~Loaded'
    BY <2>1 DEF HoldInv, LostStates, Loaded
  <2> QED  BY <2>2, NothingHeld
<1>2. CASE LoadedModule \/ RegisterNext \/ RegisteredAll \/ Compiled \/ GivesUp
  <2>1. /\ pc \in {"loaded", "register", "compiled", "failed"} /\ mod' = mod
        /\ \/ back' = back /\ pc' \in {"register", "compile", "run", "crash"}
           \/ back' = "done" /\ pc' = "free"
    <3>1. CASE RegisterNext
      BY <3>1, RegisterHeap DEF RegisterNext, loaderVars
    <3>2. CASE LoadedModule
      BY <3>2 DEF LoadedModule, NewWrap, loaderVars
    <3>3. CASE RegisteredAll \/ Compiled \/ GivesUp
      BY <3>3 DEF RegisteredAll, Compiled, GivesUp, loaderVars
    <3> QED  BY <1>2, <3>1, <3>2, <3>3
  <2>2. live \subseteq live'
    <3>1. CASE RegisterNext
      BY <3>1 DEF RegisterNext, AddFunc, AddGlobal, Mallocs
    <3>2. CASE LoadedModule
      BY <3>2 DEF LoadedModule, NewWrap, Mallocs
    <3>3. CASE RegisteredAll \/ Compiled \/ GivesUp
      BY <3>3 DEF RegisteredAll, Compiled, GivesUp
    <3> QED  BY <1>2, <3>1, <3>2, <3>3
  <2>3. Loaded /\ back # "done" /\ mod.filedata = FileData
    BY <2>1, LoadOver DEF HoldInv, Loaded, LostStates
  <2>4. CompileKeeps
    BY <2>1, <2>2, ModuleKept
  <2> QED  BY <2>1, <2>3, <2>4, KeptHolds DEF CompileKeeps
<1> QED  BY <1>1, <1>2

-----------------------------------------------------------------------------
(***************************************************************************)
(* What may be handed to fw_free                                           *)
(***************************************************************************)
LEMMA FreeableBoth ==
    ASSUME NEW S, NEW s \in Seq(S), NEW t \in Seq(S), Freeable(s), Freeable(t),
           Range(s) \cap Range(t) \subseteq {Null}
    PROVE  Freeable(s \o t)
<1> DEFINE st == s \o t
<1>1. /\ Len(s) \in Nat /\ DOMAIN s = 1..Len(s) /\ Len(t) \in Nat /\ DOMAIN t = 1..Len(t)
      /\ st \in Seq(S) /\ Len(st) = Len(s) + Len(t) /\ DOMAIN st = 1..(Len(s) + Len(t))
      /\ \A i \in 1..(Len(s) + Len(t)) : st[i] = IF i <= Len(s) THEN s[i] ELSE t[i - Len(s)]
  <2>1. /\ Len(s) \in Nat /\ DOMAIN s = 1..Len(s) /\ Len(t) \in Nat /\ DOMAIN t = 1..Len(t)
    BY LenProperties
  <2>2. /\ st \in Seq(S) /\ Len(st) = Len(s) + Len(t)
        /\ \A i \in 1..(Len(s) + Len(t)) : st[i] = IF i <= Len(s) THEN s[i] ELSE t[i - Len(s)]
    BY ConcatProperties
  <2>3. DOMAIN st = 1..Len(st)
    BY <2>2, LenProperties
  <2> QED  BY <2>1, <2>2, <2>3
<1>2. Range(st) \subseteq live \cup {Null}
  <2>1. Range(st) = Range(s) \cup Range(t)
    BY RangeConcatenation
  <2> QED  BY <2>1 DEF Freeable
<1> HIDE DEF st
<1>3. ASSUME NEW i \in DOMAIN st, NEW j \in DOMAIN st, st[i] = st[j], st[i] # Null
      PROVE  i = j
  <2>1. CASE i <= Len(s) /\ j <= Len(s)
    <3>1. i \in DOMAIN s /\ j \in DOMAIN s /\ s[i] = s[j] /\ s[i] # Null
      BY <1>1, <1>3, <2>1
    <3> QED  BY <3>1 DEF Freeable
  <2>2. CASE i > Len(s) /\ j > Len(s)
    <3>1. /\ i - Len(s) \in DOMAIN t /\ j - Len(s) \in DOMAIN t
          /\ t[i - Len(s)] = t[j - Len(s)] /\ t[i - Len(s)] # Null
      BY <1>1, <1>3, <2>2
    <3>2. i - Len(s) = j - Len(s)
      BY <3>1 DEF Freeable
    <3> QED  BY <1>1, <3>2
  <2>3. ASSUME NEW l \in DOMAIN st, NEW r \in DOMAIN st, l <= Len(s), r > Len(s),
               st[l] = st[r], st[l] # Null
        PROVE  FALSE
    <3>1. l \in DOMAIN s /\ r - Len(s) \in DOMAIN t /\ s[l] = t[r - Len(s)] /\ s[l] # Null
      BY <1>1, <2>3
    <3>2. s[l] \in Range(s) /\ t[r - Len(s)] \in Range(t)
      BY <3>1 DEF Range
    <3> QED  BY <3>1, <3>2
  <2> QED  BY <1>1, <1>3, <2>1, <2>2, <2>3
<1> QED  BY <1>2, <1>3 DEF Freeable, st

LEMMA OneElement ==
    ASSUME NEW S, NEW a \in S
    PROVE  <<a>> \in Seq(S) /\ DOMAIN <<a>> = {1} /\ <<a>>[1] = a /\ Range(<<a>>) = {a}
<1>1. <<a>> \in Seq(S) /\ DOMAIN <<a>> = {1} /\ <<a>>[1] = a
  OBVIOUS
<1> QED  BY <1>1 DEF Range

LEMMA NotBeyond ==
    \A n, m \in Nat : ~(n > m) => n <= m /\ 1..n \subseteq 1..m /\ 1..n \subseteq Nat
OBVIOUS

\* The first n entries of a vector own objects of section i.
OwnersLive(k, i, n) ==
    \A j \in 1..n : LET o == mod.vec[k].elt[j].own
                    IN o = Null \/ (o = Obj(OwnKind(k), i, j) /\ o \in live)

LEMMA OwnedSeq ==
    ASSUME IsModule(mod), NEW k \in Vectors, NEW n \in Nat, n <= Len(mod.vec[k].elt)
    PROVE  /\ Owned(k, n) \in Seq(Ptrs) /\ DOMAIN Owned(k, n) = 1..n
           /\ \A j \in 1..n : Owned(k, n)[j] = mod.vec[k].elt[j].own
           /\ mod.vec[k].arr \in Ptrs
<1>1. \A j \in 1..n : mod.vec[k].elt[j].own \in Ptrs
  <2>1. \A j \in 1..Len(mod.vec[k].elt) : mod.vec[k].elt[j] \in EntriesOf(k)
    BY VectorEntries
  <2>2. \A e \in EntriesOf(k) : e.own \in Ptrs
    BY DEF EntriesOf, FuncRecs, EntryRecs
  <2>3. Len(mod.vec[k].elt) \in Nat
    BY VectorEntries
  <2> QED  BY <2>1, <2>2, <2>3
<1>2. Owned(k, n) \in Seq(Ptrs)
  BY <1>1, IsASeq DEF Owned
<1>3. mod.vec[k].arr \in Ptrs
  BY DEF IsModule, VecRecs
<1> QED  BY <1>2, <1>3 DEF Owned

LEMMA OwnedFreeable ==
    ASSUME IsModule(mod), NEW k \in Vectors, NEW n \in Nat, n <= Len(mod.vec[k].elt),
           NEW i, OwnersLive(k, i, n)
    PROVE  /\ Freeable(Owned(k, n))
           /\ \A o \in Range(Owned(k, n)) :
                 o = Null \/ \E j \in 1..n : o = Obj(OwnKind(k), i, j)
<1>1. DOMAIN Owned(k, n) = 1..n /\ \A j \in 1..n : Owned(k, n)[j] = mod.vec[k].elt[j].own
  BY OwnedSeq
<1> DEFINE s == Owned(k, n)
<1> HIDE DEF s
<1>2. \A j \in DOMAIN s : s[j] = Null \/ (s[j] = Obj(OwnKind(k), i, j) /\ s[j] \in live)
  BY <1>1 DEF OwnersLive, s
<1>3. Range(s) \subseteq live \cup {Null}
  BY <1>2 DEF Range
<1>4. \A l, j \in DOMAIN s : s[l] = s[j] => l = j \/ s[l] = Null
  BY <1>2, ObjParts
<1>5. \A o \in Range(s) : o = Null \/ \E j \in 1..n : o = Obj(OwnKind(k), i, j)
  BY <1>1, <1>2 DEF Range, s
<1> QED  BY <1>3, <1>4, <1>5 DEF Freeable, s

\* A vector, entries and array.
LEMMA VectorFreeable ==
    ASSUME IsModule(mod), NEW k \in Vectors, NEW n \in Nat, n <= Len(mod.vec[k].elt),
           NEW i, OwnersLive(k, i, n),
           mod.vec[k].arr # Null => mod.vec[k].arr = Obj("array", i, 0) /\ mod.vec[k].arr \in live
    PROVE  Freeable(Owned(k, n) \o <<mod.vec[k].arr>>)
<1> DEFINE s == Owned(k, n)
           a == mod.vec[k].arr
<1>1. s \in Seq(Ptrs) /\ a \in Ptrs
  BY OwnedSeq
<1>2. /\ Freeable(s)
      /\ \A o \in Range(s) : o = Null \/ \E j \in 1..n : o = Obj(OwnKind(k), i, j)
  BY OwnedFreeable
<1>3. OwnKind(k) # "array"
  BY DEF OwnKind
<1>4. a # Null => a = Obj("array", i, 0) /\ a \in live
  OBVIOUS
<1> HIDE DEF s, a
<1>5. /\ Freeable(<<a>>) /\ <<a>> \in Seq(Ptrs) /\ Range(<<a>>) = {a}
  <2>1. <<a>> \in Seq(Ptrs) /\ DOMAIN <<a>> = {1} /\ <<a>>[1] = a /\ Range(<<a>>) = {a}
    BY <1>1, OneElement
  <2> QED  BY <1>4, <2>1 DEF Freeable
<1>6. Range(s) \cap Range(<<a>>) \subseteq {Null}
  BY <1>2, <1>3, <1>4, <1>5, ObjParts
<1>7. Freeable(s \o <<a>>)
  BY <1>1, <1>2, <1>5, <1>6, FreeableBoth
<1> QED  BY <1>7 DEF s, a

-----------------------------------------------------------------------------
(***************************************************************************)
(* The free handlers                                                       *)
(***************************************************************************)
LEMMA TurnsOf ==
    ASSUME NEW k
    PROVE  /\ k \in {Function, Elem} => FreeTurns(k) = mod.vec[Function].cnt
           /\ k = Export => FreeTurns(k) = mod.vec[Export].cnt
           /\ k \notin {Function, Export, Elem} => FreeTurns(k) = 0
<1>1. Export # Function /\ Export # Elem
  BY DEF Export, Function, Elem
<1> QED  BY <1>1 DEF FreeTurns

LEMMA TurnsTyped ==
    ASSUME IsModule(mod), NEW k \in Vectors
    PROVE  FreeTurns(k) \in Nat
<1>1. {Function, Export} \subseteq Vectors
  BY DEF Vectors
<1>2. mod.vec[Function].cnt \in Nat /\ mod.vec[Export].cnt \in Nat
  BY <1>1, VectorEntries
<1> QED  BY <1>2, TurnsOf

\* What was written of a vector is what its section still holds.
LEMMA OwnersHeld ==
    ASSUME IsModule(mod), EntriesWritten, NEW k \in {Type, Function, Export, Elem}, NEW i,
           VectorHeld(k, i), NEW n \in Nat, n <= Len(mod.vec[k].elt)
    PROVE  OwnersLive(k, i, n)
<1>1. k \in Vectors
  BY DEF Vectors
<1>2. \A j \in 1..n : j \in DOMAIN mod.vec[k].elt
  BY <1>1, VectorEntries
<1>3. \A j \in 1..n : mod.vec[k].elt[j].own = Wild => k = Function
  BY <1>2 DEF EntriesWritten
<1> QED  BY <1>2, <1>3 DEF VectorHeld, OwnersLive

LEMMA NoVectorTrouble ==
    ASSUME IsModule(mod), EntriesWritten, NEW k \in Vectors, NEW i,
           VectorHeld(k, i), mod.secs[i].free # 0
    PROVE  VectorTrouble(k) = ""
<1> DEFINE n == FreeTurns(k)
           v == mod.vec[k]
<1>1. /\ n \in Nat /\ Len(v.elt) \in Nat /\ v.cnt \in Nat /\ mod.vec[Function].cnt \in Nat
      /\ DOMAIN v.elt = 1..Len(v.elt)
  BY TurnsTyped, VectorEntries DEF Vectors
<1>2. /\ v.arr # Null => v.arr = Obj("array", i, 0) /\ v.arr \in live
      /\ k # Memory => v.arr # Null /\ Len(v.elt) = v.cnt /\ v.cnt > 0
      /\ k # Type
  BY DEF VectorHeld
<1>3. n # 0 => k \in {Function, Export, Elem}
  BY TurnsOf
<1>a. Memory \notin {Function, Export, Elem}
  BY DEF Memory, Function, Export, Elem
<1>4. n <= Len(v.elt) /\ (n > 0 => v.arr # Null)
  <2>1. CASE k \in {Function, Export}
    <3>1. n = v.cnt
      BY <2>1, TurnsOf
    <3> HIDE DEF n, v
    <3>2. k # Memory
      BY <1>a, <2>1
    <3> QED  BY <1>1, <1>2, <3>1, <3>2
  <2>2. CASE k = Elem
    <3>1. k # Memory /\ n = OwnFuncs.cnt
      BY <1>a, <2>2, TurnsOf DEF OwnFuncs
    <3>2. v.cnt > 0 => Len(v.elt) >= OwnFuncs.cnt
      BY <2>2 DEF EntriesWritten
    <3> QED  BY <1>1, <1>2, <3>1, <3>2
  <2>3. CASE n = 0
    BY <1>1, <2>3
  <2> QED  BY <1>3, <2>1, <2>2, <2>3
<1>5. ArrayTrouble(v, n) = ""
  BY <1>1, <1>2, <1>4 DEF ArrayTrouble, Reads
<1>6. ~UnreadyFunc(k)
  <2> SUFFICES ASSUME k = Function, NEW j \in 1..n PROVE mod.vec[k].elt[j].ready
    BY DEF UnreadyFunc
  <2>1. j \in DOMAIN v.elt
    BY <1>1, <1>4
  <2> QED  BY <2>1 DEF EntriesWritten, OwnFuncs
<1>7. OwnersLive(k, i, n)
  <2>1. CASE n = 0
    BY <2>1 DEF OwnersLive
  <2>2. CASE n # 0
    BY <1>1, <1>3, <1>4, <2>2, OwnersHeld
  <2> QED  BY <2>1, <2>2
<1>8. Freeable(FreedVector(k))
  BY <1>1, <1>2, <1>4, <1>7, VectorFreeable DEF FreedVector
<1> QED  BY <1>5, <1>6, <1>8 DEF VectorTrouble

\* Whatever a free handler of a vector gives back is a pointer of the module,
\* and if the section holds the vector, one of its own.
LEMMA FreedByVector ==
    ASSUME IsModule(mod), NEW k \in Vectors, VectorTrouble(k) = ""
    PROVE  /\ FreedVector(k) \in Seq(Ptrs)
           /\ \A i : VectorHeld(k, i) => Range(FreedVector(k)) \subseteq Of(i) \cup {Null, Wild}
<1> DEFINE n == FreeTurns(k)
           s == Owned(k, n)
           a == mod.vec[k].arr
<1> HIDE DEF n
<1>1. /\ n \in Nat /\ n <= Len(mod.vec[k].elt)
      /\ 1..n \subseteq 1..Len(mod.vec[k].elt) /\ 1..n \subseteq Nat
  <2>1. n \in Nat /\ Len(mod.vec[k].elt) \in Nat
    BY TurnsTyped, VectorEntries DEF n
  <2>2. ArrayTrouble(mod.vec[k], n) = ""
    BY DEF VectorTrouble, n
  <2>3. ~(n > 0 /\ Reads(a) # "")
    BY <2>2 DEF ArrayTrouble
  <2>4. ~(n > Len(mod.vec[k].elt))
    BY <2>2, <2>3 DEF ArrayTrouble
  <2> QED  BY <2>1, <2>4, NotBeyond
<1>2. /\ s \in Seq(Ptrs) /\ a \in Ptrs /\ DOMAIN s = 1..n
      /\ \A j \in 1..n : s[j] = mod.vec[k].elt[j].own
  BY <1>1, OwnedSeq
<1>3. FreedVector(k) = s \o <<a>>
  BY DEF FreedVector, n
<1>4. DOMAIN mod.vec[k].elt = 1..Len(mod.vec[k].elt) /\ Len(mod.vec[k].elt) \in Nat
  BY VectorEntries
<1> HIDE DEF s, a
<1>5. <<a>> \in Seq(Ptrs) /\ Range(<<a>>) = {a}
  <2>1. a \in Ptrs
    BY <1>2
  <2> QED  BY <2>1, OneElement
<1>6. FreedVector(k) \in Seq(Ptrs)
  BY <1>2, <1>3, <1>5, ConcatProperties
<1>7. Range(FreedVector(k)) = Range(s) \cup {a}
  <2>1. Range(s \o <<a>>) = Range(s) \cup Range(<<a>>)
    BY <1>2, <1>5, RangeConcatenation
  <2> QED  BY <1>3, <1>5, <2>1
<1>8. ASSUME NEW i, VectorHeld(k, i)
      PROVE  Range(FreedVector(k)) \subseteq Of(i) \cup {Null, Wild}
  <2>1. a \in Of(i) \cup {Null}
    BY <1>8, NamedOf DEF VectorHeld, a
  <2>2. ASSUME NEW j \in 1..n PROVE s[j] \in Of(i) \cup {Null, Wild}
    <3>a. j \in Nat /\ j \in 1..Len(mod.vec[k].elt)
      <4>1. 1..n \subseteq 1..Len(mod.vec[k].elt) /\ 1..n \subseteq Nat
        BY <1>1
      <4> QED  BY <2>2, <4>1
    <3>b. s[j] = mod.vec[k].elt[j].own
      BY <1>2, <2>2
    <3>1. j \in DOMAIN mod.vec[k].elt /\ s[j] = mod.vec[k].elt[j].own /\ j \in Nat
      BY <1>4, <3>a, <3>b
    <3>2. mod.vec[k].elt[j].own \in {Null, Wild, Obj(OwnKind(k), i, j)}
      BY <1>8, <3>1 DEF VectorHeld
    <3> QED  BY <3>1, <3>2, NamedOf
  <2> QED  BY <1>2, <1>7, <2>1, <2>2 DEF Range
<1> QED  BY <1>6, <1>8

\* What a module points to is not one of its own parts.
LEMMA PtrNames ==
    /\ Module \notin Ptrs /\ FileData \notin Ptrs
    /\ \A i : Section(i) \notin Ptrs
<1>1. \A a, b, c : Obj(a, b, c) \in Ptrs => a \in PtrKinds
  BY DEF Obj, Ptrs
<1>2. PtrKinds \cap {"module", "filedata", "section"} = {}
  BY DEF PtrKinds
<1> QED  BY <1>1, <1>2 DEF Module, FileData, Section

\* A section is freed, with some of what the module points to.
LEMMA SectionFreed ==
    ASSUME Typed, HoldInv, pc = "free", back = "done", NextSection, back' = back,
           at \in 1..Len(mod.secs), IsModule(mod'), mod'.secs = mod.secs, mod'.vec = mod.vec,
           mod'.filedata = mod.filedata,
           NEW gone \in SUBSET Ptrs, live' = live \ (gone \cup {Section(at)}),
           NoSectionTwice =>
               /\ gone \subseteq Of(at) \cup {Null, Wild}
               /\ Sec.type = Type => gone = {}
               /\ Sec.type # Import => mod'.imp = mod.imp
    PROVE  HoldInv'
<1>1. /\ IsModule(mod) /\ SameSections(mod', mod)
      /\ DOMAIN mod.secs = 1..Len(mod.secs) /\ DOMAIN mod'.secs = 1..Len(mod.secs)
      /\ NoSectionTwice' <=> NoSectionTwice
      /\ SectionsOf(Type)' = SectionsOf(Type)
      /\ Len(mod.secs) \in Nat
  <2>1. IsModule(mod)
    BY TypedParts DEF Typed
  <2>2. SameSections(mod', mod)
    BY DEF SameSections
  <2> QED  BY <2>1, <2>2, SectionsOfModule, SectionsStay
<1>2. /\ pc' = "free" /\ at' = at + 1 /\ Loaded
  BY DEF NextSection, Loaded
<1>3. /\ {Module, FileData} \subseteq live /\ mod.filedata = FileData
      /\ \A i \in 1..Len(mod.secs) : at <= i => Section(i) \in live
      /\ NoSectionTwice =>
            /\ SectionsOf(Type) = {} => Types = Empty
            /\ \A i \in 1..Len(mod.secs) :
                  at <= i \/ mod.secs[i].type = Type => SectionHeld(i)
  BY <1>1, <1>2 DEF HoldInv, Left
<1>4. \A i \in 1..Len(mod.secs) : (pc' # "free" \/ at' <= i) => i # at /\ at <= i
  BY <1>1, <1>2
<1>5. /\ {Module, FileData} \subseteq live'
      /\ \A i \in 1..Len(mod.secs) : (pc' # "free" \/ at' <= i) => Section(i) \in live'
  BY <1>3, <1>4, PtrNames, SectionNames
<1>6. \A i : Ahead(i)'
  BY <1>2 DEF Ahead
<1>7. Types' = Types
  BY DEF Types
<1>8. ASSUME NoSectionTwice, NEW i \in 1..Len(mod.secs), SectionHeld(i),
             live \cap Of(i) \subseteq live',
             mod.secs[i].type = Import => mod'.imp = mod.imp
      PROVE  SectionHeld(i)'
  <2>1. mod.secs[i].type \in Vectors => SameVector(mod.secs[i].type)
    BY SameVectors
  <2>2. mod'.secs[i].free = mod.secs[i].free
    OBVIOUS
  <2> QED  BY <1>1, <1>2, <1>8, <2>1, <2>2, HeldStays
<1>9. ASSUME NoSectionTwice, NEW i \in 1..Len(mod.secs),
             (pc' # "free" \/ at' <= i) \/ mod.secs[i].type = Type
      PROVE  SectionHeld(i)'
  <2>1. SectionHeld(i)
    BY <1>3, <1>4, <1>9
  <2>2. CASE i # at
    <3>1. live \cap Of(i) \subseteq live'
      BY <1>9, <2>2, NotOf
    <3>2. mod.secs[i].type = Import => mod'.imp = mod.imp
      BY <1>1, <1>9, <2>2, OnlyOne DEF Sec, Counted
    <3> QED  BY <1>8, <1>9, <2>1, <3>1, <3>2
  <2>3. CASE i = at
    <3>1. mod.secs[i].type = Type /\ Sec.type = Type
      BY <1>4, <1>9, <2>3 DEF Sec
    <3>2. live \cap Of(i) \subseteq live'
      BY <1>9, <3>1, NotOf
    <3>3. Type # Import
      BY DEF Type, Import
    <3> QED  BY <1>8, <1>9, <2>1, <3>1, <3>2, <3>3
  <2> QED  BY <2>2, <2>3
<1>10. NoSectionTwice =>
            /\ SectionsOf(Type)' = {} => Types' = Empty
            /\ \A i \in 1..Len(mod.secs) :
                  (pc' # "free" \/ at' <= i) \/ mod.secs[i].type = Type => SectionHeld(i)'
  BY <1>1, <1>3, <1>7, <1>9
<1> QED  BY <1>1, <1>2, <1>3, <1>5, <1>6, <1>10 DEF HoldInv, HalfParsedFreed, Left, LostStates

\* It is lost only where the properties say nothing of it.
LEMMA LostHolds ==
    ASSUME mod' = mod, pc' \in LostStates, ~(NoSectionTwice /\ EntriesWritten)
    PROVE  HoldInv'
<1>1. NoSectionTwice' <=> NoSectionTwice
  BY DEF NoSectionTwice, SectionsOf
<1>2. EntriesWritten' <=> EntriesWritten
  BY DEF EntriesWritten, OwnFuncs
<1>3. ~Loaded'
  BY DEF Loaded, LostStates
<1> QED  BY <1>1, <1>2, <1>3 DEF HoldInv, HalfParsedFreed

LEMMA FreePlainHolds ==
    ASSUME Typed, HoldInv, FreePlain, back = "done"
    PROVE  HoldInv'
<1>1. /\ pc = "free" /\ NextSection /\ back' = back /\ mod' = mod
      /\ live' = live \ ({} \cup {Section(at)})
  <2>1. Range(<<Section(at)>>) = {Section(at)}
    BY DEF Range
  <2> QED  BY <2>1 DEF FreePlain, Freeing, Without, UnchangedFile
<1>2. IsModule(mod) /\ at \in 1..Len(mod.secs)
  <2>1. IsModule(mod) /\ at \in Nat \ {0} /\ at <= Len(mod.secs)
    BY <1>1, TypedParts DEF Typed, LoopTyped, FreePlain, Freeing
  <2> QED  BY <2>1, SectionsOfModule
<1>3. IsModule(mod')
  BY <1>1, <1>2
<1> QED  BY <1>1, <1>2, <1>3, SectionFreed

LEMMA FreeVectorHolds ==
    ASSUME Typed, HoldInv, NEW k \in Vectors, FreeVector(k), back = "done"
    PROVE  HoldInv'
<1>1. /\ pc = "free" /\ back' = back /\ mod' = mod /\ Sec.free = k
      /\ IF VectorTrouble(k) = ""
         THEN NextSection /\ live' = Without(FreedVector(k) \o <<Section(at)>>)
         ELSE Lost(VectorTrouble(k))
  BY DEF FreeVector, Freeing, UnchangedFile
<1>2. IsModule(mod) /\ at \in 1..Len(mod.secs) /\ IsModule(mod')
  <2>1. IsModule(mod) /\ at \in Nat \ {0} /\ at <= Len(mod.secs)
    BY <1>1, TypedParts DEF Typed, LoopTyped, FreeVector, Freeing
  <2>2. at \in 1..Len(mod.secs)
    BY <2>1, SectionsOfModule
  <2> QED  BY <1>1, <2>1, <2>2
<1>3. k # 0 /\ Import \notin Vectors /\ k # Import
  BY DEF Vectors, Import, Type, Function, Table, Memory, Global, Export, Elem, Data
<1>4. NoSectionTwice => VectorHeld(k, at) /\ Sec.type = k /\ k # Type
  <2> SUFFICES ASSUME NoSectionTwice PROVE VectorHeld(k, at) /\ Sec.type = k /\ k # Type
    OBVIOUS
  <2>1. SectionHeld(at)
    <3>1. Left(at)
      BY <1>2 DEF Left
    <3>2. Loaded
      BY <1>1 DEF Loaded
    <3> QED  BY <1>2, <3>1, <3>2, SectionsOfModule DEF HoldInv
  <2>2. Sec.type \in Counted
    BY <1>1, <1>3, <2>1 DEF SectionHeld, Sec
  <2>3. Sec.type # Import
    BY <1>1, <1>3, <2>1 DEF SectionHeld, ImportsHeld, Sec
  <2>4. Sec.type \in Vectors /\ VectorHeld(Sec.type, at)
    BY <2>1, <2>2, <2>3 DEF SectionHeld, Sec, Counted
  <2>5. Sec.free = Sec.type /\ Sec.type # Type
    BY <1>1, <1>3, <2>4 DEF VectorHeld, Sec
  <2> QED  BY <1>1, <2>4, <2>5
<1>5. CASE VectorTrouble(k) = ""
  <2>1. /\ FreedVector(k) \in Seq(Ptrs)
        /\ \A i : VectorHeld(k, i) => Range(FreedVector(k)) \subseteq Of(i) \cup {Null, Wild}
    BY <1>2, <1>5, FreedByVector
  <2> DEFINE s == FreedVector(k)
  <2> HIDE DEF s
  <2>2. Range(s) \subseteq Ptrs
    <3>1. s \in Seq(Ptrs) /\ DOMAIN s = 1..Len(s)
      BY <2>1, LenProperties DEF s
    <3> QED  BY <3>1, ElementOfSeq DEF Range
  <2>3. Range(s \o <<Section(at)>>) = Range(s) \cup {Section(at)}
    <3> DEFINE S == Ptrs \cup {Section(at)}
    <3>2. s \in Seq(S)
      BY <2>1 DEF s
    <3>3. <<Section(at)>> \in Seq(S) /\ Range(<<Section(at)>>) = {Section(at)}
      BY OneElement
    <3> HIDE DEF S
    <3>4. Range(s \o <<Section(at)>>) = Range(s) \cup Range(<<Section(at)>>)
      BY <3>2, <3>3, RangeConcatenation
    <3> QED  BY <3>3, <3>4
  <2>4. live' = live \ (Range(s) \cup {Section(at)}) /\ NextSection
    BY <1>1, <1>5, <2>3 DEF Without, s
  <2>5. NoSectionTwice =>
               /\ Range(s) \subseteq Of(at) \cup {Null, Wild}
               /\ Sec.type = Type => Range(s) = {}
               /\ Sec.type # Import => mod'.imp = mod.imp
    BY <1>1, <1>4, <2>1 DEF s
  <2> QED  BY <1>1, <1>2, <2>2, <2>4, <2>5, SectionFreed
<1>6. CASE VectorTrouble(k) # ""
  <2>1. pc' \in LostStates
    BY <1>1, <1>6, VectorLost DEF Lost
  <2>2. ~(NoSectionTwice /\ EntriesWritten)
    BY <1>1, <1>2, <1>3, <1>4, <1>6, NoVectorTrouble DEF Sec
  <2> QED  BY <1>1, <2>1, <2>2, LostHolds
<1> QED  BY <1>5, <1>6

\* What the free handler of the imports finds in a slot.
FoundIn(s, i) ==
    LET o == ImportPtr(s[1], s[2], s[3]) IN
    \/ o = Null
    \/ o \in live /\ s[2] = 0 /\ s[3] = 1 /\ o = Obj("array", i, s[1])
    \/ o \in live /\ s[2] # 0 /\ o = Obj(ImportKind(s[3]), i, o[3])
         /\ \A q \in Kinds : \A m \in 1..mod.imp[q].cnt :
               ImportPtr(q, m, s[3]) = o => q = s[1] /\ m = s[2]

LEMMA SlotParts ==
    ASSUME NEW s \in ImportSlots
    PROVE  /\ s = <<s[1], s[2], s[3]>> /\ s[1] \in Kinds
           /\ s[2] \in 0..mod.imp[s[1]].cnt /\ s[3] \in 1..3
           /\ FreedImports[s] = ImportPtr(s[1], s[2], s[3])
BY DEF ImportSlots, FreedImports

LEMMA SlotsFound ==
    ASSUME IsModule(mod), NEW i, ImportsHeld(i), mod.secs[i].free # 0, NEW s \in ImportSlots
    PROVE  FoundIn(s, i)
<1>1. /\ s[1] \in Kinds /\ s[2] \in 0..mod.imp[s[1]].cnt /\ s[3] \in 1..3
  BY SlotParts
<1> DEFINE k == s[1]
           n == s[2]
           p == s[3]
<1> HIDE DEF k, n, p
<1>2. k \in Kinds /\ n \in 0..mod.imp[k].cnt /\ p \in 1..3
  BY <1>1 DEF k, n, p
<1>3. mod.imp[k].cnt \in Nat
  BY <1>2, ImportEntries
<1>4. CASE n = 0
  <2>1. ImportPtr(k, n, p) = IF p = 1 THEN mod.imp[k].arr ELSE Null
    BY <1>4 DEF ImportPtr
  <2>2. mod.imp[k].cnt = 0 => mod.imp[k].arr = Null
    BY <1>2 DEF ImportsHeld
  <2>3. mod.imp[k].cnt > 0 => mod.imp[k].arr = Obj("array", i, k) /\ mod.imp[k].arr \in live
    BY <1>2 DEF ImportsHeld
  <2>4. mod.imp[k].cnt = 0 \/ mod.imp[k].cnt > 0
    BY <1>3
  <2> QED  BY <1>4, <2>1, <2>2, <2>3, <2>4 DEF FoundIn, k, n, p
<1>5. CASE n # 0
  <2>1. n \in 1..mod.imp[k].cnt /\ mod.imp[k].cnt > 0
    BY <1>2, <1>3, <1>5
  <2>2. ImportHeld(i, k, n, p)
    BY <1>2, <2>1 DEF ImportsHeld
  <2> QED  BY <1>5, <2>2 DEF FoundIn, ImportHeld, k, n, p
<1> QED  BY <1>4, <1>5

LEMMA FoundNames ==
    /\ \A i, k, p, q, j, l : p \in 1..3 /\ q \in 1..3 =>
          /\ Obj(ImportKind(p), i, j) = Obj(ImportKind(q), i, l) => p = q
          /\ Obj(ImportKind(p), i, j) # Obj("array", i, k)
<1>1. /\ ImportKind(1) = "func" /\ ImportKind(2) = "mname" /\ ImportKind(3) = "nsname"
  BY DEF ImportKind
<1>2. \A p \in 1..3 : p = 1 \/ p = 2 \/ p = 3
  OBVIOUS
<1>3. \A p, q \in 1..3 : ImportKind(p) = ImportKind(q) => p = q
  BY <1>1, <1>2
<1>4. \A p \in 1..3 : ImportKind(p) # "array"
  BY <1>1, <1>2
<1> QED  BY <1>3, <1>4, ObjParts

\* No object is in two slots.
LEMMA SlotsApart ==
    ASSUME IsModule(mod), NEW i, NEW s \in ImportSlots, NEW t \in ImportSlots,
           FoundIn(s, i), FoundIn(t, i),
           FreedImports[s] = FreedImports[t], FreedImports[s] # Null
    PROVE  s = t
<1> DEFINE o == FreedImports[s]
<1>1. /\ s = <<s[1], s[2], s[3]>> /\ s[1] \in Kinds
      /\ s[2] \in 0..mod.imp[s[1]].cnt /\ s[3] \in 1..3 /\ o = ImportPtr(s[1], s[2], s[3])
  BY SlotParts
<1>2. /\ t = <<t[1], t[2], t[3]>> /\ t[1] \in Kinds
      /\ t[2] \in 0..mod.imp[t[1]].cnt /\ t[3] \in 1..3 /\ o = ImportPtr(t[1], t[2], t[3])
  BY SlotParts
<1>3. \/ s[2] = 0 /\ s[3] = 1 /\ o = Obj("array", i, s[1])
      \/ s[2] # 0 /\ o = Obj(ImportKind(s[3]), i, o[3])
           /\ \A q \in Kinds : \A m \in 1..mod.imp[q].cnt :
                 ImportPtr(q, m, s[3]) = o => q = s[1] /\ m = s[2]
  BY <1>1 DEF FoundIn
<1>4. \/ t[2] = 0 /\ t[3] = 1 /\ o = Obj("array", i, t[1])
      \/ t[2] # 0 /\ o = Obj(ImportKind(t[3]), i, o[3])
  BY <1>2 DEF FoundIn
<1>5. mod.imp[t[1]].cnt \in Nat
  BY <1>2, ImportEntries
<1> HIDE DEF o
<1>6. CASE s[2] = 0 /\ s[3] = 1 /\ o = Obj("array", i, s[1])
  <2>1. t[2] = 0 /\ t[3] = 1 /\ o = Obj("array", i, t[1])
    BY <1>2, <1>4, <1>6, FoundNames
  <2>2. s[1] = t[1]
    BY <1>6, <2>1, ObjParts
  <2> QED  BY <1>1, <1>2, <1>6, <2>1, <2>2
<1>7. CASE s[2] # 0 /\ o = Obj(ImportKind(s[3]), i, o[3])
  <2>1. t[2] # 0 /\ o = Obj(ImportKind(t[3]), i, o[3])
    BY <1>1, <1>4, <1>7, FoundNames
  <2>2. s[3] = t[3]
    BY <1>1, <1>2, <1>7, <2>1, FoundNames
  <2>3. t[2] \in 1..mod.imp[t[1]].cnt
    BY <1>2, <1>5, <2>1
  <2>4. t[1] = s[1] /\ t[2] = s[2]
    BY <1>2, <1>3, <1>7, <2>2, <2>3
  <2> QED  BY <1>1, <1>2, <2>2, <2>4
<1> QED  BY <1>3, <1>6, <1>7

LEMMA NoImportsTrouble ==
    ASSUME IsModule(mod), NEW i, ImportsHeld(i), mod.secs[i].free # 0
    PROVE  ImportsTrouble = {}
<1>1. ASSUME NEW k \in Kinds
      PROVE  ArrayTrouble(mod.imp[k], mod.imp[k].cnt) = ""
  <2>1. mod.imp[k].cnt \in Nat /\ Len(mod.imp[k].elt) \in Nat
    BY ImportEntries
  <2>2. mod.imp[k].cnt > 0 =>
            /\ mod.imp[k].arr \in live /\ mod.imp[k].arr = Obj("array", i, k)
            /\ Len(mod.imp[k].elt) = mod.imp[k].cnt
    BY DEF ImportsHeld
  <2>3. ~(mod.imp[k].cnt > 0 /\ Reads(mod.imp[k].arr) # "")
    <3>1. ASSUME NEW x, x \in live, x # Null PROVE Reads(x) = ""
      BY <3>1 DEF Reads
    <3>2. Obj("array", i, k) # Null
      BY NamedOf, NotOf
    <3> QED  BY <2>2, <3>1, <3>2
  <2>4. ~(mod.imp[k].cnt > Len(mod.imp[k].elt))
    BY <2>1, <2>2
  <2> QED  BY <2>3, <2>4 DEF ArrayTrouble
<1>2. \A s \in ImportSlots : FoundIn(s, i)
  BY SlotsFound
<1>3. DOMAIN FreedImports = ImportSlots
  BY DEF FreedImports
<1>4. Range(FreedImports) \subseteq live \cup {Null}
  <2>1. \A s \in ImportSlots : FreedImports[s] \in live \cup {Null}
    BY <1>2, SlotParts DEF FoundIn
  <2> QED  BY <1>3, <2>1 DEF Range
<1>5. \A s, t \in DOMAIN FreedImports :
         FreedImports[s] = FreedImports[t] => s = t \/ FreedImports[s] = Null
  BY <1>2, <1>3, SlotsApart
<1>6. Freeable(FreedImports)
  BY <1>4, <1>5 DEF Freeable
<1> QED  BY <1>1, <1>6 DEF ImportsTrouble

\* What the handler gives back is a pointer of the module, and if the section
\* holds the imports, one of its own.
LEMMA FreedByImports ==
    ASSUME IsModule(mod), ImportsTrouble = {}
    PROVE  /\ Range(FreedImports) \subseteq Ptrs
           /\ \A i : (ImportsHeld(i) /\ mod.secs[i].free # 0)
                        => Range(FreedImports) \subseteq Of(i) \cup {Null, Wild}
<1>1. DOMAIN FreedImports = ImportSlots
  BY DEF FreedImports
<1>2. ASSUME NEW s \in ImportSlots
      PROVE  FreedImports[s] \in Ptrs
  <2> DEFINE k == s[1]
             n == s[2]
             p == s[3]
  <2>1. /\ k \in Kinds /\ n \in 0..mod.imp[k].cnt /\ p \in 1..3
        /\ FreedImports[s] = ImportPtr(k, n, p)
    BY SlotParts
  <2> HIDE DEF k, n, p
  <2>2. Null \in Ptrs /\ mod.imp[k].arr \in Ptrs
    <3>1. Null \in Ptrs
      BY DEF Null, Obj, Ptrs, PtrKinds
    <3> QED  BY <2>1, <3>1 DEF IsModule, ImpRecs
  <2>3. CASE n = 0
    BY <2>1, <2>2, <2>3 DEF ImportPtr
  <2>4. CASE n # 0
    <3>1. mod.imp[k].cnt \in Nat /\ Len(mod.imp[k].elt) \in Nat
      BY <2>1, ImportEntries
    <3>2. ArrayTrouble(mod.imp[k], mod.imp[k].cnt) = ""
      BY <2>1 DEF ImportsTrouble
    <3>4. ~(mod.imp[k].cnt > Len(mod.imp[k].elt))
      BY <3>2 DEF ArrayTrouble, Reads
    <3>5. n \in 1..Len(mod.imp[k].elt)
      BY <2>1, <2>4, <3>1, <3>4
    <3> QED  BY <2>1, <3>5, ImportPtrTyped
  <2> QED  BY <2>3, <2>4
<1>3. ASSUME NEW i, ImportsHeld(i), mod.secs[i].free # 0, NEW s \in ImportSlots
      PROVE  FreedImports[s] \in Of(i) \cup {Null, Wild}
  <2>1. /\ s[1] \in Kinds /\ s[3] \in 1..3
        /\ FreedImports[s] = ImportPtr(s[1], s[2], s[3])
    BY SlotParts
  <2>2. FoundIn(s, i)
    BY <1>3, SlotsFound
  <2> DEFINE o == FreedImports[s]
  <2>3. \A q \in Ptrs : q[3] \in Nat
    BY DEF Ptrs
  <2>4. o[3] \in Nat
    BY <1>2, <2>3
  <2> HIDE DEF o
  <2>5. o = Null \/ o = Obj("array", i, s[1]) \/ o = Obj(ImportKind(s[3]), i, o[3])
    BY <2>1, <2>2 DEF FoundIn, o
  <2>6. o \in Of(i) \cup {Null, Wild}
    BY <2>1, <2>4, <2>5, NamedOf
  <2> QED  BY <2>6 DEF o
<1> QED  BY <1>1, <1>2, <1>3 DEF Range

LEMMA FreeImportsHolds ==
    ASSUME Typed, HoldInv, FreeImports, back = "done"
    PROVE  HoldInv'
<1>1. /\ pc = "free" /\ back' = back /\ Sec.free = Import
      /\ IF ImportsTrouble = {}
         THEN /\ NextSection /\ live' = Without(FreedImports) \ {Section(at)}
              /\ mod' = WithImports(mod, ArraysTaken(mod.imp))
         ELSE (\E how \in ImportsTrouble : Lost(how)) /\ mod' = mod
  BY DEF FreeImports, Freeing, UnchangedFile, WithImports, ArraysTaken
<1>2. IsModule(mod) /\ at \in 1..Len(mod.secs)
  <2>1. IsModule(mod) /\ at \in Nat \ {0} /\ at <= Len(mod.secs)
    BY <1>1, TypedParts DEF Typed, LoopTyped, FreeImports, Freeing
  <2>2. at \in 1..Len(mod.secs)
    BY <2>1, SectionsOfModule
  <2> QED  BY <2>1, <2>2
<1>3. Import # 0 /\ Import \notin Vectors /\ Type # Import
  BY DEF Vectors, Import, Type, Function, Table, Memory, Global, Export, Elem, Data
<1>4. NoSectionTwice => ImportsHeld(at) /\ Sec.type = Import
  <2> SUFFICES ASSUME NoSectionTwice PROVE ImportsHeld(at) /\ Sec.type = Import
    OBVIOUS
  <2>1. SectionHeld(at)
    <3>1. Left(at)
      BY <1>2 DEF Left
    <3>2. Loaded
      BY <1>1 DEF Loaded
    <3> QED  BY <1>2, <3>1, <3>2, SectionsOfModule DEF HoldInv
  <2>2. Sec.type \in Counted
    BY <1>1, <1>3, <2>1 DEF SectionHeld, Sec
  <2>3. Sec.type \notin Vectors
    <3> SUFFICES ASSUME Sec.type \in Vectors PROVE FALSE
      OBVIOUS
    <3>1. VectorHeld(Sec.type, at)
      BY <2>1 DEF SectionHeld, Sec
    <3>2. Sec.free = Sec.type
      BY <1>1, <1>3, <3>1 DEF VectorHeld, Sec
    <3> QED  BY <1>1, <1>3, <3>2
  <2> QED  BY <2>1, <2>2, <2>3 DEF SectionHeld, Sec, Counted
<1>5. CASE ImportsTrouble = {}
  <2>1. /\ Range(FreedImports) \subseteq Ptrs
        /\ \A i : (ImportsHeld(i) /\ mod.secs[i].free # 0)
                      => Range(FreedImports) \subseteq Of(i) \cup {Null, Wild}
    BY <1>2, <1>5, FreedByImports
  <2>2. /\ IsModule(mod') /\ mod'.secs = mod.secs /\ mod'.vec = mod.vec
        /\ mod'.filedata = mod.filedata
    BY <1>1, <1>2, <1>5, ImportsTaken
  <2>3. live' = live \ (Range(FreedImports) \cup {Section(at)}) /\ NextSection
    BY <1>1, <1>5 DEF Without
  <2>4. NoSectionTwice =>
               /\ Range(FreedImports) \subseteq Of(at) \cup {Null, Wild}
               /\ Sec.type = Type => Range(FreedImports) = {}
               /\ Sec.type # Import => mod'.imp = mod.imp
    BY <1>1, <1>3, <1>4, <2>1 DEF Sec
  <2> QED  BY <1>1, <1>2, <2>1, <2>2, <2>3, <2>4, SectionFreed
<1>6. CASE ImportsTrouble # {}
  <2>1. pc' \in LostStates
    BY <1>1, <1>6, ImportsLost DEF Lost
  <2>2. ~(NoSectionTwice /\ EntriesWritten)
    BY <1>1, <1>2, <1>3, <1>4, <1>6, NoImportsTrouble DEF Sec
  <2> QED  BY <1>1, <1>6, <2>1, <2>2, LostHolds
<1> QED  BY <1>5, <1>6

\* What is left for the end of fw_module_free.
RestOf == Owned(Type, Types.cnt) \o <<Types.arr, mod.filedata, Module>>

\* The types, if any, are those of a section that has long been freed.
LEMMA TypesLeft ==
    ASSUME Typed, HoldInv, pc = "free", back = "done", NoSectionTwice, EntriesWritten
    PROVE  /\ Types.cnt <= Len(Types.elt)
           /\ Types.cnt > 0 => Types.arr # Null
           /\ \E i : /\ OwnersLive(Type, i, Types.cnt)
                     /\ Types.arr # Null => Types.arr = Obj("array", i, 0) /\ Types.arr \in live
<1>1. IsModule(mod) /\ Type \in Vectors
  BY TypedParts DEF Typed, Vectors
<1>2. /\ Types.cnt \in Nat /\ Len(Types.elt) \in Nat
  BY <1>1, VectorEntries DEF Types
<1>3. CASE SectionsOf(Type) = {}
  <2>1. Types = Empty
    BY <1>3 DEF HoldInv, Loaded
  <2>2. Types.cnt = 0 /\ Types.arr = Null
    BY <2>1 DEF Empty
  <2>3. OwnersLive(Type, 0, 0)
    BY DEF OwnersLive
  <2> QED  BY <1>2, <2>2, <2>3
<1>4. CASE SectionsOf(Type) # {}
  <2>1. PICK i \in DOMAIN mod.secs : mod.secs[i].type = Type
    BY <1>4 DEF SectionsOf
  <2>2. VectorHeld(Type, i)
    <3>1. SectionHeld(i)
      BY <2>1 DEF HoldInv, Loaded
    <3> QED  BY <1>1, <2>1, <3>1 DEF SectionHeld
  <2>3. /\ Types.arr # Null => Types.arr = Obj("array", i, 0) /\ Types.arr \in live
        /\ Types.arr # Null => Types.cnt <= Len(Types.elt)
    BY <2>2 DEF VectorHeld, Types
  <2>4. Types.cnt > 0 => Types.arr # Null
    BY DEF EntriesWritten, Types
  <2>5. Types.cnt <= Len(Types.elt)
    BY <1>2, <2>3, <2>4
  <2>6. OwnersLive(Type, i, Types.cnt)
    <3>1. Types.cnt <= Len(mod.vec[Type].elt)
      BY <2>5 DEF Types
    <3> QED  BY <1>1, <1>2, <2>2, <3>1, OwnersHeld
  <2> QED  BY <2>3, <2>4, <2>5, <2>6
<1> QED  BY <1>3, <1>4

LEMMA RestFreeable ==
    ASSUME Typed, HoldInv, pc = "free", back = "done", NoSectionTwice, EntriesWritten
    PROVE  ArrayTrouble(Types, Types.cnt) = "" /\ Freeable(RestOf)
<1>1. IsModule(mod) /\ Type \in Vectors
  BY TypedParts DEF Typed, Vectors
<1> DEFINE n == Types.cnt
           a == Types.arr
           s == Owned(Type, n)
           t == <<a, FileData, Module>>
<1>2. n \in Nat /\ Len(Types.elt) \in Nat
  BY <1>1, VectorEntries DEF Types
<1>3. /\ n <= Len(Types.elt) /\ n <= Len(mod.vec[Type].elt) /\ (n > 0 => a # Null)
  BY TypesLeft DEF Types
<1>4. PICK i : /\ OwnersLive(Type, i, n)
               /\ a # Null => a = Obj("array", i, 0) /\ a \in live
  BY TypesLeft
<1>5. mod.filedata = FileData /\ {Module, FileData} \subseteq live
  BY DEF HoldInv, Loaded
<1>6. ArrayTrouble(Types, n) = ""
  <2>1. a # Null => Reads(a) = ""
    BY <1>4 DEF Reads
  <2>2. ~(n > 0 /\ Reads(a) # "")
    BY <1>3, <2>1
  <2>3. ~(n > Len(Types.elt))
    BY <1>2, <1>3
  <2> HIDE DEF n
  <2> QED  BY <2>2, <2>3 DEF ArrayTrouble
<1>7. /\ Freeable(s) /\ s \in Seq(Ptrs) /\ a \in Ptrs
      /\ \A o \in Range(s) : o = Null \/ \E j \in 1..n : o = Obj(OwnKind(Type), i, j)
  <2>1. Freeable(s) /\ \A o \in Range(s) : o = Null \/ \E j \in 1..n : o = Obj(OwnKind(Type), i, j)
    BY <1>1, <1>2, <1>3, <1>4, OwnedFreeable
  <2>2. s \in Seq(Ptrs) /\ mod.vec[Type].arr \in Ptrs
    BY <1>1, <1>2, <1>3, OwnedSeq
  <2> QED  BY <2>1, <2>2 DEF Types
<1>8. RestOf = s \o t
  BY <1>5 DEF RestOf
<1> HIDE DEF n, a, s
<1>9. a # FileData /\ a # Module /\ FileData # Module /\ FileData # Null /\ Module # Null
  BY <1>7, PtrNames, SectionNames
<1> DEFINE S == Ptrs \cup {FileData, Module}
<1>10. /\ t \in Seq(S) /\ s \in Seq(S) /\ DOMAIN t = {1, 2, 3}
       /\ t[1] = a /\ t[2] = FileData /\ t[3] = Module
  <2>1. s \in Seq(S)
    BY <1>7
  <2>2. /\ DOMAIN t = {1, 2, 3} /\ t[1] = a /\ t[2] = FileData /\ t[3] = Module
    OBVIOUS
  <2>3. a \in S /\ FileData \in S /\ Module \in S
    BY <1>7
  <2>4. \A x, y, z \in S : <<x, y, z>> \in Seq(S)
    OBVIOUS
  <2> QED  BY <2>1, <2>2, <2>3, <2>4
<1> HIDE DEF S, t
<1>11. Range(t) = {a, FileData, Module}
  BY <1>10 DEF Range
<1>12. Freeable(t)
  BY <1>4, <1>5, <1>9, <1>10, <1>11 DEF Freeable
<1>13. Range(s) \cap Range(t) \subseteq {Null}
  <2>1. ASSUME NEW o \in Range(s), o # Null PROVE o \notin {a, FileData, Module}
    <3>1. PICK j \in 1..n : o = Obj(OwnKind(Type), i, j)
      BY <1>7, <2>1
    <3>2. o # a
      <4>1. OwnKind(Type) # "array"
        BY DEF OwnKind
      <4> QED  BY <1>4, <2>1, <3>1, <4>1, ObjParts
    <3>3. o \in Of(i)
      <4>1. j \in Nat
        BY <1>2
      <4> QED  BY <3>1, <4>1, NamedOf
    <3> QED  BY <3>2, <3>3, NotOf
  <2> QED  BY <1>11, <2>1
<1>14. Freeable(s \o t)
  BY <1>7, <1>10, <1>12, <1>13, FreeableBoth
<1> QED  BY <1>6, <1>8, <1>14 DEF n

LEMMA FreeRestHolds ==
    ASSUME Typed, HoldInv, FreeRest, back = "done"
    PROVE  HoldInv'
<1>1. /\ pc = "free" /\ back' = back /\ mod' = mod
      /\ IF ArrayTrouble(Types, Types.cnt) = "" /\ Freeable(RestOf)
         THEN pc' = back
         ELSE pc' = IF ArrayTrouble(Types, Types.cnt) = ""
                    THEN "bad" ELSE ArrayTrouble(Types, Types.cnt)
  BY DEF FreeRest, RestOf, UnchangedFile
<1>2. CASE pc' = "done"
  BY <1>1, <1>2 DEF HoldInv, HalfParsedFreed, Loaded, LostStates
<1>3. CASE ~(ArrayTrouble(Types, Types.cnt) = "" /\ Freeable(RestOf))
  <2>1. pc' \in LostStates
    BY <1>1, <1>3, ArrayLost DEF LostStates
  <2>2. ~(NoSectionTwice /\ EntriesWritten)
    BY <1>1, <1>3, RestFreeable
  <2> QED  BY <1>1, <2>1, <2>2, LostHolds
<1> QED  BY <1>1, <1>2, <1>3

LEMMA FreeHolds ==
    ASSUME Typed, HoldInv, FreeModule
    PROVE  HoldInv'
<1>1. back' = back /\ back \in {"close", "done"} /\ pc = "free"
  BY FreeSteps, TypedParts DEF Typed
<1>2. CASE back = "close"
  BY <1>1, <1>2, NothingHeld DEF Loaded
<1>3. CASE back = "done"
  BY <1>3, FreePlainHolds, FreeImportsHolds, FreeVectorHolds, FreeRestHolds DEF FreeModule
<1> QED  BY <1>1, <1>2, <1>3

-----------------------------------------------------------------------------
LEMMA InitHolds == Init => HoldInv
<1> SUFFICES ASSUME Init PROVE HoldInv
  OBVIOUS
<1>1. pc = "open" /\ back = "none"
  BY DEF Init, LoaderInit
<1> QED  BY <1>1 DEF HoldInv, HalfParsedFreed, Loaded

LEMMA NothingMoves ==
    ASSUME HoldInv, UNCHANGED <<pc, live, mod, at, item, probe, back>>
    PROVE  HoldInv'
<1>1. /\ NoSectionTwice' <=> NoSectionTwice
      /\ EntriesWritten' <=> EntriesWritten
      /\ Loaded' <=> Loaded
      /\ SectionsOf(Type)' = SectionsOf(Type) /\ Types' = Types
  BY DEF NoSectionTwice, SectionsOf, EntriesWritten, OwnFuncs, Loaded, Types
<1>2. \A k, i : VectorHeld(k, i)' <=> VectorHeld(k, i)
  BY DEF VectorHeld
<1>3. \A k, n, p : ImportPtr(k, n, p)' = ImportPtr(k, n, p)
  BY DEF ImportPtr
<1>4. \A i, k, n, p : ImportHeld(i, k, n, p)' <=> ImportHeld(i, k, n, p)
  BY <1>3 DEF ImportHeld
<1>5. \A i : ImportsHeld(i)' <=> ImportsHeld(i)
  BY <1>4 DEF ImportsHeld
<1>6. \A i : SectionHeld(i)' <=> SectionHeld(i)
  BY <1>2, <1>5 DEF SectionHeld
<1>7. \A i : (Ahead(i)' <=> Ahead(i)) /\ (Left(i)' <=> Left(i))
  BY DEF Ahead, Left, Sec
<1> QED  BY <1>1, <1>6, <1>7 DEF HoldInv, HalfParsedFreed

LEMMA StepHolds == Typed /\ LoadInv /\ HoldInv /\ [Next]_vars => HoldInv'
<1> SUFFICES ASSUME Typed, LoadInv, HoldInv, [Next]_vars
             PROVE  HoldInv'
  OBVIOUS
<1>1. CASE LoaderStep
  <2>1. CASE LoadFile
    BY <2>1, LoadHolds
  <2>2. CASE ParseFile
    BY <1>1, <2>2, ParseHolds DEF LoaderStep
  <2>3. CASE FreeModule
    BY <2>3, FreeHolds
  <2>4. CASE NumberUnended
    BY <2>4, UnendedHolds
  <2> QED  BY <1>1, <2>1, <2>2, <2>3, <2>4 DEF LoaderStep, LoaderNext
<1>2. CASE InstanceStep
  BY <1>2, InstanceHolds
<1>3. CASE LoadedNothing \/ LoadedModule \/ RegisterNext \/ RegisteredAll
             \/ Compiled \/ GivesUp \/ Succeeds
  BY <1>3, DriverHolds
<1>4. CASE UNCHANGED vars
  <2>1. /\ pc' = pc /\ live' = live /\ mod' = mod /\ at' = at /\ item' = item
        /\ probe' = probe /\ back' = back
    BY <1>4 DEF vars, loaderVars
  <2> QED  BY <2>1, NothingMoves
<1> QED  BY <1>1, <1>2, <1>3, <1>4 DEF Next

(* However far its sections have been parsed, and wherever an allocation   *)
(* has failed, fw_module_free frees a module without losing the process:   *)
(* it finds every array the counts promise it, reads no entry that was not *)
(* written and frees no pointer twice, whatever the file says.  What it    *)
(* takes is that no section comes twice, and that what the handlers count  *)
(* was written.                                                            *)
THEOREM HalfParsedModulesFreed == Spec => []HalfParsedFreed
<1>1. Init => Typed /\ LoadInv /\ HoldInv
  BY InitTyped, InitLoads, InitHolds
<1>2. Typed /\ LoadInv /\ HoldInv /\ [Next]_vars => (Typed /\ LoadInv /\ HoldInv)'
  BY StepTyped, StepLoads, StepHolds
<1>3. HoldInv => HalfParsedFreed
  BY DEF HoldInv
<1> QED  BY <1>1, <1>2, <1>3, PTL DEF Spec

-----------------------------------------------------------------------------
(***************************************************************************)
(* The two passes over the imports                                         *)
(***************************************************************************)
KindOf(p, last) == cells[KindAt(p, last)]

(* The first n + 1 positions of the counting pass: behind an import it     *)
(* knows the kind of and that is not cut, it is at the next one.           *)
Walk(q, n, last) ==
    /\ q \in [1..(n + 1) -> Nat \ {0}]
    /\ \A j \in 1..n :
          /\ KindAt(q[j], last) # 0
          /\ q[j + 1] = CountedTail(KindOf(q[j], last), KindAt(q[j], last) + 1, last)
          /\ ~Cut(q[j + 1], last)

\* The imports of kind k among the first n.
Met(q, k, n, last) == {j \in 1..n : KindOf(q[j], last) = k}

LEMMA MetMore ==
    ASSUME NEW q, NEW k, NEW n \in Nat, NEW last
    PROVE  /\ IsFiniteSet(Met(q, k, n, last)) /\ Cardinality(Met(q, k, n, last)) \in Nat
           /\ Cardinality(Met(q, k, n + 1, last))
                = Cardinality(Met(q, k, n, last)) + (IF KindOf(q[n + 1], last) = k THEN 1 ELSE 0)
<1>1. IsFiniteSet(Met(q, k, n, last))
  <2>1. Met(q, k, n, last) \subseteq 1..n
    BY DEF Met
  <2> QED  BY <2>1, UpTo, FS_Subset
<1>2. Cardinality(Met(q, k, n, last)) \in Nat
  BY <1>1, FS_CardinalityType
<1>3. 1..(n + 1) = 1..n \cup {n + 1} /\ n + 1 \notin 1..n
  OBVIOUS
<1>4. CASE KindOf(q[n + 1], last) = k
  <2>1. Met(q, k, n + 1, last) = Met(q, k, n, last) \cup {n + 1} /\ n + 1 \notin Met(q, k, n, last)
    BY <1>3, <1>4 DEF Met
  <2> QED  BY <1>1, <1>2, <1>4, <2>1, FS_AddElement
<1>5. CASE KindOf(q[n + 1], last) # k
  <2>1. Met(q, k, n + 1, last) = Met(q, k, n, last)
    BY <1>3, <1>5 DEF Met
  <2> QED  BY <1>1, <1>2, <1>5, <2>1
<1> QED  BY <1>1, <1>2, <1>4, <1>5

LEMMA NoneMet ==
    ASSUME NEW q, NEW k, NEW last
    PROVE  Cardinality(Met(q, k, 0, last)) = 0
<1>1. Met(q, k, 0, last) = {}
  BY DEF Met
<1> QED  BY <1>1, FS_EmptySet

\* One more of kind k is met later on.
LEMMA MetLater ==
    ASSUME NEW q, NEW n \in Nat, NEW m \in Nat, n < m, NEW last
    PROVE  LET k == KindOf(q[n + 1], last)
           IN Cardinality(Met(q, k, n, last)) < Cardinality(Met(q, k, m, last))
<1> SUFFICES ASSUME NEW k, k = KindOf(q[n + 1], last)
             PROVE  Cardinality(Met(q, k, n, last)) < Cardinality(Met(q, k, m, last))
  OBVIOUS
<1>1. Met(q, k, n + 1, last) \subseteq Met(q, k, m, last)
  <2>1. 1..(n + 1) \subseteq 1..m
    OBVIOUS
  <2> QED  BY <2>1 DEF Met
<1>2. /\ IsFiniteSet(Met(q, k, m, last)) /\ Cardinality(Met(q, k, m, last)) \in Nat
      /\ Cardinality(Met(q, k, n, last)) \in Nat
      /\ Cardinality(Met(q, k, n + 1, last)) = Cardinality(Met(q, k, n, last)) + 1
  BY MetMore
<1>3. Cardinality(Met(q, k, n + 1, last)) <= Cardinality(Met(q, k, m, last))
  BY <1>1, <1>2, FS_Subset
<1> QED  BY <1>2, <1>3

\* The counting pass goes on behind one more import.
LEMMA WalkOn ==
    ASSUME NEW q, NEW n \in Nat, NEW last, Walk(q, n, last), KindAt(q[n + 1], last) # 0,
           NEW tail \in Nat \ {0}, ~Cut(tail, last),
           tail = CountedTail(KindOf(q[n + 1], last), KindAt(q[n + 1], last) + 1, last)
    PROVE  \E r : /\ Walk(r, n + 1, last) /\ r[1] = q[1] /\ r[n + 2] = tail
                  /\ \A k : Met(r, k, n + 1, last) = Met(q, k, n + 1, last)
<1> DEFINE r == [j \in 1..(n + 2) |-> IF j = n + 2 THEN tail ELSE q[j]]
<1>1. q \in [1..(n + 1) -> Nat \ {0}]
  BY DEF Walk
<1>2. /\ r \in [1..(n + 2) -> Nat \ {0}] /\ r[n + 2] = tail /\ r[1] = q[1]
      /\ \A j \in 1..(n + 1) : r[j] = q[j]
  BY <1>1
<1> HIDE DEF r
<1>3. ASSUME NEW j \in 1..(n + 1)
      PROVE  /\ KindAt(r[j], last) # 0
             /\ r[j + 1] = CountedTail(KindOf(r[j], last), KindAt(r[j], last) + 1, last)
             /\ ~Cut(r[j + 1], last)
  <2>1. CASE j = n + 1
    <3>1. r[j] = q[n + 1] /\ r[j + 1] = tail
      BY <1>2, <2>1
    <3> QED  BY <3>1
  <2>2. CASE j # n + 1
    <3>1. j \in 1..n /\ j + 1 \in 1..(n + 1)
      BY <2>2
    <3>2. r[j] = q[j] /\ r[j + 1] = q[j + 1]
      BY <1>2, <3>1
    <3> QED  BY <3>1, <3>2 DEF Walk
  <2> QED  BY <2>1, <2>2
<1>4. Walk(r, n + 1, last)
  <2>1. n + 1 + 1 = n + 2
    OBVIOUS
  <2> QED  BY <1>2, <1>3, <2>1 DEF Walk
<1>5. \A k : Met(r, k, n + 1, last) = Met(q, k, n + 1, last)
  BY <1>2 DEF Met
<1> QED  BY <1>2, <1>4, <1>5

LEMMA WalkBegins ==
    ASSUME NEW p \in Nat \ {0}, NEW last
    PROVE  Walk([j \in 1..1 |-> p], 0, last) /\ [j \in 1..1 |-> p][1] = p
BY DEF Walk

\* The pass reads the file, which nothing writes.
LEMMA WalkStays ==
    ASSUME cells' = cells
    PROVE  /\ \A p, last : (KindAt(p, last)' = KindAt(p, last)) /\ (KindOf(p, last)' = KindOf(p, last))
           /\ \A q, n, last : Walk(q, n, last)' <=> Walk(q, n, last)
           /\ \A q, k, n, last : Met(q, k, n, last)' = Met(q, k, n, last)
<1>1. \A p, last : RunEnd(p, last)' = RunEnd(p, last)
  BY DEF RunEnd
<1>2. \A p, last : KindAt(p, last)' = KindAt(p, last)
  BY <1>1 DEF KindAt
<1>3. \A p, last : KindOf(p, last)' = KindOf(p, last)
  BY <1>2 DEF KindOf
<1>4. \A p, last, h : LimitsEnd(p, last, h)' = LimitsEnd(p, last, h)
  BY DEF LimitsEnd
<1>5. \A k, p, last : CountedTail(k, p, last)' = CountedTail(k, p, last)
  BY <1>4 DEF CountedTail
<1>6. \A q, n, last : Walk(q, n, last)' <=> Walk(q, n, last)
  BY <1>2, <1>3, <1>5 DEF Walk, Cut
<1>7. \A q, k, n, last : Met(q, k, n, last)' = Met(q, k, n, last)
  BY <1>3 DEF Met
<1> QED  BY <1>2, <1>3, <1>6, <1>7

\* Before the section is parsed.
NoneCounted == \A k \in Kinds : mod.imp[k].cnt = 0 /\ nxt[k] = 0

\* Before the n + 1st import is counted.
CountPass(q, n, last) ==
    /\ n \in Nat /\ item = n + 1 /\ n <= todo /\ last = Sec.last
    /\ Walk(q, n, last) /\ q[1] = Sec.pos /\ q[n + 1] = probe
    /\ \A k \in Kinds : /\ mod.imp[k].cnt = Cardinality(Met(q, k, n, last))
                        /\ nxt[k] = 0

\* Before the n + 1st of m imports is stored.
StorePass(q, n, m, last) ==
    /\ n \in Nat /\ item = n + 1 /\ m \in Nat /\ m = todo /\ n <= m /\ last = Sec.last
    /\ Walk(q, m, last) /\ q[n + 1] = Sec.pos
    /\ \A k \in Kinds : /\ mod.imp[k].cnt = Cardinality(Met(q, k, m, last))
                        /\ nxt[k] = Cardinality(Met(q, k, n, last)) + 1
                        /\ mod.imp[k].cnt > 0 => Len(mod.imp[k].elt) = mod.imp[k].cnt

NoTables == mod.imp[TabKind].cnt = 0

\* Behind the section.
Agreed ==
    NoTables => \A k \in Kinds : mod.imp[k].cnt = IF nxt[k] = 0 THEN 0 ELSE nxt[k] - 1

InImports == Parsing(Import) /\ item > 0

ImportsAhead == \A i \in SectionsOf(Import) : at < i \/ (at = i /\ item = 0)

CountsAt ==
    /\ ImportsAhead => NoneCounted /\ probe = 0
    /\ ~ImportsAhead /\ ~InImports => Agreed /\ probe = 0
    /\ InImports /\ probe # 0 => \E q, n, last : CountPass(q, n, last)
    /\ InImports /\ probe = 0 =>
          \/ todo = 0 /\ item = 1 /\ NoneCounted
          \/ NoTables => \E q, n, m, last : StorePass(q, n, m, last)

LoadStates == {"open", "header", "sections", "parse", "free", "close", "load_null", "done"}
                \cup GoneStates

\* What is lost within the imports is lost for a kind there is none of.
LostRight ==
    (pc \in LostStates /\ parsed = "none" /\ at \in SectionsOf(Import) /\ item > 0) =>
        LET kind == KindAt(Sec.pos, Sec.last)
        IN kind = 0 \/ cells[kind] \notin Kinds

CountInv ==
    /\ parsed = "none" => pc \in LoadStates
    /\ parsed = "none" /\ pc \notin GoneStates \cup {"parse"} => item = 0
    /\ pc = "parse" => parsed = "none"
    /\ pc \in {"open", "header", "sections"} => NoneCounted /\ probe = 0
    /\ NoSectionTwice /\ pc = "parse" => CountsAt
    /\ NoSectionTwice /\ parsed = "ok" => Agreed
    /\ NoSectionTwice /\ NoTables => LostRight

LEMMA CountsFollow == CountInv => CountsRight
BY DEF CountInv, CountsRight, NoTables, Agreed, LostRight

\* The count of each import kind and the stores of it, seen as numbers.
LEMMA ImportCounts ==
    ASSUME Typed
    PROVE  \A k \in Kinds : mod.imp[k].cnt \in Nat /\ nxt[k] \in Nat
BY TypedParts DEF Typed, IsModule, ImpRecs

LEMMA NoneAgrees ==
    ASSUME NoneCounted
    PROVE  Agreed
BY DEF NoneCounted, Agreed

-----------------------------------------------------------------------------
\* A step outside the parse.
LEMMA CountsRest ==
    ASSUME Typed, IsModule(mod'), CountInv, pc \notin GoneStates \cup {"parse"},
           pc' \notin {"open", "header", "sections", "parse"},
           parsed' = parsed, nxt' = nxt, mod'.secs = mod.secs,
           \A k \in Kinds : mod'.imp[k].cnt = mod.imp[k].cnt,
           parsed = "none" => pc' \in LoadStates,
           item' = item \/ item' = 0
    PROVE  CountInv'
<1>1. IsModule(mod)
  BY TypedParts DEF Typed
<1>2. NoSectionTwice' <=> NoSectionTwice
  BY DEF NoSectionTwice, SectionsOf
<1>3. Agreed' <=> Agreed
  <2>1. TabKind \in Kinds
    BY DEF TabKind, Kinds
  <2> QED  BY <2>1 DEF Agreed, NoTables
<1>4. parsed' = "none" => item' = 0
  BY DEF CountInv
<1>5. LostRight'
  BY <1>4 DEF LostRight
<1>6. NoSectionTwice' /\ parsed' = "ok" => Agreed'
  BY <1>2, <1>3 DEF CountInv
<1> QED  BY <1>4, <1>5, <1>6 DEF CountInv

\* A step that leaves the imports as they are.
LEMMA ImportsRest ==
    ASSUME Typed, CountInv, pc \notin GoneStates \cup {"parse"}, IsModule(mod'),
           pc' \notin {"open", "header", "sections", "parse"},
           UNCHANGED <<nxt, parsed>>, mod'.secs = mod.secs, mod'.imp = mod.imp,
           parsed = "none" => pc' \in LoadStates,
           item' = item \/ item' = 0
    PROVE  CountInv'
BY CountsRest

LEMMA LoadCounts ==
    ASSUME Typed, LoadInv, CountInv, LoadFile, IsModule(mod')
    PROVE  CountInv'
<1>1. IsModule(mod) /\ item \in Nat
  BY TypedParts DEF Typed, LoopTyped
<1> USE DEF GoneStates, LostStates, LoadStates
<1>2. CASE OpenFails \/ ReadFails \/ BadHeader \/ CloseFile
  <2>1. /\ pc \in {"open", "header", "close"} /\ pc' \in {"load_null", "close"}
        /\ UNCHANGED loaderVars
    BY <1>2 DEF OpenFails, ReadFails, BadHeader, CloseFile
  <2> QED  BY <1>1, <2>1, ImportsRest DEF loaderVars
<1>3. CASE Detach
  <2>1. pc = "detach" /\ pc' = "loaded" /\ mod' = [mod EXCEPT !.filedata = FileData]
        /\ UNCHANGED <<nxt, parsed, item>>
    BY <1>3 DEF Detach
  <2>2. mod'.secs = mod.secs /\ mod'.imp = mod.imp
    BY <1>1, <2>1 DEF IsModule
  <2>3. parsed # "none"
    BY <2>1 DEF CountInv
  <2> QED  BY <1>1, <2>1, <2>2, <2>3, ImportsRest
<1>4. CASE ReadFile \/ NewModule
  <2>1. /\ pc \in {"open", "header"} /\ pc' \in {"header", "sections", "close"}
        /\ UNCHANGED <<mod, item, nxt, probe, parsed>>
    <3>1. CASE ReadFile
      BY <3>1 DEF ReadFile, loaderVars
    <3>2. CASE NewModule
      BY <3>2 DEF NewModule
    <3> QED  BY <1>4, <3>1, <3>2
  <2>2. NoneCounted' /\ probe' = 0 /\ parsed' = "none" /\ item' = 0
    BY <2>1 DEF CountInv, NoneCounted, LoadInv
  <2> QED  BY <2>1, <2>2 DEF CountInv, LostRight
<1>5. CASE SplitSection \/ SplitEnds
  <2>1. /\ pc = "sections" /\ pc' \in {"sections", "free", "parse"}
        /\ UNCHANGED <<item, nxt, probe, parsed>>
        /\ pc' = "parse" => at' = 1 /\ mod' = mod
    <3>1. CASE SplitSection
      BY <3>1 DEF SplitSection, LoadFails
    <3>2. CASE SplitEnds
      BY <3>2 DEF SplitEnds, LoadFails
    <3> QED  BY <1>5, <3>1, <3>2
  <2>2. mod'.imp = mod.imp
    <3>1. CASE SplitSection
      <4>1. mod' = mod \/ \E secs, code : mod' = [mod EXCEPT !.secs = secs, !.code = code]
        BY <3>1 DEF SplitSection
      <4> QED  BY <1>1, <4>1 DEF IsModule
    <3>2. CASE SplitEnds
      BY <3>2 DEF SplitEnds
    <3> QED  BY <1>5, <3>1, <3>2
  <2>3. NoneCounted' /\ probe' = 0 /\ parsed' = "none" /\ item' = 0
    BY <2>1, <2>2 DEF CountInv, NoneCounted, LoadInv
  <2>4. pc' = "parse" => CountsAt'
    <3> SUFFICES ASSUME pc' = "parse" PROVE CountsAt'
      OBVIOUS
    <3>1. at' = 1 /\ mod' = mod
      BY <2>1
    <3>2. ImportsAhead'
      <4>1. \A i \in SectionsOf(Import)' : i \in Nat \ {0}
        BY <1>1, <3>1, SectionsOfModule DEF SectionsOf
      <4> QED  BY <2>3, <3>1, <4>1 DEF ImportsAhead
    <3>3. ~InImports'
      BY <2>3 DEF InImports
    <3> QED  BY <2>3, <3>2, <3>3 DEF CountsAt
  <2> QED  BY <2>1, <2>3, <2>4 DEF CountInv, LostRight
<1> QED  BY <1>2, <1>3, <1>4, <1>5 DEF LoadFile

LEMMA FreeCounts ==
    ASSUME Typed, CountInv, FreeModule, IsModule(mod')
    PROVE  CountInv'
<1>1. /\ pc = "free" /\ nxt' = nxt /\ back \in {"none", "close", "done"}
      /\ \/ NextSection
         \/ \E how \in LostStates : Lost(how)
         \/ pc' \in LostStates \cup {back} /\ UNCHANGED <<at, item, todo, parsed>>
      /\ mod' = mod \/ mod' = WithImports(mod, ArraysTaken(mod.imp))
  BY FreeSteps, TypedParts DEF Typed
<1>2. /\ pc' \in LostStates \cup {"free", "close", "done"} /\ parsed' = parsed
      /\ item' = item \/ item' = 0
  <2>1. back \in {"close", "done"}
    BY <1>1, TypedParts DEF Typed
  <2> QED  BY <1>1, <2>1 DEF NextSection, Lost
<1>3. mod'.secs = mod.secs /\ \A k \in Kinds : mod'.imp[k].cnt = mod.imp[k].cnt
  <2>1. CASE mod' = mod
    BY <2>1
  <2>2. CASE mod' = WithImports(mod, ArraysTaken(mod.imp))
    <3>1. IsModule(mod)
      BY TypedParts DEF Typed
    <3>2. mod'.secs = mod.secs /\ mod'.imp = ArraysTaken(mod.imp)
      BY <2>2, <3>1 DEF WithImports, IsModule
    <3>3. \A k \in Kinds : mod.imp[k] \in ImpRecs
      BY <3>1 DEF IsModule
    <3> QED  BY <3>2, <3>3 DEF ArraysTaken, ImpRecs
  <2> QED  BY <1>1, <2>1, <2>2
<1> QED  BY <1>1, <1>2, <1>3, CountsRest DEF GoneStates, LostStates, LoadStates

LEMMA InstanceCounts ==
    ASSUME Typed, CountInv, InstanceStep
    PROVE  CountInv'
<1>1. /\ pc \in {"compile", "resolve", "exports", "run"}
      /\ pc' \in InstanceStates
      /\ UNCHANGED <<item, nxt, parsed>> /\ IsModule(mod')
      /\ mod'.secs = mod.secs /\ mod'.imp = mod.imp
  BY InstanceGoes, InstanceKeeps DEF CompileKeeps
<1>2. parsed # "none"
  BY <1>1 DEF CountInv, LoadStates, GoneStates, LostStates
<1> QED  BY <1>1, <1>2, ImportsRest DEF InstanceStates, GoneStates, LostStates

LEMMA DriverCounts ==
    ASSUME Typed, CountInv,
           LoadedNothing \/ LoadedModule \/ RegisterNext \/ RegisteredAll
             \/ Compiled \/ GivesUp \/ Succeeds
    PROVE  CountInv'
<1>1. /\ pc \in {"load_null", "loaded", "register", "compiled", "failed", "succeeded"}
      /\ pc' \in {"crash", "register", "compile", "run", "free", "done"}
      /\ pc = "load_null" => pc' = "crash"
      /\ UNCHANGED <<mod, nxt, parsed>> /\ (item' = item \/ item' = 0)
  <2>1. CASE RegisterNext
    BY <2>1, RegisterHeap DEF RegisterNext, loaderVars
  <2>2. CASE LoadedModule
    BY <2>2 DEF LoadedModule, NewWrap, loaderVars
  <2>3. CASE LoadedNothing \/ RegisteredAll \/ Compiled \/ GivesUp \/ Succeeds
    BY <2>3 DEF LoadedNothing, RegisteredAll, Compiled, GivesUp, Succeeds, loaderVars
  <2> QED  BY <2>1, <2>2, <2>3
<1>2. IsModule(mod')
  BY <1>1, TypedParts DEF Typed, IsModule
<1>3. parsed = "none" => pc' = "crash"
  BY <1>1 DEF CountInv, LoadStates, GoneStates, LostStates
<1> QED  BY <1>1, <1>2, <1>3, ImportsRest DEF GoneStates, LostStates, LoadStates

\* A step of fw_module_parse, put together.
LEMMA ParseCount ==
    ASSUME Typed, CountInv, ParseStep,
           NoSectionTwice => /\ pc' = "parse" => CountsAt'
                             /\ parsed' = "ok" => Agreed'
                             /\ NoTables' => LostRight'
    PROVE  CountInv'
<1>1. IsModule(mod) /\ IsModule(mod') /\ SameSections(mod', mod)
  BY TypedParts DEF Typed, ParseStep, Keeps
<1>2. NoSectionTwice' <=> NoSectionTwice
  BY <1>1, SectionsStay
<1>3. pc = "parse" /\ parsed = "none" /\ Control
  BY DEF CountInv, ParseStep
<1>4. \/ pc' = "detach" /\ parsed' # "none"
      \/ pc' \in {"parse"} \cup GoneStates /\ parsed' = "none"
  BY <1>3 DEF Control, NextTurn, NextSection, Lost, GoesOn
<1>5. /\ parsed' = "none" => pc' \in {"parse"} \cup GoneStates
      /\ pc' = "parse" => parsed' = "none"
      /\ pc' \notin {"open", "header", "sections"}
  BY <1>4 DEF GoneStates, LostStates
<1> QED  BY <1>2, <1>5 DEF CountInv, LoadStates

LEMMA CursorsRest ==
    ASSUME ParseFile, ~Parsing(Import)
    PROVE  nxt' = nxt /\ probe' = probe
BY DEF ParseFile, NoCount, ZeroCount, BeginVector, SectionEnds, SkipSection, PlainEntry,
       TypeEntry, ExportEntry, ElemEntry, BeginMemory, ParseStart, BeginFuncs, FuncEntry,
       BeginImports, CountImport, ImportArrays, ImportCut, ImportStray, ImportEntry,
       ParseEnds, UnchangedFile, Begins, Turn, Counting

\* The handlers of the other sections.
LEMMA OthersCount ==
    ASSUME Typed, CountInv, ParseFile, ~Parsing(Import)
    PROVE  CountInv'
<1>1. /\ ParseStep /\ pc = "parse" /\ Control /\ Writes /\ Onward
      /\ IsModule(mod') /\ SameSections(mod', mod)
  BY ParseSteps DEF ParseStep, Keeps
<1>2. mod'.imp = mod.imp /\ nxt' = nxt /\ probe' = probe
  BY <1>1, WritesOwn, CursorsRest
<1>3. IsModule(mod) /\ at \in Nat
  BY TypedParts DEF Typed, LoopTyped
<1>4. /\ SectionsOf(Import)' = SectionsOf(Import) /\ at \notin SectionsOf(Import)
      /\ \A i \in SectionsOf(Import) : i \in Nat
      /\ Len(mod'.secs) = Len(mod.secs) /\ Len(mod.secs) \in Nat
      /\ \A i \in 1..Len(mod.secs) : mod'.secs[i].type = mod.secs[i].type
  BY <1>1, <1>3, SectionsStay, SectionsOfModule DEF SectionsOf, Parsing, Sec, SameSections
<1>5. (NoneCounted' <=> NoneCounted) /\ (Agreed' <=> Agreed)
  BY <1>2 DEF NoneCounted, Agreed, NoTables
<1>6. ASSUME NoSectionTwice
      PROVE  Agreed /\ probe = 0
  BY <1>1, <1>6, NoneAgrees DEF CountInv, CountsAt, InImports
<1>7. ASSUME NoSectionTwice, pc' = "parse"
      PROVE  CountsAt'
  <2>1. NextSection \/ (at' = at /\ item' # 0)
    BY <1>1, <1>7 DEF Onward
  <2>2. ~InImports'
    <3>1. CASE NextSection
      BY <3>1 DEF NextSection, InImports
    <3>2. CASE at' = at
      <4>1. ~Parsing(Import)'
        <5>1. at # 0
          BY <1>1, TypedParts DEF Typed
        <5> QED  BY <1>1, <1>3, <1>4, <1>7, <3>2, <5>1 DEF Parsing, Sec
      <4> QED  BY <4>1 DEF InImports
    <3> QED  BY <2>1, <3>1, <3>2
  <2>3. ImportsAhead' <=> \A i \in SectionsOf(Import) : at < i
    <3>1. CASE NextSection
      <4>1. at' = at + 1 /\ item' = 0
        BY <3>1 DEF NextSection
      <4> QED  BY <1>3, <1>4, <4>1 DEF ImportsAhead
    <3>2. CASE at' = at /\ item' # 0
      BY <1>4, <3>2 DEF ImportsAhead
    <3> QED  BY <2>1, <3>1, <3>2
  <2>4. ImportsAhead <=> \A i \in SectionsOf(Import) : at < i
    BY <1>4 DEF ImportsAhead
  <2>5. ImportsAhead => NoneCounted /\ probe = 0
    BY <1>1, <1>7 DEF CountInv, CountsAt
  <2> QED  BY <1>2, <1>5, <1>6, <1>7, <2>2, <2>3, <2>4, <2>5 DEF CountsAt
<1>8. LostRight'
  <2>1. pc' \in LostStates => at' = at
    BY <1>1 DEF Control, NextTurn, NextSection, Lost, GoesOn, LostStates
  <2> QED  BY <1>4, <2>1 DEF LostRight
<1> QED  BY <1>1, <1>5, <1>6, <1>7, <1>8, ParseCount

-----------------------------------------------------------------------------
\* The handler of the imports.
LEMMA ImportActions ==
    ASSUME Typed, ParseFile, Parsing(Import)
    PROVE  \/ NoCount \/ ZeroCount \/ SectionEnds \/ BeginImports \/ CountImport
           \/ ImportArrays \/ ImportCut \/ ImportStray \/ ImportEntry
<1>1. \A k : Begins(k) \/ Turn(k) \/ Parsing(k) => k = Import
  BY DEF Begins, Turn, Parsing
<1>2. Import \notin Vectors \cup {Start, Custom, Code}
  BY DEF Import, Vectors, Type, Function, Table, Memory, Global, Export, Elem, Data,
         Start, Custom, Code
<1>3. {Type, Function, Table, Memory, Global, Export, Elem, Data} \subseteq Vectors
  BY DEF Vectors
<1>4. ~BeginVector /\ ~BeginMemory /\ ~BeginFuncs /\ ~FuncEntry
  BY <1>1, <1>2, <1>3 DEF BeginVector, BeginMemory, BeginFuncs, FuncEntry
<1>5. ~SkipSection /\ ~PlainEntry /\ ~TypeEntry /\ ~ExportEntry
  BY <1>1, <1>2, <1>3 DEF SkipSection, PlainEntry, TypeEntry, ExportEntry
<1>6. ~ElemEntry /\ ~ParseStart
  BY <1>1, <1>2, <1>3 DEF ElemEntry, ParseStart
<1>7. ~ParseEnds
  <2>1. at \in 1..Len(mod.secs) /\ Len(mod.secs) \in Nat
    BY AtImports, TypedParts, SectionsOfModule DEF Typed
  <2> QED  BY <2>1 DEF ParseEnds
<1> QED  BY <1>4, <1>5, <1>6, <1>7 DEF ParseFile

\* Where the imports are before and after a turn of it.
LEMMA InImportsParts ==
    ASSUME Typed, NoSectionTwice, Parsing(Import), ParseStep
    PROVE  /\ at \in SectionsOf(Import) /\ at \in SectionsOf(Import)'
           /\ ImportsAhead <=> item = 0
           /\ InImports <=> item > 0
           /\ pc' = "parse" /\ at' = at /\ item' \in Nat \ {0} => InImports' /\ ~ImportsAhead'
           /\ NextSection => ~InImports' /\ ~ImportsAhead'
           /\ Sec.last = mod'.secs[at].last
<1>1. /\ pc = "parse" /\ at \in 1..Len(mod.secs) /\ at \in Nat /\ IsModule(mod)
      /\ IsModule(mod') /\ SameSections(mod', mod) /\ Sec.type = Import
      /\ item \in Nat
  BY AtImports DEF ParseStep, Keeps, Parsing
<1>2. SectionsOf(Import)' = SectionsOf(Import) /\ at \in SectionsOf(Import)
  BY <1>1, SectionsStay, SectionsOfModule DEF SectionsOf, Sec
<1>3. \A i \in SectionsOf(Import) : i = at
  <2> SUFFICES ASSUME NEW i \in SectionsOf(Import) PROVE i = at
    OBVIOUS
  <2>1. i \in 1..Len(mod.secs) /\ mod.secs[i].type = Import
    BY <1>1, SectionsOfModule DEF SectionsOf
  <2>2. mod.secs[at].type = mod.secs[i].type /\ mod.secs[i].type \in Counted
    BY <1>1, <2>1 DEF Counted, Sec
  <2> QED  BY <1>1, <2>1, <2>2, OnlyOne
<1>4. ImportsAhead <=> item = 0
  BY <1>1, <1>2, <1>3 DEF ImportsAhead
<1>5. InImports <=> item > 0
  BY DEF InImports
<1>6. ASSUME pc' = "parse", at' = at, item' \in Nat \ {0}
      PROVE  InImports' /\ ~ImportsAhead'
  <2>1. Parsing(Import)'
    BY <1>1, <1>6 DEF Parsing, Sec, SameSections
  <2>2. InImports'
    BY <1>6, <2>1 DEF InImports
  <2> QED  BY <1>1, <1>2, <1>6, <2>2 DEF ImportsAhead
<1>7. ASSUME NextSection PROVE ~InImports' /\ ~ImportsAhead'
  BY <1>1, <1>2, <1>7 DEF NextSection, InImports, ImportsAhead
<1>8. Sec.last = mod'.secs[at].last
  BY <1>1 DEF Sec, SameSections
<1> QED  BY <1>2, <1>4, <1>5, <1>6, <1>7, <1>8

\* Its beginning.
LEMMA BeginsCount ==
    ASSUME Typed, CountInv, Parsing(Import), NoCount \/ ZeroCount \/ BeginImports
    PROVE  CountInv'
<1>1. ParseStep /\ pc = "parse"
  BY ParseSteps DEF ParseFile, ParseStep
<1>2. item = 0 /\ nxt' = nxt
  BY DEF NoCount, ZeroCount, BeginImports, Begins
<1>3. /\ IsModule(mod) /\ at \in 1..Len(mod.secs) /\ Sec.type = Import
      /\ Sec.pos \in Nat \ {0} /\ todo \in Nat
      /\ Sec.pos < Sec.last => cells[Sec.pos] \in Nat
  BY AtImports DEF Parsing
<1>4. Import # Type
  BY DEF Import, Type
<1>5. \/ Errs
      \/ /\ GoesOn(1, 0) /\ probe' = probe /\ mod' = Moved(mod, Sec.pos + 1)
      \/ /\ GoesOn(1, cells[Sec.pos]) /\ cells[Sec.pos] > 0 /\ Sec.pos < Sec.last
         /\ probe' = Sec.pos + 1 /\ mod' = Moved(mod, Sec.pos + 1)
  BY <1>3, <1>4 DEF NoCount, ZeroCount, BeginImports, UnchangedFile
<1>6. CASE Errs
  BY <1>1, <1>6, ParseCount DEF Errs, LostStates, LostRight
<1>7. CASE ~Errs
  <2>1. /\ mod'.imp = mod.imp /\ mod'.secs[at].pos = Sec.pos + 1
    <3>1. mod' = [mod EXCEPT !.secs[at].pos = Sec.pos + 1]
      BY <1>5, <1>7 DEF Moved
    <3> QED  BY <1>3, <3>1, CursorMoved
  <2>2. pc' = "parse" /\ at' = at /\ item' = 1 /\ parsed' = parsed
    BY <1>1, <1>5, <1>7 DEF GoesOn
  <2>3. ASSUME NoSectionTwice PROVE CountsAt'
    <3>1. NoneCounted /\ probe = 0
      BY <1>1, <1>2, <2>3, InImportsParts DEF CountInv, CountsAt
    <3>2. NoneCounted'
      BY <1>2, <2>1, <3>1 DEF NoneCounted
    <3>3. InImports' /\ ~ImportsAhead'
      BY <1>1, <2>2, <2>3, InImportsParts
    <3>4. CASE probe' = probe /\ GoesOn(1, 0)
      BY <2>2, <3>1, <3>2, <3>3, <3>4 DEF CountsAt, GoesOn
    <3>5. CASE GoesOn(1, cells[Sec.pos]) /\ cells[Sec.pos] > 0 /\ Sec.pos < Sec.last
                 /\ probe' = Sec.pos + 1
      <4>1. PICK p : p = Sec.pos + 1
        OBVIOUS
      <4>2. PICK last : last = Sec.last
        OBVIOUS
      <4> DEFINE q == [j \in 1..1 |-> p]
      <4>3. Walk(q, 0, last) /\ q[1] = p
        <5>1. p \in Nat \ {0}
          BY <1>3, <4>1
        <5> QED  BY <5>1, WalkBegins
      <4>4. \A k \in Kinds : Cardinality(Met(q, k, 0, last)) = 0
        BY NoneMet
      <4> HIDE DEF q
      <4>5. cells' = cells
        BY <1>1 DEF ParseStep
      <4>6. Walk(q, 0, last)' /\ \A k \in Kinds : Met(q, k, 0, last)' = Met(q, k, 0, last)
        BY <4>3, <4>5, WalkStays
      <4>7. item' = 1 /\ todo' = cells[Sec.pos] /\ Sec'.last = last /\ Sec'.pos = p
        BY <1>1, <2>1, <2>2, <2>3, <3>5, <4>1, <4>2, InImportsParts DEF GoesOn, Sec
      <4>8. CountPass(q, 0, last)'
        <5>1. 0 \in Nat /\ item' = 0 + 1 /\ 0 + 1 = 1
          BY <4>7
        <5>2. 0 <= todo'
          BY <1>3, <3>5, <4>7
        <5>3. \A k \in Kinds : mod'.imp[k].cnt = Cardinality(Met(q, k, 0, last)')
                             /\ nxt'[k] = 0
          BY <3>2, <4>4, <4>6 DEF NoneCounted
        <5>4. q[1] = Sec'.pos /\ q[1] = probe'
          BY <3>5, <4>1, <4>3, <4>7
        <5> QED  BY <4>6, <4>7, <5>1, <5>2, <5>3, <5>4 DEF CountPass
      <4>9. probe' # 0
        BY <1>3, <3>5
      <4> QED  BY <3>3, <4>8, <4>9 DEF CountsAt
    <3> QED  BY <1>5, <1>7, <3>4, <3>5
  <2>4. parsed' # "ok" /\ LostRight'
    BY <1>1, <2>2 DEF CountInv, LostRight, LostStates
  <2> QED  BY <1>1, <2>3, <2>4, ParseCount
<1> QED  BY <1>6, <1>7

\* The cursors and the counts the passes compare, in the next state.
LEMMA CountAdded ==
    ASSUME NEW m, IsModule(m), NEW kind \in Kinds
    PROVE  LET q == [m EXCEPT !.imp[kind].cnt = @ + 1] IN
           /\ q.secs = m.secs
           /\ \A k \in Kinds : q.imp[k].cnt = m.imp[k].cnt + (IF kind = k THEN 1 ELSE 0)
<1> SUFFICES ASSUME NEW q, q = [m EXCEPT !.imp[kind].cnt = @ + 1]
             PROVE  /\ q.secs = m.secs
                    /\ \A k \in Kinds : q.imp[k].cnt = m.imp[k].cnt + (IF kind = k THEN 1 ELSE 0)
  OBVIOUS
<1>1. \A k \in Kinds : m.imp[k].cnt \in Nat
  BY DEF IsModule, ImpRecs
<1>2. q.secs = m.secs /\ q.imp = [m.imp EXCEPT ![kind] = [m.imp[kind] EXCEPT !.cnt = m.imp[kind].cnt + 1]]
  BY DEF IsModule
<1>3. \A k \in Kinds : m.imp[k] \in ImpRecs
  BY DEF IsModule
<1>4. m.imp \in [Kinds -> ImpRecs]
  BY DEF IsModule
<1>5. \A k \in Kinds : k # kind => q.imp[k] = m.imp[k]
  BY <1>2, <1>4
<1>6. q.imp[kind].cnt = m.imp[kind].cnt + 1
  BY <1>2, <1>3, <1>4 DEF ImpRecs
<1> QED  BY <1>1, <1>2, <1>5, <1>6

LEMMA CountOn ==
    ASSUME Typed, CountInv, CountImport
    PROVE  CountInv'
<1>1. ParseStep /\ pc = "parse" /\ cells' = cells
  BY ParseSteps DEF ParseFile, ParseStep
<1>2. Parsing(Import) /\ probe # 0 /\ item <= todo /\ nxt' = nxt
  BY DEF CountImport, Counting
<1>3. PICK last : last = Sec.last
  OBVIOUS
<1>4. PICK p : p = probe
  OBVIOUS
<1>5. PICK at0 : at0 = KindAt(p, last)
  OBVIOUS
<1>6. PICK kind : kind = cells[at0]
  OBVIOUS
<1>7. PICK tail : tail = CountedTail(kind, at0 + 1, last)
  OBVIOUS
<1>8. /\ last \in Nat /\ p \in Nat \ {0} /\ IsModule(mod) /\ item \in Nat /\ todo \in Nat
      /\ \A i \in Nat \ {0} : i < last => cells[i] \in Nat
      /\ at \in 1..Len(mod.secs)
  BY <1>2, <1>3, <1>4, AtImports
<1>9. IF at0 = 0 THEN Errs /\ UNCHANGED <<mod, probe>>
      ELSE /\ mod' = IF kind \in Kinds THEN [mod EXCEPT !.imp[kind].cnt = @ + 1] ELSE mod
           /\ IF Cut(tail, last) THEN Errs /\ UNCHANGED probe
                                 ELSE NextTurn /\ probe' = tail
  BY <1>3, <1>4, <1>5, <1>6, <1>7 DEF CountImport
<1>10. CASE Errs
  BY <1>1, <1>10, ParseCount DEF Errs, LostStates, LostRight
<1>11. CASE ~Errs
  <2>1. at0 # 0 /\ ~Cut(tail, last) /\ NextTurn /\ probe' = tail
    BY <1>9, <1>11
  <2>2. mod'.secs = mod.secs
        /\ \A k \in Kinds : mod'.imp[k].cnt = mod.imp[k].cnt + (IF kind = k THEN 1 ELSE 0)
    <3>1. CASE kind \in Kinds
      <4>1. mod' = [mod EXCEPT !.imp[kind].cnt = @ + 1]
        BY <1>9, <2>1, <3>1
      <4>2. LET q == [mod EXCEPT !.imp[kind].cnt = @ + 1] IN
             /\ q.secs = mod.secs
             /\ \A k \in Kinds : q.imp[k].cnt = mod.imp[k].cnt + (IF kind = k THEN 1 ELSE 0)
        BY <1>8, <3>1, CountAdded
      <4> QED  BY <4>1, <4>2
    <3>2. CASE kind \notin Kinds
      BY <1>8, <1>9, <2>1, <3>2 DEF IsModule, ImpRecs
    <3> QED  BY <3>1, <3>2
  <2>3. tail \in Nat \ {0}
    <3>1. at0 + 1 \in Nat \ {0}
      BY <1>5, <1>8, <2>1, KindAtTyped
    <3>2. LimitsEnd(at0 + 1, last, 1) \in 0..last
      BY <1>8, <3>1, EndsTyped
    <3>3. LimitsEnd(at0 + 1, last, 1) \in Nat
      BY <1>8, <3>2
    <3>4. tail \in Nat
      BY <1>7, <3>1, <3>3 DEF CountedTail
    <3> QED  BY <2>1, <3>4 DEF Cut
  <2>4. pc' = "parse" /\ at' = at /\ item' = item + 1 /\ todo' = todo /\ parsed' = parsed
    BY <1>1, <2>1 DEF NextTurn, GoesOn
  <2>5. ASSUME NoSectionTwice PROVE CountsAt'
    <3>1. InImports /\ InImports' /\ ~ImportsAhead' /\ Sec'.last = last /\ Sec'.pos = Sec.pos
      <4>1. item > 0 \/ item = 0
        BY <1>8
      <4>2. item # 0
        <5>1. ImportsAhead <=> item = 0
          BY <1>1, <1>2, <2>5, InImportsParts
        <5> QED  BY <1>1, <1>2, <2>5, <5>1 DEF CountInv, CountsAt
      <4>3. item' \in Nat \ {0}
        BY <1>8, <2>4
      <4> QED  BY <1>1, <1>2, <1>3, <2>2, <2>4, <2>5, <4>1, <4>2, <4>3, InImportsParts DEF Sec
    <3>2. PICK q, n : CountPass(q, n, last)
      BY <1>1, <1>2, <1>3, <2>5, <3>1 DEF CountInv, CountsAt, CountPass
    <3>3. /\ n \in Nat /\ item = n + 1 /\ Walk(q, n, last) /\ q[1] = Sec.pos /\ q[n + 1] = p
          /\ \A k \in Kinds : mod.imp[k].cnt = Cardinality(Met(q, k, n, last)) /\ nxt[k] = 0
      BY <1>4, <3>2 DEF CountPass
    <3>4. kind = KindOf(q[n + 1], last) /\ KindAt(q[n + 1], last) = at0
      BY <1>5, <1>6, <3>3 DEF KindOf
    <3>5. PICK r : /\ Walk(r, n + 1, last) /\ r[1] = q[1] /\ r[n + 2] = tail
                   /\ \A k : Met(r, k, n + 1, last) = Met(q, k, n + 1, last)
      BY <1>7, <2>1, <2>3, <3>3, <3>4, WalkOn
    <3>6. \A k \in Kinds : mod'.imp[k].cnt = Cardinality(Met(r, k, n + 1, last))
      BY <2>2, <3>3, <3>4, <3>5, MetMore
    <3>7. PICK n1 : n1 = n + 1
      OBVIOUS
    <3>8. /\ Walk(r, n1, last)' /\ r[n1 + 1] = tail /\ r[1] = q[1] /\ n1 \in Nat
          /\ \A k \in Kinds : mod'.imp[k].cnt = Cardinality(Met(r, k, n1, last)')
      <4>1. n1 + 1 = n + 2 /\ n1 \in Nat
        BY <3>3, <3>7
      <4> QED  BY <1>1, <3>5, <3>6, <3>7, <4>1, WalkStays
    <3>9. item' = n1 + 1 /\ n1 <= todo'
      BY <1>2, <1>8, <2>4, <3>3, <3>7
    <3>10. CountPass(r, n1, last)'
      BY <1>2, <2>1, <3>1, <3>3, <3>8, <3>9 DEF CountPass
    <3>11. probe' # 0
      BY <2>1, <2>3
    <3> QED  BY <3>1, <3>10, <3>11 DEF CountsAt
  <2>6. parsed' # "ok" /\ LostRight'
    BY <1>1, <2>4 DEF CountInv, LostRight, LostStates
  <2> QED  BY <1>1, <2>5, <2>6, ParseCount
<1> QED  BY <1>10, <1>11

\* The arrays are as long as the counts say.
LEMMA ArraysCount ==
    ASSUME Typed, CountInv, ImportArrays
    PROVE  CountInv'
<1>1. ParseStep /\ pc = "parse" /\ cells' = cells
  BY ParseSteps DEF ParseFile, ParseStep
<1>2. Parsing(Import) /\ probe # 0 /\ item > todo /\ nxt' = [k \in Kinds |-> 1] /\ probe' = 0
  BY DEF ImportArrays, Counting
<1> DEFINE Some == {k \in Kinds : mod.imp[k].cnt > 0}
           Fresh(k) == [cnt |-> mod.imp[k].cnt, arr |-> Array(k),
                        elt |-> [i \in 1..mod.imp[k].cnt |-> NoImport]]
           Given(b) == {k \in Some : k < b}
           Imps(b) == [k \in Kinds |-> IF k \in Given(b) THEN Fresh(k)
                                       ELSE IF k = b THEN [mod.imp[k] EXCEPT !.arr = Null]
                                       ELSE mod.imp[k]]
<1>3. PICK bad \in Some \cup {4} :
         /\ mod' = [mod EXCEPT !.imp = Imps(bad),
                               !.secs[at].free = IF bad = 4 THEN Import ELSE @]
         /\ IF bad = 4 THEN GoesOn(1, todo) ELSE Errs
  BY DEF ImportArrays
<1>4. /\ IsModule(mod) /\ at \in 1..Len(mod.secs) /\ item \in Nat /\ todo \in Nat
      /\ Sec.pos \in Nat \ {0} /\ Sec.last \in Nat
  BY <1>2, AtImports
<1>5. CASE bad # 4
  <2>1. Errs
    BY <1>3, <1>5
  <2> QED  BY <1>1, <2>1, ParseCount DEF Errs, LostStates, LostRight
<1>6. CASE bad = 4
  <2>1. /\ GoesOn(1, todo) /\ pc' = "parse" /\ at' = at /\ item' = 1 /\ todo' = todo
        /\ parsed' = parsed
    BY <1>1, <1>3, <1>6 DEF GoesOn
  <2>2. /\ mod'.imp = Imps(4) /\ mod'.secs[at].pos = Sec.pos
    <3>1. mod.secs \in Seq(SectionRecs) /\ mod.secs[at] \in SectionRecs
      BY <1>4, SectionsOfModule DEF IsModule
    <3> HIDE DEF Imps
    <3>2. mod' = [filedata |-> mod.filedata,
                  secs |-> [mod.secs EXCEPT ![at] = [mod.secs[at] EXCEPT !.free = Import]],
                  code |-> mod.code, start |-> mod.start, vec |-> mod.vec, imp |-> Imps(4),
                  instance |-> mod.instance]
      BY <1>3, <1>4, <1>6 DEF IsModule
    <3>3. mod'.imp = Imps(4)
          /\ mod'.secs = [mod.secs EXCEPT ![at] = [mod.secs[at] EXCEPT !.free = Import]]
      BY <3>2
    <3>4. at \in DOMAIN mod.secs
      BY <1>4, SectionsOfModule
    <3>5. mod'.secs[at] = [mod.secs[at] EXCEPT !.free = Import]
      BY <3>3, <3>4
    <3> QED  BY <3>1, <3>3, <3>5 DEF Sec, SectionRecs
  <2>3. ASSUME NEW k \in Kinds
        PROVE  /\ mod'.imp[k].cnt = mod.imp[k].cnt
               /\ mod.imp[k].cnt > 0 => Len(mod'.imp[k].elt) = mod.imp[k].cnt
    <3>1. mod.imp[k].cnt \in Nat
      BY <1>4 DEF IsModule, ImpRecs
    <3>2. k < 4 /\ k # 4
      BY DEF Kinds
    <3>3. CASE mod.imp[k].cnt > 0
      <4>1. mod'.imp[k] = Fresh(k)
        BY <2>2, <3>2, <3>3
      <4>2. NoImport \in {NoImport}
        OBVIOUS
      <4>3. Len([i \in 1..mod.imp[k].cnt |-> NoImport]) = mod.imp[k].cnt
        BY <3>1, <4>2, SameSeq
      <4>4. Fresh(k).cnt = mod.imp[k].cnt
            /\ Fresh(k).elt = [i \in 1..mod.imp[k].cnt |-> NoImport]
        OBVIOUS
      <4> HIDE DEF Fresh
      <4> QED  BY <4>1, <4>3, <4>4
    <3>4. CASE ~(mod.imp[k].cnt > 0)
      BY <2>2, <3>2, <3>4
    <3> QED  BY <3>3, <3>4
  <2> HIDE DEF Imps
  <2>4. ASSUME NoSectionTwice PROVE CountsAt'
    <3>1. PICK last : last = Sec.last
      OBVIOUS
    <3>2. InImports /\ InImports' /\ ~ImportsAhead' /\ Sec'.last = last /\ Sec'.pos = Sec.pos
      <4>1. item > 0
        <5>1. ImportsAhead <=> item = 0
          BY <1>1, <1>2, <2>4, InImportsParts
        <5>2. item # 0
          BY <1>1, <1>2, <2>4, <5>1 DEF CountInv, CountsAt
        <5> QED  BY <1>4, <5>2
      <4>2. item' \in Nat \ {0}
        BY <2>1
      <4> QED  BY <1>1, <1>2, <2>1, <2>2, <2>4, <3>1, <4>1, <4>2, InImportsParts DEF Sec
    <3>3. PICK q, n : CountPass(q, n, last)
      BY <1>1, <1>2, <2>4, <3>1, <3>2 DEF CountInv, CountsAt, CountPass
    <3>4. /\ n \in Nat /\ item = n + 1 /\ n <= todo /\ Walk(q, n, last) /\ q[1] = Sec.pos
          /\ \A k \in Kinds : mod.imp[k].cnt = Cardinality(Met(q, k, n, last)) /\ nxt[k] = 0
      BY <3>3 DEF CountPass
    <3>5. n = todo
      BY <1>2, <1>4, <3>4
    <3>6. /\ Walk(q, n, last)'
          /\ \A k \in Kinds : /\ mod'.imp[k].cnt = Cardinality(Met(q, k, n, last)')
                              /\ Cardinality(Met(q, k, 0, last)') = 0
      BY <1>1, <2>3, <3>4, WalkStays, NoneMet
    <3>7. \A k \in Kinds : /\ nxt'[k] = Cardinality(Met(q, k, 0, last)') + 1
                           /\ mod'.imp[k].cnt > 0 => Len(mod'.imp[k].elt) = mod'.imp[k].cnt
      BY <1>2, <2>3, <3>6
    <3>8. 0 \in Nat /\ item' = 0 + 1 /\ n = todo' /\ 0 <= n /\ 0 + 1 = 1 /\ last = Sec'.last
          /\ q[1] = Sec'.pos
      BY <2>1, <3>2, <3>4, <3>5
    <3>9. StorePass(q, 0, n, last)'
      BY <3>4, <3>6, <3>7, <3>8 DEF StorePass
    <3> QED  BY <1>2, <3>2, <3>9 DEF CountsAt
  <2>5. parsed' # "ok" /\ LostRight'
    BY <1>1, <2>1 DEF CountInv, LostRight, LostStates
  <2> QED  BY <1>1, <2>4, <2>5, ParseCount
<1> QED  BY <1>5, <1>6

\* An import is stored only where one was counted.
LEMMA StoredCounts ==
    ASSUME Typed, CountInv, NoSectionTwice, Turn(Import), NoTables, ParseFile
    PROVE  \E q, n, m, last : StorePass(q, n, m, last) /\ n < m
<1>1. Parsing(Import) /\ item \in 1..todo /\ probe = 0
  BY DEF Turn
<1>2. pc = "parse" /\ item \in Nat /\ todo \in Nat /\ InImports
  BY <1>1, AtImports DEF InImports
<1>3. todo # 0
  BY <1>1, <1>2
<1>4. PICK q, n, m, last : StorePass(q, n, m, last)
  BY <1>1, <1>2, <1>3 DEF CountInv, CountsAt
<1>5. n < m
  BY <1>1, <1>2, <1>4 DEF StorePass
<1> QED  BY <1>4, <1>5

LEMMA PlaceCounted ==
    ASSUME Typed, NEW q, NEW n, NEW m, NEW last, StorePass(q, n, m, last), n < m
    PROVE  LET kind == KindOf(Sec.pos, Sec.last) IN
           kind \in Kinds =>
              /\ mod.imp[kind].cnt > 0
              /\ nxt[kind] <= mod.imp[kind].cnt
              /\ Len(mod.imp[kind].elt) = mod.imp[kind].cnt
<1> SUFFICES ASSUME NEW kind \in Kinds, kind = KindOf(Sec.pos, Sec.last)
             PROVE  /\ mod.imp[kind].cnt > 0
                    /\ nxt[kind] <= mod.imp[kind].cnt
                    /\ Len(mod.imp[kind].elt) = mod.imp[kind].cnt
  OBVIOUS
<1>1. /\ n \in Nat /\ m \in Nat /\ last = Sec.last /\ q[n + 1] = Sec.pos
      /\ mod.imp[kind].cnt = Cardinality(Met(q, kind, m, last))
      /\ nxt[kind] = Cardinality(Met(q, kind, n, last)) + 1
      /\ mod.imp[kind].cnt > 0 => Len(mod.imp[kind].elt) = mod.imp[kind].cnt
  BY DEF StorePass
<1>2. kind = KindOf(q[n + 1], last)
  BY <1>1
<1>3. Cardinality(Met(q, kind, n, last)) < Cardinality(Met(q, kind, m, last))
  BY <1>1, <1>2, MetLater
<1>4. Cardinality(Met(q, kind, n, last)) \in Nat /\ Cardinality(Met(q, kind, m, last)) \in Nat
  BY <1>1, MetMore
<1> QED  BY <1>1, <1>3, <1>4

LEMMA StrayCounts ==
    ASSUME Typed, CountInv, ImportCut \/ ImportStray
    PROVE  CountInv'
<1>1. ParseStep /\ pc = "parse" /\ cells' = cells
  BY ParseSteps DEF ParseFile, ParseStep
<1>2. /\ Turn(Import) /\ mod' = mod /\ nxt' = nxt
      /\ Errs \/ \E how \in LostStates : Lost(how)
  <2>1. CASE ImportCut
    BY <2>1 DEF ImportCut, LostStates
  <2>2. CASE ImportStray
    BY <2>2 DEF ImportStray, LostStates
  <2> QED  BY <2>1, <2>2
<1>3. pc' # "parse" /\ parsed' # "ok"
  BY <1>1, <1>2 DEF Errs, Lost, LostStates, CountInv
<1>4. ASSUME NoSectionTwice, NoTables' PROVE LostRight'
  <2>1. CASE Errs
    BY <2>1 DEF Errs, LostRight, LostStates
  <2>2. CASE \E how \in LostStates : Lost(how)
    <3>1. at' = at
      BY <2>2 DEF Lost
    <3>2. PICK p : p = Sec.pos
      OBVIOUS
    <3>3. PICK last : last = Sec.last
      OBVIOUS
    <3>4. Sec'.pos = p /\ Sec'.last = last
      BY <1>2, <3>1, <3>2, <3>3 DEF Sec
    <3>5. KindAt(p, last)' = KindAt(p, last)
      BY <1>1, WalkStays
    <3>6. KindAt(p, last) = 0 \/ KindOf(p, last) \notin Kinds
      <4>1. CASE ImportCut
        BY <3>2, <3>3, <4>1 DEF ImportCut
      <4>2. CASE ImportStray /\ KindOf(p, last) \in Kinds
        <5>1. NoTables
          BY <1>2, <1>4 DEF NoTables
        <5>2. PICK q, n, m, l : StorePass(q, n, m, l) /\ n < m
          BY <1>2, <1>4, <4>2, <5>1, StoredCounts DEF ParseFile
        <5>3. PICK kind : kind = KindOf(p, last)
          OBVIOUS
        <5>4. /\ mod.imp[kind].cnt > 0 /\ nxt[kind] <= mod.imp[kind].cnt
              /\ Len(mod.imp[kind].elt) = mod.imp[kind].cnt
          BY <3>2, <3>3, <4>2, <5>2, <5>3, PlaceCounted
        <5>5. \/ mod.imp[kind].cnt = 0
              \/ nxt[kind] > Len(mod.imp[kind].elt)
          BY <3>2, <3>3, <4>2, <5>3 DEF ImportStray, KindOf
        <5>6. mod.imp[kind].cnt \in Nat /\ nxt[kind] \in Nat
          BY <4>2, <5>3, ImportCounts
        <5> QED  BY <5>4, <5>5, <5>6
      <4> QED  BY <4>1, <4>2
    <3>7. KindAt(p, last)' = 0 \/ cells'[KindAt(p, last)'] \notin Kinds
      BY <1>1, <3>5, <3>6 DEF KindOf
    <3> QED  BY <3>4, <3>7 DEF LostRight
  <2> QED  BY <1>2, <2>1, <2>2
<1> QED  BY <1>1, <1>3, <1>4, ParseCount

\* The end of the section: all that was counted has been stored.
LEMMA EndCounts ==
    ASSUME Typed, CountInv, SectionEnds, Parsing(Import)
    PROVE  CountInv'
<1>1. ParseStep /\ pc = "parse" /\ cells' = cells
  BY ParseSteps DEF ParseFile, ParseStep
<1>2. /\ item > todo /\ probe = 0 /\ (NextSection \/ Errs)
      /\ mod' = mod /\ nxt' = nxt /\ probe' = probe
  BY DEF SectionEnds, UnchangedFile
<1>3. CASE Errs
  BY <1>1, <1>3, ParseCount DEF Errs, LostStates, LostRight
<1>4. CASE NextSection
  <2>1. ASSUME NoSectionTwice PROVE CountsAt'
    <3>1. ~InImports' /\ ~ImportsAhead'
      BY <1>1, <1>4, <2>1, InImportsParts
    <3>2. InImports
      <4>1. item > 0
        BY <1>2, AtImports
      <4> QED  BY <4>1 DEF InImports
    <3>3. Agreed
      <4>1. CASE NoneCounted
        BY <4>1, NoneAgrees
      <4>2. CASE NoTables => \E q, n, m, last : StorePass(q, n, m, last)
        <5> SUFFICES ASSUME NoTables, NEW k \in Kinds
                     PROVE  mod.imp[k].cnt = IF nxt[k] = 0 THEN 0 ELSE nxt[k] - 1
          BY DEF Agreed
        <5>1. PICK q, n, m, last : StorePass(q, n, m, last)
          BY <4>2
        <5>2. /\ n \in Nat /\ m \in Nat /\ n = m
              /\ mod.imp[k].cnt = Cardinality(Met(q, k, m, last))
              /\ nxt[k] = Cardinality(Met(q, k, n, last)) + 1
          BY <1>2, <5>1 DEF StorePass
        <5>3. Cardinality(Met(q, k, n, last)) \in Nat
          BY <5>2, MetMore
        <5> QED  BY <5>2, <5>3
      <4> QED  BY <1>1, <1>2, <2>1, <3>2, <4>1, <4>2 DEF CountInv, CountsAt
    <3>4. Agreed'
      BY <1>2, <3>3 DEF Agreed, NoTables
    <3> QED  BY <1>2, <3>1, <3>4 DEF CountsAt
  <2>2. parsed' # "ok" /\ LostRight'
    BY <1>1, <1>4 DEF CountInv, LostRight, LostStates, NextSection
  <2> QED  BY <1>1, <2>1, <2>2, ParseCount
<1> QED  BY <1>2, <1>3, <1>4

\* An import is stored, at the place the counts have given it.
LEMMA EntryCounts ==
    ASSUME Typed, CountInv, ImportEntry
    PROVE  CountInv'
<1>1. ParseStep /\ pc = "parse" /\ cells' = cells
  BY ParseSteps DEF ParseFile, ParseStep
<1>2. Turn(Import) /\ Parsing(Import) /\ probe = 0 /\ probe' = probe /\ item \in 1..todo
  BY DEF ImportEntry, Turn, UnchangedFile
<1>3. PICK last : last = Sec.last
  OBVIOUS
<1>4. PICK at0 : at0 = KindAt(Sec.pos, last)
  OBVIOUS
<1>5. PICK kind : kind = cells[at0]
  OBVIOUS
<1>6. PICK tail : tail = StoredTail(kind, at0 + 1, last)
  OBVIOUS
<1>7. /\ last \in Nat /\ IsModule(mod) /\ item \in Nat /\ todo \in Nat
      /\ \A i \in Nat \ {0} : i < last => cells[i] \in Nat
      /\ at \in 1..Len(mod.secs) /\ at <= Len(mod.secs) /\ nxt \in [Kinds -> Nat]
      /\ Sec.pos \in Nat \ {0}
  BY <1>2, <1>3, AtImports
<1> DEFINE Stored(e) == [mod EXCEPT !.imp[kind].elt[nxt[kind]] = e]
<1>8. /\ kind \in Kinds /\ at0 # 0
      /\ \/ Errs
         \/ /\ ~Cut(tail, last) /\ NextTurn /\ \E e : mod' = Moved(Stored(e), tail)
            /\ nxt' = [nxt EXCEPT ![kind] = @ + 1]
  BY <1>3, <1>4, <1>5, <1>6 DEF ImportEntry
<1>9. CASE Errs
  BY <1>1, <1>9, ParseCount DEF Errs, LostStates, LostRight
<1>10. CASE ~Errs
  <2>1. PICK e : mod' = Moved(Stored(e), tail)
    BY <1>8, <1>10
  <2>2. ~Cut(tail, last) /\ NextTurn /\ nxt' = [nxt EXCEPT ![kind] = @ + 1]
    BY <1>8, <1>10
  <2>3. pc' = "parse" /\ at' = at /\ item' = item + 1 /\ todo' = todo /\ parsed' = parsed
    BY <1>1, <2>2 DEF NextTurn, GoesOn
  <2>4. /\ mod'.secs[at].pos = tail
        /\ \A k \in Kinds : /\ mod'.imp[k].cnt = mod.imp[k].cnt
                            /\ Len(mod'.imp[k].elt) = Len(mod.imp[k].elt)
    <3>1. PICK elt : elt = [mod.imp[kind].elt EXCEPT ![nxt[kind]] = e]
      OBVIOUS
    <3>2. PICK imp : imp = [mod.imp EXCEPT ![kind] = [mod.imp[kind] EXCEPT !.elt = elt]]
      OBVIOUS
    <3>3. PICK rec : rec = [mod.secs[at] EXCEPT !.pos = tail]
      OBVIOUS
    <3>4. mod' = [filedata |-> mod.filedata, secs |-> [mod.secs EXCEPT ![at] = rec],
                  code |-> mod.code, start |-> mod.start, vec |-> mod.vec, imp |-> imp,
                  instance |-> mod.instance]
      BY <1>7, <2>1, <3>1, <3>2, <3>3 DEF IsModule, Moved
    <3>5. mod'.secs[at] = rec /\ mod'.imp = imp
      BY <1>7, <3>4, SectionsOfModule
    <3>6. mod.secs[at] \in SectionRecs
      BY <1>7, SectionsOfModule
    <3>7. rec.pos = tail
      BY <3>3, <3>6 DEF SectionRecs
    <3>8. /\ mod.imp \in [Kinds -> ImpRecs] /\ mod.imp[kind] \in ImpRecs
          /\ mod.imp[kind].elt \in Seq(ImportRecs)
      BY <1>7, <1>8 DEF IsModule, ImpRecs
    <3>9. Len(elt) = Len(mod.imp[kind].elt)
      <4>1. DOMAIN elt = 1..Len(mod.imp[kind].elt) /\ Len(mod.imp[kind].elt) \in Nat
        BY <3>1, <3>8, LenProperties
      <4> QED  BY <3>1, <3>8, <4>1
    <3>10. /\ imp[kind].cnt = mod.imp[kind].cnt /\ imp[kind].elt = elt
           /\ \A k \in Kinds : k # kind => imp[k] = mod.imp[k]
      BY <1>8, <3>2, <3>8 DEF ImpRecs
    <3> QED  BY <3>5, <3>7, <3>9, <3>10
  <2>5. ASSUME NoSectionTwice PROVE CountsAt'
    <3>1. InImports' /\ ~ImportsAhead' /\ Sec'.last = last /\ Sec'.pos = tail
      <4>1. item' \in Nat \ {0}
        BY <1>7, <2>3
      <4> QED  BY <1>1, <1>2, <1>3, <2>3, <2>4, <2>5, <4>1, InImportsParts DEF Sec
    <3>2. ASSUME NoTables' PROVE \E q, n, m, l : StorePass(q, n, m, l)'
      <4>1. TabKind \in Kinds /\ NoTables
        BY <2>4, <3>2 DEF NoTables, TabKind, Kinds
      <4>2. PICK q, n, m, l : StorePass(q, n, m, l) /\ n < m
        BY <1>2, <2>5, <4>1, StoredCounts DEF ImportEntry, ParseFile
      <4>3. /\ n \in Nat /\ item = n + 1 /\ m \in Nat /\ m = todo /\ l = last
            /\ Walk(q, m, l) /\ q[n + 1] = Sec.pos
            /\ \A k \in Kinds : /\ mod.imp[k].cnt = Cardinality(Met(q, k, m, l))
                                /\ nxt[k] = Cardinality(Met(q, k, n, l)) + 1
                                /\ mod.imp[k].cnt > 0 => Len(mod.imp[k].elt) = mod.imp[k].cnt
        BY <1>3, <4>2 DEF StorePass
      <4>4. kind = KindOf(q[n + 1], l) /\ at0 = KindAt(q[n + 1], l)
        BY <1>4, <1>5, <4>3 DEF KindOf
      <4>5. kind # TabKind
        <5>1. mod.imp[kind].cnt > 0
          BY <1>3, <1>8, <4>2, <4>3, <4>4, PlaceCounted
        <5> QED  BY <4>1, <5>1 DEF NoTables
      <4>6. q[n + 2] = tail
        <5>1. n + 1 \in 1..m /\ n + 1 + 1 = n + 2
          BY <4>2, <4>3
        <5>2. q[n + 2] = CountedTail(kind, at0 + 1, l)
          BY <4>3, <4>4, <5>1 DEF Walk
        <5> QED  BY <1>6, <1>8, <4>3, <4>5, <5>2
                 DEF CountedTail, StoredTail, Kinds, FuncKind, TabKind, MemKind, GlobKind
      <4>7. PICK n1 : n1 = n + 1
        OBVIOUS
      <4>8. n1 \in Nat /\ item' = n1 + 1 /\ n1 <= m /\ m = todo' /\ q[n1 + 1] = tail
        <5>1. n1 + 1 = n + 2
          BY <4>3, <4>7
        <5>2. n1 <= m /\ n1 \in Nat /\ item' = n1 + 1
          BY <2>3, <4>2, <4>3, <4>7
        <5> QED  BY <2>3, <4>3, <4>6, <5>1, <5>2
      <4>9. \A k \in Kinds : nxt'[k] = Cardinality(Met(q, k, n1, l)) + 1
        <5> SUFFICES ASSUME NEW k \in Kinds PROVE nxt'[k] = Cardinality(Met(q, k, n1, l)) + 1
          OBVIOUS
        <5>1. nxt'[k] = nxt[k] + (IF kind = k THEN 1 ELSE 0)
          BY <1>7, <1>8, <2>2
        <5>2. /\ Cardinality(Met(q, k, n, l)) \in Nat
              /\ Cardinality(Met(q, k, n1, l))
                   = Cardinality(Met(q, k, n, l)) + (IF kind = k THEN 1 ELSE 0)
          <6>0. n \in Nat
            BY <4>3
          <6>1. /\ Cardinality(Met(q, k, n, l)) \in Nat
                /\ Cardinality(Met(q, k, n + 1, l)) = Cardinality(Met(q, k, n, l))
                      + (IF KindOf(q[n + 1], l) = k THEN 1 ELSE 0)
            BY ONLY <6>0, MetMore
          <6> QED  BY <4>4, <4>7, <6>1
        <5> QED  BY <4>3, <5>1, <5>2
      <4>10. /\ Walk(q, m, l)'
             /\ \A k \in Kinds : /\ mod'.imp[k].cnt = Cardinality(Met(q, k, m, l)')
                                 /\ nxt'[k] = Cardinality(Met(q, k, n1, l)') + 1
                                 /\ mod'.imp[k].cnt > 0 => Len(mod'.imp[k].elt) = mod'.imp[k].cnt
        BY <1>1, <2>4, <4>3, <4>9, WalkStays
      <4>11. StorePass(q, n1, m, l)'
        BY <3>1, <4>3, <4>8, <4>10 DEF StorePass
      <4> QED  BY <4>11
    <3> QED  BY <1>2, <3>1, <3>2 DEF CountsAt
  <2>6. parsed' # "ok" /\ LostRight'
    BY <1>1, <2>3 DEF CountInv, LostRight, LostStates
  <2> QED  BY <1>1, <2>5, <2>6, ParseCount
<1> QED  BY <1>8, <1>9, <1>10

LEMMA ParseCounts ==
    ASSUME Typed, CountInv, ParseFile
    PROVE  CountInv'
<1>1. CASE ~Parsing(Import)
  BY <1>1, OthersCount
<1>2. CASE Parsing(Import)
  BY <1>2, ImportActions, BeginsCount, EndCounts, CountOn, ArraysCount, StrayCounts, EntryCounts
<1> QED  BY <1>1, <1>2

LEMMA InitCounts == Init => CountInv
<1> SUFFICES ASSUME Init PROVE CountInv
  OBVIOUS
<1>1. /\ pc = "open" /\ parsed = "none" /\ item = 0 /\ probe = 0
      /\ mod = Zeroed /\ nxt = [k \in Kinds |-> 0]
  BY DEF Init, LoaderInit
<1>2. NoneCounted
  BY <1>1 DEF NoneCounted, Zeroed, Empty
<1> QED  BY <1>1, <1>2 DEF CountInv, LoadStates, LostStates, LostRight

LEMMA CountsUnmoved ==
    ASSUME CountInv, UNCHANGED <<pc, cells, mod, at, item, todo, nxt, probe, parsed>>
    PROVE  CountInv'
<1>1. /\ NoSectionTwice' <=> NoSectionTwice
      /\ \A t : SectionsOf(t)' = SectionsOf(t)
      /\ NoneCounted' <=> NoneCounted
      /\ Agreed' <=> Agreed
      /\ NoTables' <=> NoTables
  BY DEF NoSectionTwice, SectionsOf, NoneCounted, Agreed, NoTables
<1>2. (InImports' <=> InImports) /\ (ImportsAhead' <=> ImportsAhead)
  BY <1>1 DEF InImports, Parsing, Sec, ImportsAhead
<1>3. \A q, n, last : CountPass(q, n, last) <=> CountPass(q, n, last)'
  BY WalkStays DEF CountPass, Sec
<1>4. \A q, n, m, last : StorePass(q, n, m, last) <=> StorePass(q, n, m, last)'
  BY WalkStays DEF StorePass, Sec
<1>5. CountsAt' <=> CountsAt
  BY <1>1, <1>2, <1>3, <1>4 DEF CountsAt
<1>6. LostRight' <=> LostRight
  <2>1. PICK p : p = Sec.pos
    OBVIOUS
  <2>2. PICK last : last = Sec.last
    OBVIOUS
  <2>3. Sec'.pos = p /\ Sec'.last = last
    BY <2>1, <2>2 DEF Sec
  <2>4. KindAt(p, last)' = KindAt(p, last)
    BY WalkStays
  <2> QED  BY <1>1, <2>1, <2>2, <2>3, <2>4 DEF LostRight
<1> QED  BY <1>1, <1>5, <1>6 DEF CountInv

LEMMA UnendedCounts ==
    ASSUME LoadInv, CountInv, NumberUnended
    PROVE  CountInv'
<1>1. /\ pc' \in {"hung", "overread"} /\ pc \in {"sections", "parse"} /\ parsed' = parsed
  BY NumberLost DEF loaderVars
<1>2. parsed = "none"
  BY <1>1 DEF LoadInv, CountInv
<1>3. /\ pc' \in LoadStates /\ pc' \in GoneStates /\ pc' \notin LostStates
  BY <1>1 DEF LoadStates, GoneStates, LostStates
<1> QED  BY <1>1, <1>2, <1>3 DEF CountInv, LostRight

LEMMA ModuleTyped == Typed => IsModule(mod)
BY TypedParts DEF Typed

LEMMA StepCounts == Typed /\ Typed' /\ LoadInv /\ CountInv /\ [Next]_vars => CountInv'
<1> SUFFICES ASSUME Typed, Typed', LoadInv, CountInv, [Next]_vars
             PROVE  CountInv'
  OBVIOUS
<1>1. IsModule(mod')
  <2>1. (Typed => IsModule(mod))'
    BY ModuleTyped, PTL
  <2> QED  BY <2>1 DEF IsModule
<1>2. CASE LoaderStep
  BY <1>1, <1>2, LoadCounts, ParseCounts, FreeCounts, UnendedCounts DEF LoaderStep, LoaderNext
<1>3. CASE InstanceStep
  BY <1>3, InstanceCounts
<1>4. CASE LoadedNothing \/ LoadedModule \/ RegisterNext \/ RegisteredAll
             \/ Compiled \/ GivesUp \/ Succeeds
  BY <1>4, DriverCounts
<1>5. CASE UNCHANGED vars
  BY <1>5, CountsUnmoved DEF vars, loaderVars
<1> QED  BY <1>2, <1>3, <1>4, <1>5 DEF Next

(* The two passes over the imports agree, whatever the file says and       *)
(* however many there are: what is stored is what has been counted, and no *)
(* import is stored beyond its array, but behind the import of a table.    *)
THEOREM PassesAgree == Spec => []CountsRight
<1>1. Init => Typed /\ LoadInv /\ CountInv
  BY InitTyped, InitLoads, InitCounts
<1>2. Typed /\ LoadInv /\ CountInv /\ [Next]_vars => (Typed /\ LoadInv /\ CountInv)'
  BY StepTyped, StepLoads, StepCounts
<1>3. CountInv => CountsRight
  BY CountsFollow
<1> QED  BY <1>1, <1>2, <1>3, PTL DEF Spec

-----------------------------------------------------------------------------
(***************************************************************************)
(* A module that has been parsed is whole: what the compilation, the run   *)
(* and the free handlers read of it has been written, while no allocation  *)
(* has failed                                                              *)
(***************************************************************************)
EntryThere(k, e) ==
    /\ k \in {Type, Export} => e.own \in live
    /\ k = Function => e.ready /\ e.type \in live \cup {Wild}

\* The array is there, and its first n entries are.
WrittenTo(k, n) ==
    LET v == mod.vec[k] IN
    /\ Len(v.elt) = v.cnt
    /\ v.cnt > 0 => v.arr \in live
    /\ \A j \in 1..v.cnt : j <= n => EntryThere(k, v.elt[j])

SectionAhead(k) == \A i \in SectionsOf(k) : at < i \/ (at = i /\ item = 0)

InVector(k) == Parsing(k) /\ item > 0

VectorWhole(k) ==
    /\ SectionAhead(k) => mod.vec[k] = Empty
    /\ InVector(k) => todo = mod.vec[k].cnt /\ WrittenTo(k, item - 1)
    /\ ~InVector(k) => WrittenTo(k, mod.vec[k].cnt)

ImportsWhole ==
    /\ \A k \in Kinds : mod.imp[k].cnt > 0 =>
          mod.imp[k].arr \in live /\ Len(mod.imp[k].elt) = mod.imp[k].cnt
    /\ \A n \in 1..ImportedFuncs.cnt : n < nxt[FuncKind] =>
          Null \notin {ImportedFuncs.elt[n].mname, ImportedFuncs.elt[n].nsname,
                       ImportedFuncs.elt[n].f}

\* While nothing has failed.
ParseWhole == /\ \A k \in Filled : VectorWhole(k)
              /\ ~(InImports /\ probe # 0) => ImportsWhole

ModuleWhole == (\A k \in Filled : WrittenTo(k, mod.vec[k].cnt)) /\ ImportsWhole

\* What of it the free handlers rely on.
VectorsLeft ==
    /\ \A k \in {Type, Export, Elem} : mod.vec[k].cnt > 0 => mod.vec[k].arr # Null
    /\ \A k \in {Type, Export} :
          \A i \in DOMAIN mod.vec[k].elt : mod.vec[k].elt[i].own # Wild
    /\ \A i \in DOMAIN OwnFuncs.elt : OwnFuncs.elt[i].ready
    /\ SectionsOf(Elem) = {} => mod.vec[Elem] = Empty

AfterParse == {"detach", "loaded", "register", "compile", "resolve", "exports", "compiled",
               "run", "failed", "succeeded"}

ToCompile == {"open", "header", "sections", "parse", "detach", "loaded", "register", "compile"}

\* A function of the index space has a type.
FuncThere(f) == f.own \in 0..OwnFuncs.cnt /\ FuncTypeOf(f) \in live

\* All of them are in the table, and the exports are bound to them.
ExportsBound == pc \in {"compiled", "run"} /\ compiled = "ok"

FuncsWhole ==
    /\ pc = "resolve" => Len(funcs) = turn - 1 /\ turn - 1 <= ImportedFuncs.cnt
    /\ pc = "exports" \/ ExportsBound => Len(funcs) = ImportedFuncs.cnt + OwnFuncs.cnt
    /\ pc \in {"resolve", "exports"} \/ ExportsBound =>
          \A n \in 1..Len(funcs) : FuncThere(funcs[n])
    /\ \A j \in 1..Exports.cnt :
          (pc = "exports" /\ j < turn) \/ ExportsBound => Exports.elt[j].func \in 1..Len(funcs)

WholeInv ==
    /\ fails <= given.fails
    /\ back = "close" \/ pc \in {"close", "load_null"} => parsed = "none"
    /\ pc \in ToCompile => funcs = << >>
    /\ pc = "run" => compiled = "ok"
    /\ Unstarved /\ NoSectionTwice =>
          /\ pc = "parse" => ParseWhole
          /\ parsed = "ok" => VectorsLeft
          /\ parsed = "ok" /\ pc \in AfterParse => ModuleWhole
    /\ Unstarved /\ Regular /\ parsed = "ok" => FuncsWhole
    /\ ParsedModulesSafe

-----------------------------------------------------------------------------
\* Where a vector is before and after a turn of its handler.
LEMMA InVectorParts ==
    ASSUME Typed, NoSectionTwice, NEW k \in Vectors, Parsing(k), ParseStep
    PROVE  /\ SectionAhead(k) <=> item = 0
           /\ InVector(k) <=> item > 0
           /\ pc' = "parse" /\ at' = at /\ item' \in Nat \ {0} =>
                 InVector(k)' /\ ~SectionAhead(k)'
           /\ NextSection => ~InVector(k)' /\ ~SectionAhead(k)'
<1>1. /\ pc = "parse" /\ at \in 1..Len(mod.secs) /\ at \in Nat /\ IsModule(mod)
      /\ IsModule(mod') /\ SameSections(mod', mod) /\ Sec.type = k
      /\ item \in Nat
  BY TypedParts, InSection DEF Typed, LoopTyped, ParseStep, Keeps, Parsing
<1>2. SectionsOf(k)' = SectionsOf(k) /\ at \in SectionsOf(k)
  BY <1>1, SectionsStay, SectionsOfModule DEF SectionsOf, Sec
<1>3. \A i \in SectionsOf(k) : i = at
  <2> SUFFICES ASSUME NEW i \in SectionsOf(k) PROVE i = at
    OBVIOUS
  <2>1. i \in 1..Len(mod.secs) /\ mod.secs[i].type = k
    BY <1>1, SectionsOfModule DEF SectionsOf
  <2>2. mod.secs[at].type = mod.secs[i].type /\ mod.secs[i].type \in Counted
    BY <1>1, <2>1 DEF Counted, Sec
  <2> QED  BY <1>1, <2>1, <2>2, OnlyOne
<1>4. SectionAhead(k) <=> item = 0
  BY <1>1, <1>2, <1>3 DEF SectionAhead
<1>5. InVector(k) <=> item > 0
  BY DEF InVector
<1>6. ASSUME pc' = "parse", at' = at, item' \in Nat \ {0}
      PROVE  InVector(k)' /\ ~SectionAhead(k)'
  <2>1. Parsing(k)'
    BY <1>1, <1>6 DEF Parsing, Sec, SameSections
  <2>2. InVector(k)'
    BY <1>6, <2>1 DEF InVector
  <2> QED  BY <1>1, <1>2, <1>6, <2>2 DEF SectionAhead
<1>7. ASSUME NextSection PROVE ~InVector(k)' /\ ~SectionAhead(k)'
  BY <1>1, <1>2, <1>7 DEF NextSection, InVector, SectionAhead
<1> QED  BY <1>4, <1>5, <1>6, <1>7

LEMMA WrittenStays ==
    ASSUME NEW k \in Vectors, mod'.vec[k] = mod.vec[k], NEW n,
           WrittenTo(k, n), live \subseteq live'
    PROVE  WrittenTo(k, n)'
BY DEF WrittenTo, EntryThere

LEMMA EmptyWritten ==
    ASSUME NEW k, mod.vec[k] = Empty, NEW n
    PROVE  WrittenTo(k, n)
<1>1. Empty.cnt = 0 /\ Empty.elt = << >>
  BY DEF Empty
<1> QED  BY <1>1 DEF WrittenTo

\* A vector another section is read for.
LEMMA OtherVector ==
    ASSUME Typed, NEW k \in Vectors, ~Parsing(k), ParseStep, pc' = "parse", VectorWhole(k)
    PROVE  VectorWhole(k)'
<1>1. /\ pc = "parse" /\ Onward /\ at \in Nat \ {0} /\ IsModule(mod) /\ IsModule(mod')
      /\ SameSections(mod', mod) /\ live \subseteq live' /\ Writes /\ Len(mod.secs) \in Nat
  <2>1. at \in Nat \ {0} /\ IsModule(mod)
    BY TypedParts DEF Typed, LoopTyped, ParseStep
  <2> QED  BY <2>1, SectionsOfModule DEF ParseStep, Keeps
<1>2. mod'.vec[k] = mod.vec[k]
  BY <1>1, WritesOwn
<1>3. SectionsOf(k)' = SectionsOf(k) /\ \A i \in SectionsOf(k) : i \in Nat
  <2>1. SectionsOf(k)' = SectionsOf(k)
    BY <1>1, SectionsStay
  <2>2. SectionsOf(k) \subseteq 1..Len(mod.secs)
    BY <1>1, SectionsOfModule DEF SectionsOf
  <2> QED  BY <1>1, <2>1, <2>2
<1>4. NextSection \/ (at' = at /\ item' # 0)
  BY <1>1 DEF Onward
<1>5. ~InVector(k) /\ ~InVector(k)'
  <2>1. CASE NextSection
    BY <2>1 DEF NextSection, InVector
  <2>2. CASE at' = at
    BY <1>1, <2>2 DEF InVector, Parsing, Sec, SameSections
  <2> QED  BY <1>4, <2>1, <2>2 DEF InVector
<1>6. SectionAhead(k)' => SectionAhead(k)
  <2>1. CASE NextSection
    <3>1. at' = at + 1
      BY <2>1 DEF NextSection
    <3> QED  BY <1>1, <1>3, <3>1 DEF SectionAhead
  <2>2. CASE at' = at /\ item' # 0
    BY <1>3, <2>2 DEF SectionAhead
  <2> QED  BY <1>4, <2>1, <2>2
<1>7. WrittenTo(k, mod.vec[k].cnt)'
  <2>1. PICK n : n = mod.vec[k].cnt
    OBVIOUS
  <2>2. WrittenTo(k, n)'
    BY <1>1, <1>2, <1>5, <2>1, WrittenStays DEF VectorWhole
  <2> QED  BY <1>2, <2>1, <2>2
<1> QED  BY <1>2, <1>5, <1>6, <1>7 DEF VectorWhole

\* A vector that is not begun, or whose section has none.
LEMMA NoVector ==
    ASSUME NEW k, mod.vec[k] = Empty, item' \in Nat, todo' = 0,
           mod'.vec[k].cnt = 0, mod'.vec[k].elt = mod.vec[k].elt, ~SectionAhead(k)', InVector(k)'
    PROVE  VectorWhole(k)'
<1>1. Empty.cnt = 0 /\ Empty.elt = << >>
  BY DEF Empty
<1>2. WrittenTo(k, item - 1)'
  BY <1>1 DEF WrittenTo
<1> QED  BY <1>2 DEF VectorWhole

\* The handler of a vector writes one entry.
LEMMA EntryDone ==
    ASSUME Typed, NEW k \in Filled, Turn(k), VectorWhole(k), live \subseteq live',
           pc' = "parse", fails' = fails, NextTurn, InVector(k)', ~SectionAhead(k)',
           k = Function => WrittenTo(Type, Types.cnt),
           NEW e \in EntriesOf(k), Wrote(mod', mod, k, e), DoneEntry(k, e)
    PROVE  VectorWhole(k)'
<1>1. k \in Vectors
  BY DEF Filled, Vectors
<1>2. item \in 1..todo /\ item \in Nat /\ item \in 1..Len(mod.vec[k].elt)
  BY <1>1, AtEntry
<1>3. todo = mod.vec[k].cnt /\ WrittenTo(k, item - 1)
  <2>1. InVector(k)
    BY <1>2 DEF InVector, Turn
  <2> QED  BY <2>1 DEF VectorWhole
<1>4. item' = item + 1 /\ todo' = todo
  BY DEF NextTurn, GoesOn
<1>5. /\ mod'.vec[k].cnt = mod.vec[k].cnt /\ mod'.vec[k].arr = mod.vec[k].arr
      /\ Len(mod'.vec[k].elt) = Len(mod.vec[k].elt)
      /\ \A i \in 1..Len(mod.vec[k].elt) :
            mod'.vec[k].elt[i] = IF i = item THEN e ELSE mod.vec[k].elt[i]
  BY DEF Wrote
<1>6. EntryThere(k, e)'
  <2>1. k \in {Type, Export} => e.own \in live'
    BY DEF DoneEntry
  <2>2. ASSUME k = Function PROVE e.ready /\ e.type \in live' \cup {Wild}
    <3>1. e.ready /\ \E idx \in Nat : e.type = TypeAt(idx)
      BY <2>2 DEF DoneEntry
    <3>2. PICK idx \in Nat : e.type = TypeAt(idx)
      BY <3>1
    <3>3. Len(Types.elt) = Types.cnt /\ Types.cnt \in Nat
          /\ \A j \in 1..Types.cnt : EntryThere(Type, Types.elt[j])
      <4>1. Types.cnt \in Nat
        BY TypedParts, VectorEntries DEF Typed, Types, Vectors
      <4> QED  BY <2>2, <4>1 DEF WrittenTo, Types
    <3>4. TypeAt(idx) \in live \cup {Wild}
      <4>1. CASE idx < Len(Types.elt)
        <5>1. idx + 1 \in 1..Types.cnt
          BY <3>3, <4>1
        <5>2. Types.elt[idx + 1].own \in live
          BY <3>3, <5>1 DEF EntryThere
        <5> QED  BY <4>1, <5>2 DEF TypeAt
      <4>2. CASE ~(idx < Len(Types.elt))
        BY <4>2 DEF TypeAt
      <4> QED  BY <4>1, <4>2
    <3> QED  BY <3>1, <3>2, <3>4
  <2> QED  BY <2>1, <2>2 DEF EntryThere
<1>7. \A j \in 1..mod.vec[k].cnt : j <= item => EntryThere(k, mod.vec[k].elt[j])'
  <2> SUFFICES ASSUME NEW j \in 1..mod.vec[k].cnt, j <= item
               PROVE  EntryThere(k, mod.vec[k].elt[j])'
    OBVIOUS
  <2>1. Len(mod.vec[k].elt) = mod.vec[k].cnt
    BY <1>3 DEF WrittenTo
  <2>2. CASE j = item
    <3>1. mod'.vec[k].elt[j] = e
      BY <1>5, <2>1, <2>2
    <3> QED  BY <1>6, <3>1 DEF EntryThere
  <2>3. CASE j # item
    <3>1. j <= item - 1 /\ mod'.vec[k].elt[j] = mod.vec[k].elt[j]
      BY <1>2, <1>5, <2>1, <2>3
    <3>2. EntryThere(k, mod.vec[k].elt[j])
      BY <1>3, <3>1 DEF WrittenTo
    <3> QED  BY <3>1, <3>2 DEF EntryThere
  <2> QED  BY <2>2, <2>3
<1>8. WrittenTo(k, item - 1)'
  <2>1. item' - 1 = item
    BY <1>2, <1>4
  <2> QED  BY <1>3, <1>5, <1>7, <2>1 DEF WrittenTo
<1> QED  BY <1>3, <1>4, <1>5, <1>8 DEF VectorWhole

\* A turn that writes nothing of its vector.
LEMMA QuietVector ==
    ASSUME Typed, NoSectionTwice, NEW k \in Filled, Parsing(k), ParseStep, pc' = "parse",
           VectorWhole(k), NothingWritten
    PROVE  VectorWhole(k)'
<1>1. /\ k \in Vectors /\ k \in Counted /\ k # Import /\ k \notin {Table, Global, Data}
      /\ Sec.type = k
  BY DEF Filled, Vectors, Counted, Parsing, Type, Function, Export, Elem, Import, Table,
         Global, Data, Memory
<1>2. /\ mod'.vec[k] = mod.vec[k] /\ live \subseteq live' /\ QuietTurn
      /\ item \in Nat /\ todo \in Nat
  BY TypedParts DEF Typed, LoopTyped, ParseStep, NothingWritten, SameEntries
<1>3. /\ SectionAhead(k) <=> item = 0
      /\ InVector(k) <=> item > 0
      /\ at' = at /\ item' \in Nat \ {0} => InVector(k)' /\ ~SectionAhead(k)'
      /\ NextSection => ~InVector(k)' /\ ~SectionAhead(k)'
  BY <1>1, InVectorParts
<1>4. CASE NextSection /\ item > todo
  <2>1. todo = mod.vec[k].cnt /\ WrittenTo(k, item - 1)
    BY <1>2, <1>3, <1>4 DEF VectorWhole
  <2>2. WrittenTo(k, mod.vec[k].cnt)
    BY <1>2, <1>4, <2>1 DEF WrittenTo
  <2>3. PICK n : n = mod.vec[k].cnt
    OBVIOUS
  <2>4. WrittenTo(k, n)'
    BY <1>1, <1>2, <2>2, <2>3, WrittenStays
  <2> QED  BY <1>2, <1>3, <1>4, <2>3, <2>4 DEF VectorWhole
<1>5. CASE item = 0 /\ GoesOn(1, 0)
  <2>1. mod.vec[k] = Empty
    BY <1>3, <1>5 DEF VectorWhole
  <2>2. item' = 1 /\ todo' = 0 /\ at' = at
    BY <1>5 DEF GoesOn
  <2>3. Empty.cnt = 0
    BY DEF Empty
  <2> QED  BY <1>2, <1>3, <2>1, <2>2, <2>3, NoVector
<1>6. CASE item # 0 /\ NextTurn /\ k = Elem
  <2>1. item' = item + 1 /\ todo' = todo /\ at' = at
    BY <1>6 DEF NextTurn, GoesOn
  <2>2. InVector(k)' /\ ~SectionAhead(k)'
    BY <1>2, <1>3, <2>1
  <2>3. todo = mod.vec[k].cnt /\ WrittenTo(k, item - 1)
    BY <1>2, <1>3, <1>6 DEF VectorWhole
  <2>4. \A e : EntryThere(k, e)
    BY <1>6 DEF EntryThere, Elem, Type, Export, Function
  <2>5. WrittenTo(k, item)
    BY <2>3, <2>4 DEF WrittenTo
  <2>6. PICK n : n = item
    OBVIOUS
  <2>7. WrittenTo(k, n)'
    BY <1>1, <1>2, <2>5, <2>6, WrittenStays
  <2>8. item' - 1 = n
    BY <1>2, <2>1, <2>6
  <2>9. WrittenTo(k, item - 1)'
    BY <2>7, <2>8
  <2> QED  BY <1>2, <2>1, <2>2, <2>3, <2>9 DEF VectorWhole
<1> QED  BY <1>1, <1>2, <1>4, <1>5, <1>6 DEF QuietTurn

\* The beginning of a vector.
LEMMA BeginningVector ==
    ASSUME Typed, NoSectionTwice, NEW k \in Filled, Begins(k), ParseStep, pc' = "parse",
           VectorWhole(k), VectorBegun(k) \/ VectorRests(k)
    PROVE  VectorWhole(k)'
<1>1. k \in Vectors /\ Parsing(k) /\ item = 0
  BY DEF Filled, Vectors, Begins
<1>2. mod.vec[k] = Empty
  BY <1>1, InVectorParts DEF VectorWhole
<1>3. Empty.cnt = 0 /\ Empty.elt = << >>
  BY DEF Empty
<1>4. ASSUME NEW n \in Nat, GoesOn(1, n) PROVE InVector(k)' /\ ~SectionAhead(k)'
  <2>1. item' \in Nat \ {0} /\ at' = at
    BY <1>4 DEF GoesOn
  <2> QED  BY <1>1, <2>1, InVectorParts
<1>5. CASE VectorBegun(k)
  <2>1. PICK n \in Nat \ {0} : GoesOn(1, n) /\ mod'.vec[k].cnt = n /\ Len(mod'.vec[k].elt) = n
    BY <1>5 DEF VectorBegun
  <2>2. item' = 1 /\ todo' = n
    BY <2>1 DEF GoesOn
  <2>3. mod'.vec[k].arr \in live'
    <3>1. Array(0) # Null
      BY DEF Array, Obj, Null
    <3>2. mod'.vec[k].arr = Array(0) /\ live' = live \cup ({Array(0)} \ {Null})
      BY <1>5 DEF VectorBegun, HeapGrew
    <3> QED  BY <3>1, <3>2
  <2>4. WrittenTo(k, item - 1)'
    <3>1. item' - 1 = 0
      BY <2>2
    <3> QED  BY <2>1, <2>3, <3>1 DEF WrittenTo
  <2> QED  BY <1>4, <2>1, <2>2, <2>4 DEF VectorWhole
<1>6. CASE VectorRests(k)
  <2>1. GoesOn(1, 0) /\ mod'.vec[k].cnt = 0 /\ mod'.vec[k].elt = mod.vec[k].elt
    BY <1>1, <1>2, <1>3, <1>6 DEF VectorRests
  <2>2. item' = 1 /\ todo' = 0
    BY <2>1 DEF GoesOn
  <2> QED  BY <1>2, <1>4, <2>1, <2>2, NoVector
<1> QED  BY <1>5, <1>6

\* A turn of the handler of a vector.
LEMMA OwnVector ==
    ASSUME Typed, NoSectionTwice, NEW k \in Filled, Parsing(k), ParseStep, pc' = "parse",
           fails' = fails, \A j \in Filled : VectorWhole(j)
    PROVE  VectorWhole(k)'
<1>1. /\ k \in Vectors /\ Writes /\ live \subseteq live' /\ VectorWhole(k)
      /\ \A j : Parsing(j) => j = k
      /\ Import \notin Vectors
  BY DEF ParseStep, Filled, Vectors, Parsing, Type, Function, Export, Elem, Import, Table,
         Global, Data, Memory
<1>2. CASE NothingWritten
  BY <1>1, <1>2, QuietVector
<1>3. CASE EntryWrites
  <2>1. PICK j \in Vectors : \E e \in EntriesOf(j) :
            /\ Turn(j) /\ Wrote(mod', mod, j, e) /\ DoneEntry(j, e)
            /\ NextTurn \/ pc' # "parse"
    BY <1>3, FilledVectors DEF EntryWrites
  <2>2. j = k
    BY <1>1, <2>1 DEF Turn
  <2>3. PICK e \in EntriesOf(k) : Wrote(mod', mod, k, e) /\ DoneEntry(k, e)
    BY <2>1, <2>2
  <2>4. Turn(k) /\ NextTurn
    BY <2>1, <2>2
  <2>5. InVector(k)' /\ ~SectionAhead(k)'
    <3>1. item \in Nat
      BY TypedParts DEF Typed, LoopTyped
    <3>2. item' \in Nat \ {0} /\ at' = at
      BY <2>4, <3>1 DEF NextTurn, GoesOn
    <3> QED  BY <1>1, <3>2, InVectorParts
  <2>6. k = Function => WrittenTo(Type, Types.cnt)
    <3> SUFFICES ASSUME k = Function PROVE WrittenTo(Type, Types.cnt)
      OBVIOUS
    <3>1. Type \in Filled /\ ~InVector(Type)
      BY <1>1 DEF Filled, InVector, Type, Function
    <3> QED  BY <3>1 DEF VectorWhole, Types
  <2> QED  BY <1>1, <2>3, <2>4, <2>5, <2>6, EntryDone
<1>4. CASE VectorWrites
  <2>1. PICK j \in Vectors : Begins(j) /\ (VectorBegun(j) \/ VectorRests(j))
    BY <1>4 DEF VectorWrites
  <2>2. j = k
    BY <1>1, <2>1 DEF Begins
  <2> QED  BY <1>1, <2>1, <2>2, BeginningVector
<1>5. ~Counting /\ ~ImportsGrow /\ ~ImportWrites
  BY <1>1 DEF Counting, ImportsGrow, ImportWrites, Turn
<1> QED  BY <1>1, <1>2, <1>3, <1>4, <1>5 DEF Writes

\* The imports.
LEMMA OtherImports ==
    ASSUME ImportsWhole, mod'.imp = mod.imp, nxt' = nxt,
           live \cap Ptrs \subseteq live', \A k \in Kinds : mod.imp[k].arr \in Ptrs
    PROVE  ImportsWhole'
BY DEF ImportsWhole, ImportedFuncs

LEMMA ImportArr ==
    ASSUME Typed
    PROVE  \A k \in Kinds : mod.imp[k].arr \in Ptrs
BY TypedParts DEF Typed, IsModule, ImpRecs

\* One import is stored.
LEMMA ImportDone ==
    ASSUME Typed, Turn(Import), ImportsWhole, live \subseteq live', fails' = fails,
           NEW k \in Kinds, NEW e \in ImportRecs,
           WroteImport(mod', mod, k, nxt[k], e), DoneImport(k, e)
    PROVE  ImportsWhole'
<1>1. /\ \A j \in Kinds : /\ mod'.imp[j].cnt = mod.imp[j].cnt
                          /\ mod'.imp[j].arr = mod.imp[j].arr
                          /\ Len(mod'.imp[j].elt) = Len(mod.imp[j].elt)
      /\ \A j \in Kinds \ {k} : mod'.imp[j] = mod.imp[j]
      /\ \A i \in 1..Len(mod.imp[k].elt) :
            mod'.imp[k].elt[i] = IF i = nxt[k] THEN e ELSE mod.imp[k].elt[i]
  BY DEF WroteImport
<1>2. nxt \in [Kinds -> Nat] /\ FuncKind \in Kinds /\ ImportedFuncs.cnt \in Nat
  BY TypedParts, ImportEntries DEF Typed, FuncKind, Kinds, ImportedFuncs
<1>3. nxt' = [nxt EXCEPT ![k] = @ + 1]
  BY DEF DoneImport
<1>4. ASSUME NEW n \in 1..ImportedFuncs'.cnt, n < nxt'[FuncKind]
      PROVE  Null \notin {ImportedFuncs'.elt[n].mname, ImportedFuncs'.elt[n].nsname,
                          ImportedFuncs'.elt[n].f}
  <2>1. n \in 1..mod.imp[FuncKind].cnt /\ n \in Nat
    BY <1>1, <1>2, <1>4 DEF ImportedFuncs
  <2>2. n \in 1..Len(mod.imp[FuncKind].elt)
    <3>1. mod.imp[FuncKind].cnt > 0
      BY <1>2, <2>1 DEF ImportedFuncs
    <3> QED  BY <1>2, <2>1, <3>1 DEF ImportsWhole
  <2>3. CASE k # FuncKind
    <3>1. mod'.imp[FuncKind] = mod.imp[FuncKind] /\ nxt'[FuncKind] = nxt[FuncKind]
      BY <1>1, <1>2, <1>3, <2>3
    <3> QED  BY <1>4, <2>1, <3>1 DEF ImportsWhole, ImportedFuncs
  <2>4. CASE k = FuncKind /\ n = nxt[k]
    <3>1. mod'.imp[k].elt[n] = e /\ Null \notin {e.mname, e.nsname, e.f}
      BY <1>1, <2>2, <2>4 DEF DoneImport
    <3> QED  BY <2>4, <3>1 DEF ImportedFuncs
  <2>5. CASE k = FuncKind /\ n # nxt[k]
    <3>1. mod'.imp[k].elt[n] = mod.imp[k].elt[n]
      BY <1>1, <2>2, <2>5
    <3>2. n < nxt[FuncKind]
      BY <1>2, <1>3, <1>4, <2>1, <2>5
    <3> QED  BY <2>1, <2>5, <3>1, <3>2 DEF ImportsWhole, ImportedFuncs
  <2> QED  BY <2>3, <2>4, <2>5
<1>5. \A j \in Kinds : mod'.imp[j].cnt > 0 =>
         mod'.imp[j].arr \in live' /\ Len(mod'.imp[j].elt) = mod'.imp[j].cnt
  BY <1>1 DEF ImportsWhole
<1> QED  BY <1>4, <1>5 DEF ImportsWhole

LEMMA ArraysDone ==
    ASSUME Typed, ImportsBegun
    PROVE  ImportsWhole'
<1>1. \A k \in Kinds : mod.imp[k].cnt \in Nat
  BY TypedParts, ImportEntries DEF Typed
<1>2. nxt'[FuncKind] = 1
  BY DEF ImportsBegun, FuncKind, Kinds
<1>3. ASSUME NEW k \in Kinds, mod'.imp[k].cnt > 0
      PROVE  mod'.imp[k].arr \in live' /\ Len(mod'.imp[k].elt) = mod'.imp[k].cnt
  <2>1. mod'.imp[k] = IF mod.imp[k].cnt > 0
                      THEN [cnt |-> mod.imp[k].cnt, arr |-> Array(k),
                            elt |-> [i \in 1..mod.imp[k].cnt |-> NoImport]]
                      ELSE mod.imp[k]
    BY DEF ImportsBegun
  <2>2. mod.imp[k].cnt > 0
    BY <1>3, <2>1
  <2>3. /\ mod'.imp[k].cnt = mod.imp[k].cnt /\ mod'.imp[k].arr = Array(k)
        /\ mod'.imp[k].elt = [i \in 1..mod.imp[k].cnt |-> NoImport]
    BY <2>1, <2>2
  <2>4. Array(k) # Null /\ Array(k) \in {Array(j) : j \in {i \in Kinds : mod.imp[i].cnt > 0}}
    BY <2>2 DEF Array, Obj, Null
  <2>5. Array(k) \in live'
    BY <2>4 DEF ImportsBegun, HeapGrew
  <2>6. Len([i \in 1..mod.imp[k].cnt |-> NoImport]) = mod.imp[k].cnt
    BY <1>1, SameSeq
  <2> QED  BY <2>3, <2>5, <2>6
<1>4. \A n \in 1..ImportedFuncs'.cnt : ~(n < nxt'[FuncKind])
  <2>1. ImportedFuncs'.cnt \in Nat
    <3>1. FuncKind \in Kinds
      BY DEF FuncKind, Kinds
    <3>2. mod'.imp[FuncKind]
            = IF mod.imp[FuncKind].cnt > 0
              THEN [cnt |-> mod.imp[FuncKind].cnt, arr |-> Array(FuncKind),
                    elt |-> [i \in 1..mod.imp[FuncKind].cnt |-> NoImport]]
              ELSE mod.imp[FuncKind]
      BY <3>1 DEF ImportsBegun
    <3>3. mod'.imp[FuncKind].cnt = mod.imp[FuncKind].cnt
      BY <3>2
    <3> QED  BY <1>1, <3>1, <3>3 DEF ImportedFuncs
  <2> QED  BY <1>2, <2>1
<1> QED  BY <1>3, <1>4 DEF ImportsWhole

LEMMA ImportsTurn ==
    ASSUME Typed, NoSectionTwice, Parsing(Import), ParseStep, pc' = "parse", fails' = fails,
           ~(InImports /\ probe # 0) => ImportsWhole
    PROVE  ~(InImports /\ probe # 0)' => ImportsWhole'
<1>1. /\ Writes /\ live \subseteq live' /\ \A k \in Kinds : mod.imp[k].arr \in Ptrs
      /\ \A j : Parsing(j) => j = Import
      /\ Import \notin Vectors /\ Import \notin {Table, Global, Data, Elem}
      /\ Import \in Counted /\ Sec.type = Import /\ item \in Nat
  BY ImportArr, TypedParts
     DEF ParseStep, Vectors, Parsing, Type, Function, Export, Elem, Import, Table,
         Global, Data, Memory, Counted, Typed, LoopTyped
<1>2. CASE NothingWritten
  <2>1. mod'.imp = mod.imp /\ nxt' = nxt /\ QuietTurn
    BY <1>2 DEF NothingWritten, SameEntries
  <2>2. item = 0 \/ probe = 0
    BY <1>1, <2>1 DEF QuietTurn
  <2>3. ImportsWhole
    BY <2>2 DEF InImports
  <2> QED  BY <1>1, <2>1, <2>3, OtherImports
<1>3. ~EntryWrites /\ ~VectorWrites
  BY <1>1, FilledVectors DEF EntryWrites, VectorWrites, Turn, Begins
<1>4. CASE ImportsGrow
  <2>1. NextTurn /\ probe' # 0
    BY <1>4 DEF ImportsGrow
  <2>2. item' \in Nat \ {0} /\ at' = at
    BY <1>1, <2>1 DEF NextTurn, GoesOn
  <2>3. InImports'
    BY <2>2, InImportsParts
  <2> QED  BY <2>1, <2>3
<1>5. CASE ImportsBegun
  BY <1>5, ArraysDone
<1>6. CASE ImportWrites
  <2>1. Turn(Import)
    BY <1>6 DEF ImportWrites
  <2>2. ImportsWhole
    BY <2>1 DEF Turn
  <2>3. PICK k \in Kinds : \E e \in ImportRecs :
            WroteImport(mod', mod, k, nxt[k], e) /\ DoneImport(k, e)
    BY <1>6 DEF ImportWrites
  <2>4. PICK e \in ImportRecs : WroteImport(mod', mod, k, nxt[k], e) /\ DoneImport(k, e)
    BY <2>3
  <2> QED  BY <1>1, <2>1, <2>2, <2>4, ImportDone
<1> QED  BY <1>1, <1>2, <1>3, <1>4, <1>5, <1>6 DEF Writes

\* A turn of fw_module_parse.
LEMMA ParseOn ==
    ASSUME Typed, NoSectionTwice, ParseFile, ParseStep, pc' = "parse", fails' = fails,
           ParseWhole
    PROVE  ParseWhole'
<1>1. live \subseteq live' /\ Writes
  BY DEF ParseStep
<1>2. ASSUME NEW k \in Filled PROVE VectorWhole(k)'
  <2>1. k \in Vectors
    BY DEF Filled, Vectors
  <2> QED  BY <2>1, OtherVector, OwnVector DEF ParseWhole
<1>3. ~(InImports /\ probe # 0)' => ImportsWhole'
  <2>1. CASE Parsing(Import)
    BY <2>1, ImportsTurn DEF ParseWhole
  <2>2. CASE ~Parsing(Import)
    <3>1. mod'.imp = mod.imp /\ nxt' = nxt
      BY <1>1, <2>2, WritesOwn, CursorsRest
    <3>2. ImportsWhole
      BY <2>2 DEF ParseWhole, InImports
    <3> QED  BY <1>1, <3>1, <3>2, OtherImports, ImportArr
  <2> QED  BY <2>1, <2>2
<1> QED  BY <1>2, <1>3 DEF ParseWhole

\* Behind the last section there is nothing to parse.
LEMMA LastSection ==
    ASSUME Typed, ParseFile, pc = "parse", at > Len(mod.secs)
    PROVE  ParseEnds
<1>1. \A t : ~Parsing(t)
  <2>1. at \in Nat /\ Len(mod.secs) \in Nat
    BY TypedParts, SectionsOfModule DEF Typed, LoopTyped
  <2> QED  BY <2>1 DEF Parsing
<1> QED  BY <1>1
         DEF ParseFile, NoCount, ZeroCount, BeginVector, SectionEnds, SkipSection, PlainEntry,
             TypeEntry, ExportEntry, ElemEntry, BeginMemory, ParseStart, BeginFuncs, FuncEntry,
             BeginImports, CountImport, ImportArrays, ImportCut, ImportStray, ImportEntry,
             Begins, Turn, Counting

\* All that is counted is there.
LEMMA WholeLeft ==
    ASSUME Typed, ModuleWhole, SectionsOf(Elem) = {} => mod.vec[Elem] = Empty
    PROVE  VectorsLeft
<1>1. /\ IsModule(mod) /\ {Null, Wild} \cap live = {}
      /\ Filled \subseteq Vectors /\ {Type, Export, Elem, Function} \subseteq Filled
      /\ Function \notin {Type, Export}
  BY TypedParts DEF Typed, HeapTyped, Filled, Vectors, Function, Type, Export
<1>2. \A k \in Filled : WrittenTo(k, mod.vec[k].cnt) /\ mod.vec[k].cnt \in Nat
  BY <1>1, VectorEntries DEF ModuleWhole
<1>3. ASSUME NEW k \in Filled
      PROVE  \A i \in DOMAIN mod.vec[k].elt : EntryThere(k, mod.vec[k].elt[i])
  <2>1. DOMAIN mod.vec[k].elt = 1..mod.vec[k].cnt
    BY <1>1, <1>2, VectorEntries DEF WrittenTo
  <2> QED  BY <1>2, <2>1 DEF WrittenTo
<1>4. \A k \in {Type, Export, Elem} : mod.vec[k].cnt > 0 => mod.vec[k].arr # Null
  BY <1>1, <1>2 DEF WrittenTo
<1>5. \A k \in {Type, Export} :
          \A i \in DOMAIN mod.vec[k].elt : mod.vec[k].elt[i].own # Wild
  BY <1>1, <1>3 DEF EntryThere
<1>6. \A i \in DOMAIN OwnFuncs.elt : OwnFuncs.elt[i].ready
  BY <1>1, <1>3 DEF EntryThere, OwnFuncs
<1> QED  BY <1>4, <1>5, <1>6 DEF VectorsLeft

LEMMA ParseOver ==
    ASSUME Typed, ParseEnds, ParseWhole
    PROVE  ModuleWhole /\ VectorsLeft
<1>1. at > Len(mod.secs) /\ at \in Nat /\ Len(mod.secs) \in Nat /\ IsModule(mod)
  BY TypedParts, SectionsOfModule DEF ParseEnds, Typed, LoopTyped
<1>2. \A t : ~Parsing(t)
  BY <1>1 DEF Parsing
<1>3. ModuleWhole
  BY <1>2 DEF ModuleWhole, ParseWhole, VectorWhole, InVector, InImports
<1>4. SectionsOf(Elem) = {} => mod.vec[Elem] = Empty
  <2>1. Elem \in Filled
    BY DEF Filled
  <2> QED  BY <2>1 DEF ParseWhole, VectorWhole, SectionAhead
<1> QED  BY <1>3, <1>4, WholeLeft

LEMMA ParseKeepsWhole ==
    ASSUME Typed, LoadInv, CountInv, WholeInv, ParseFile, UNCHANGED <<given, instanceVars>>
    PROVE  WholeInv'
<1>1. /\ ParseStep /\ pc = "parse" /\ Control /\ fails' <= fails /\ back' = back
      /\ IsModule(mod) /\ IsModule(mod') /\ SameSections(mod', mod)
      /\ fails \in Nat /\ fails' \in Nat /\ parsed = "none"
  BY ParseSteps, TypedParts DEF ParseStep, Keeps, Typed, HeapTyped, CountInv
<1>2. (NoSectionTwice' <=> NoSectionTwice) /\ UNCHANGED <<funcs, compiled, given>>
  BY <1>1, SectionsStay DEF instanceVars
<1>3. given.fails \in Nat
  BY TypedParts, CasesAssumption DEF Typed, RegistryInv
<1>4. fails <= given.fails /\ fails' <= given'.fails
  BY <1>1, <1>2, <1>3 DEF WholeInv
<1>5. back' # "close" /\ pc' \in {"parse", "detach"} \cup GoneStates
  <2>1. back # "close"
    BY <1>1 DEF LoadInv, LostStates
  <2> QED  BY <1>1, <2>1, ControlTyped DEF Typed
<1>6. \/ pc' = "parse" /\ parsed' = "none"
      \/ pc' = "detach" /\ parsed' = "err"
      \/ pc' = "detach" /\ parsed' = "ok" /\ at > Len(mod.secs)
      \/ pc' \in GoneStates /\ parsed' = "none"
  BY <1>1 DEF Control, NextTurn, NextSection, GoesOn, Lost
<1>7. ASSUME Unstarved', NoSectionTwice'
      PROVE  fails' = fails /\ ParseWhole
  <2>1. Unstarved /\ fails' = fails
    BY <1>1, <1>2, <1>3, <1>4, <1>7 DEF Unstarved
  <2> QED  BY <1>1, <1>2, <1>7, <2>1 DEF WholeInv
<1>8. ASSUME Unstarved', NoSectionTwice', pc' = "parse"
      PROVE  ParseWhole'
  BY <1>1, <1>2, <1>7, <1>8, ParseOn
<1>9. ASSUME Unstarved', NoSectionTwice', parsed' = "ok"
      PROVE  ModuleWhole' /\ VectorsLeft'
  <2>1. ParseEnds
    BY <1>1, <1>6, <1>9, LastSection
  <2>2. ModuleWhole /\ VectorsLeft
    BY <1>7, <1>9, <2>1, ParseOver
  <2>3. UNCHANGED <<mod, live, nxt, item, at>>
    BY <2>1 DEF ParseEnds, UnchangedHeap
  <2> QED  BY <2>2, <2>3
           DEF ModuleWhole, VectorsLeft, WrittenTo, EntryThere, ImportsWhole, ImportedFuncs,
               OwnFuncs, SectionsOf
<1>10. parsed' = "ok" => pc' = "detach"
  BY <1>6
<1>11. parsed' = "ok" => FuncsWhole'
  <2> SUFFICES ASSUME pc' = "detach" PROVE FuncsWhole'
    BY <1>10
  <2> QED  BY DEF FuncsWhole, ExportsBound
<1>12. funcs' = << >> /\ pc' # "run"
  <2>1. pc \in ToCompile
    BY <1>1 DEF ToCompile
  <2> QED  BY <1>2, <1>5, <2>1 DEF WholeInv, GoneStates, LostStates
<1>13. ParsedModulesSafe'
  BY <1>10 DEF ParsedModulesSafe, LostStates
<1> QED  BY <1>4, <1>5, <1>6, <1>8, <1>9, <1>11, <1>12, <1>13
         DEF WholeInv, GoneStates, LostStates

-----------------------------------------------------------------------------
(***************************************************************************)
(* What a module keeps behind its parse                                    *)
(***************************************************************************)
\* Outside the parse, what the module points to stays.
ModuleStays ==
    /\ IsModule(mod') /\ mod'.secs = mod.secs /\ live \cap Ptrs \subseteq live'
    /\ \A k \in Vectors \ {Export} : mod'.vec[k] = mod.vec[k]
    /\ SameVector(Export) /\ mod'.imp = mod.imp
    /\ UNCHANGED <<cells, nxt, parsed, given>>

LEMMA VectorPtrs ==
    ASSUME Typed, NEW k \in Vectors
    PROVE  /\ mod.vec[k].arr \in Ptrs
           /\ \A j \in 1..Len(mod.vec[k].elt) :
                 /\ mod.vec[k].elt[j].own \in Ptrs
                 /\ k = Function => mod.vec[k].elt[j].type \in Ptrs
<1>1. IsModule(mod)
  BY TypedParts DEF Typed
<1>2. mod.vec[k].arr \in Ptrs
  BY <1>1 DEF IsModule, VecRecs
<1>3. ASSUME NEW j \in 1..Len(mod.vec[k].elt)
      PROVE  /\ mod.vec[k].elt[j].own \in Ptrs
             /\ k = Function => mod.vec[k].elt[j].type \in Ptrs
  <2>1. mod.vec[k].elt[j] \in EntriesOf(k)
    BY <1>1, VectorEntries
  <2> QED  BY <2>1 DEF EntriesOf, FuncRecs, EntryRecs
<1> QED  BY <1>2, <1>3

LEMMA RegularStays ==
    ASSUME mod'.secs = mod.secs, cells' = cells, mod'.imp[TabKind].cnt = mod.imp[TabKind].cnt,
           mod'.vec[Elem] = mod.vec[Elem], mod'.vec[Function] = mod.vec[Function]
    PROVE  /\ Regular' <=> Regular
           /\ NoSectionTwice' <=> NoSectionTwice
           /\ \A t : SectionsOf(t)' = SectionsOf(t)
<1>1. \A t : SectionsOf(t)' = SectionsOf(t)
  BY DEF SectionsOf
<1>2. NoSectionTwice' <=> NoSectionTwice
  BY <1>1 DEF NoSectionTwice
<1>3. (ElemsLikeFuncs' <=> ElemsLikeFuncs) /\ (TypesNamed' <=> TypesNamed)
  BY <1>1 DEF ElemsLikeFuncs, TypesNamed, OwnFuncs
<1>4. BodyCells' = BodyCells
  BY DEF BodyCells, OwnBodies, OwnFuncs
<1>5. (\A p \in BodyCells : p <= Len(cells) /\ cells[p] \in PlainOps)'
        <=> \A p \in BodyCells : p <= Len(cells) /\ cells[p] \in PlainOps
  BY <1>4
<1> QED  BY <1>1, <1>2, <1>3, <1>5 DEF Regular

LEMMA LeftStays ==
    ASSUME Typed, IsModule(mod'), mod'.secs = mod.secs, VectorsLeft,
           \A k \in Vectors \ {Export} : mod'.vec[k] = mod.vec[k], SameVector(Export)
    PROVE  VectorsLeft'
<1>1. SectionsOf(Elem)' = SectionsOf(Elem) /\ IsModule(mod)
  BY TypedParts DEF SectionsOf, Typed
<1>2. /\ {Type, Elem, Function} \subseteq Vectors \ {Export} /\ Export \in Vectors
  BY DEF Vectors, Type, Elem, Function, Export
<1>3. DOMAIN mod.vec[Export].elt = 1..Len(mod.vec[Export].elt)
      /\ DOMAIN mod'.vec[Export].elt = 1..Len(mod.vec[Export].elt)
  BY <1>1, <1>2, VectorEntries DEF SameVector
<1>4. \A i \in DOMAIN mod'.vec[Export].elt : mod'.vec[Export].elt[i].own # Wild
  BY <1>3 DEF VectorsLeft, SameVector
<1> QED  BY <1>1, <1>2, <1>4 DEF VectorsLeft, SameVector, OwnFuncs

LEMMA WholeStays ==
    ASSUME Typed, ModuleStays
    PROVE  /\ (Regular' <=> Regular) /\ (NoSectionTwice' <=> NoSectionTwice)
           /\ VectorsLeft => VectorsLeft'
           /\ ModuleWhole => ModuleWhole'
<1>1. /\ {Type, Elem, Function} \subseteq Vectors \ {Export} /\ Export \in Vectors
      /\ Filled = {Type, Elem, Function, Export} /\ Export # Function /\ Export # Type
      /\ Type # Function /\ Elem \notin {Type, Export, Function}
  BY DEF Vectors, Type, Elem, Function, Export, Filled
<1>2. ASSUME NEW k \in Filled, WrittenTo(k, mod.vec[k].cnt)
      PROVE  WrittenTo(k, mod.vec[k].cnt)'
  <2>1. k \in Vectors
    BY <1>1
  <2>2. /\ mod'.vec[k].cnt = mod.vec[k].cnt /\ mod'.vec[k].arr = mod.vec[k].arr
        /\ Len(mod'.vec[k].elt) = Len(mod.vec[k].elt)
        /\ \A j \in 1..Len(mod.vec[k].elt) :
              /\ mod'.vec[k].elt[j].own = mod.vec[k].elt[j].own
              /\ k = Function => mod'.vec[k].elt[j] = mod.vec[k].elt[j]
    <3>1. CASE k = Export
      BY <1>1, <3>1 DEF ModuleStays, SameVector
    <3>2. CASE k # Export
      BY <2>1, <3>2 DEF ModuleStays
    <3> QED  BY <3>1, <3>2
  <2>3. mod.vec[k].cnt > 0 => mod.vec[k].arr \in live'
    BY <1>2, <2>1, VectorPtrs DEF WrittenTo, ModuleStays
  <2>4. ASSUME NEW j \in 1..mod.vec[k].cnt
        PROVE  EntryThere(k, mod.vec[k].elt[j])'
    <3>1. j \in 1..Len(mod.vec[k].elt) /\ EntryThere(k, mod.vec[k].elt[j])
      BY <1>2, <2>4 DEF WrittenTo
    <3>2. /\ mod.vec[k].elt[j].own \in Ptrs
          /\ k = Function => mod.vec[k].elt[j].type \in Ptrs
      BY <2>1, <3>1, VectorPtrs
    <3>3. k \in {Type, Export} => mod'.vec[k].elt[j].own \in live'
      BY <2>2, <3>1, <3>2 DEF EntryThere, ModuleStays
    <3>4. k = Function => mod'.vec[k].elt[j].ready /\ mod'.vec[k].elt[j].type \in live' \cup {Wild}
      BY <2>2, <3>1, <3>2 DEF EntryThere, ModuleStays
    <3> QED  BY <3>3, <3>4 DEF EntryThere
  <2> QED  BY <1>2, <2>2, <2>3, <2>4 DEF WrittenTo
<1>3. ImportsWhole => ImportsWhole'
  BY OtherImports, ImportArr DEF ModuleStays
<1>4. (Regular' <=> Regular) /\ (NoSectionTwice' <=> NoSectionTwice)
  BY <1>1, RegularStays DEF ModuleStays
<1>5. VectorsLeft => VectorsLeft'
  BY LeftStays DEF ModuleStays
<1> QED  BY <1>2, <1>3, <1>4, <1>5 DEF ModuleWhole

\* No function of the module's own runs, or one that is quiet.
RunsHarmless == ran # 0 => Harmless(ran)

\* How a module that has been parsed should not end.
BadEnds == LostStates \cup {"exit", "hung", "overread"}

LEMMA HarmlessStays ==
    ASSUME UNCHANGED <<funcs, cells, mod>>
    PROVE  \A k : Harmless(k)' <=> Harmless(k)
BY DEF Harmless, Quiet, OwnFuncs, Types

\* What of WholeInv a step behind the parse has still to show.
LEMMA AfterKeeps ==
    ASSUME Typed, WholeInv, ModuleStays, fails' \in Nat, fails' <= fails,
           pc \in AfterParse \ {"succeeded"}, pc' \notin {"parse", "close", "load_null"},
           back' # "close" \/ parsed' = "none",
           pc' \in ToCompile => funcs' = << >>,
           pc' = "run" => compiled' = "ok",
           Unstarved /\ Unstarved' /\ Regular /\ parsed = "ok" /\ ModuleWhole /\ FuncsWhole
             => FuncsWhole' /\ (RunsHarmless' => pc' \notin BadEnds)
    PROVE  WholeInv'
<1>1. /\ given' = given /\ parsed' = parsed
      /\ fails \in Nat /\ given.fails \in Nat /\ fails <= given.fails
  BY TypedParts, CasesAssumption DEF Typed, HeapTyped, RegistryInv, WholeInv, ModuleStays
<1>2. fails' <= given'.fails
  BY <1>1
<1>3. Unstarved' => Unstarved
  BY <1>1 DEF Unstarved
<1>4. /\ (Regular' <=> Regular) /\ (NoSectionTwice' <=> NoSectionTwice)
      /\ VectorsLeft => VectorsLeft'
      /\ ModuleWhole => ModuleWhole'
  BY WholeStays
<1>5. Regular => NoSectionTwice
  BY DEF Regular
<1>6. ASSUME Unstarved', NoSectionTwice', parsed' = "ok"
      PROVE  VectorsLeft' /\ ModuleWhole /\ ModuleWhole'
  BY <1>1, <1>3, <1>4, <1>6 DEF WholeInv
<1>7. ASSUME Unstarved', Regular', parsed' = "ok"
      PROVE  FuncsWhole' /\ (RunsHarmless' => pc' \notin BadEnds)
  <2>1. Unstarved /\ Regular /\ parsed = "ok"
    BY <1>1, <1>3, <1>4, <1>7
  <2>2. FuncsWhole /\ ModuleWhole
    BY <1>4, <1>5, <1>6, <1>7, <2>1 DEF WholeInv
  <2> QED  BY <1>7, <2>1, <2>2
<1>8. ParsedModulesSafe'
  BY <1>7 DEF ParsedModulesSafe, RunsHarmless, BadEnds
<1> QED  BY <1>2, <1>6, <1>7, <1>8 DEF WholeInv

-----------------------------------------------------------------------------
(***************************************************************************)
(* The load and fw_module_free, seen from the module                       *)
(***************************************************************************)
\* Before a module has been parsed, and when its load has failed.
LEMMA NotParsed ==
    ASSUME Typed, WholeInv, fails' \in Nat, fails' <= fails, given' = given,
           parsed' = "none", pc' \notin {"parse", "run"}, pc' \in ToCompile => funcs' = << >>
    PROVE  WholeInv'
<1>1. fails \in Nat /\ given.fails \in Nat /\ fails <= given.fails
  BY TypedParts, CasesAssumption DEF Typed, HeapTyped, RegistryInv, WholeInv
<1>2. fails' <= given'.fails
  BY <1>1
<1> QED  BY <1>2 DEF WholeInv, ParsedModulesSafe

\* The module before anything of it is parsed.
LEMMA NothingParsed ==
    ASSUME mod.vec = Zeroed.vec, mod.imp = Zeroed.imp, item = 0
    PROVE  ParseWhole
<1>1. /\ \A k \in Vectors : mod.vec[k] = Empty
      /\ \A k \in Kinds : mod.imp[k] = Empty
  BY DEF Zeroed
<1>2. Empty.cnt = 0 /\ Filled \subseteq Vectors /\ FuncKind \in Kinds
  BY DEF Empty, Filled, Vectors, FuncKind, Kinds
<1>3. ImportsWhole
  BY <1>1, <1>2 DEF ImportsWhole, ImportedFuncs
<1> QED  BY <1>1, <1>2, <1>3, EmptyWritten DEF ParseWhole, VectorWhole, InVector

LEMMA FileObjOther == FileObj \notin Ptrs
<1>1. \A a, b, c : Obj(a, b, c) \in Ptrs => a \in PtrKinds
  BY DEF Obj, Ptrs
<1>2. "file" \notin PtrKinds
  BY DEF PtrKinds
<1> QED  BY <1>1, <1>2 DEF FileObj

LEMMA LoadKeepsWhole ==
    ASSUME Typed, LoadInv, CountInv, WholeInv, LoadFile, UNCHANGED <<given, instanceVars>>
    PROVE  WholeInv'
<1>1. /\ fails \in Nat /\ IsModule(mod) /\ given.fails \in Nat /\ funcs' = funcs
      /\ compiled' = compiled /\ fails <= given.fails
  BY TypedParts, CasesAssumption DEF Typed, HeapTyped, RegistryInv, instanceVars, WholeInv
<1>2. \A d \in {fails, fails - 1} : fails > 0 => d \in Nat /\ d <= fails
  BY <1>1
<1>3. CASE OpenFails \/ ReadFails \/ BadHeader \/ CloseFile
  <2>1. /\ pc \in {"open", "header", "close"} /\ pc' \in {"load_null", "close"}
        /\ UNCHANGED loaderVars
        /\ fails' = fails \/ (fails > 0 /\ fails' = fails - 1)
    BY <1>3 DEF OpenFails, ReadFails, BadHeader, CloseFile
  <2>2. fails' \in Nat /\ fails' <= fails
    BY <1>1, <1>2, <2>1
  <2>3. parsed' = "none"
    BY <2>1 DEF LoadInv, WholeInv, loaderVars
  <2>4. pc' \notin {"parse", "run"} \cup ToCompile
    BY <2>1 DEF ToCompile
  <2> QED  BY <2>2, <2>3, <2>4, NotParsed
<1>4. CASE ReadFile \/ NewModule \/ SplitSection
  <2>1. /\ pc \in {"open", "header", "sections"}
        /\ pc' \in {"header", "close", "sections", "free"}
        /\ parsed' = parsed /\ fails' \in Nat /\ fails' <= fails
    <3>1. CASE ReadFile
      BY <1>1, <3>1, TwoMallocs DEF ReadFile, loaderVars
    <3>2. CASE NewModule
      BY <1>1, <3>2, OneMalloc DEF NewModule
    <3>3. CASE SplitSection
      <4>1. fails' = fails \/ \E s : Mallocs(<<s>>)
        BY <3>3 DEF SplitSection
      <4>2. fails' \in Nat /\ fails' <= fails
        <5>1. ASSUME NEW s, Mallocs(<<s>>) PROVE fails' \in Nat /\ fails' <= fails
          BY <1>1, <5>1, OneMalloc
        <5>2. fails' = fails => fails' \in Nat /\ fails' <= fails
          BY <1>1
        <5> QED  BY <4>1, <5>1, <5>2
      <4>3. pc = "sections" /\ parsed' = parsed /\ pc' \in {"sections", "free"}
        BY <3>3 DEF SplitSection, LoadFails
      <4> QED  BY <4>2, <4>3
    <3> QED  BY <1>4, <3>1, <3>2, <3>3
  <2>2. parsed' = "none" /\ funcs' = << >>
    BY <1>1, <2>1 DEF LoadInv, WholeInv, ToCompile
  <2> QED  BY <2>1, <2>2, NotParsed
<1>5. CASE SplitEnds
  <2>1. pc = "sections" /\ UNCHANGED <<fails, mod, parsed, item>>
        /\ (pc' = "free" \/ (pc' = "parse" /\ back' = back))
    BY <1>5 DEF SplitEnds, LoadFails
  <2>2. parsed = "none" /\ funcs = << >> /\ mod.vec = Zeroed.vec /\ mod.imp = Zeroed.imp
        /\ back = "none" /\ item = 0
    BY <2>1 DEF LoadInv, WholeInv, ToCompile, CountInv, GoneStates, LostStates
  <2>3. CASE pc' = "free"
    BY <1>1, <2>1, <2>2, <2>3, NotParsed
  <2>4. CASE pc' = "parse" /\ back' = back
    <3>1. ParseWhole'
      <4>1. mod'.vec = Zeroed.vec /\ mod'.imp = Zeroed.imp /\ item' = 0
        BY <2>1, <2>2
      <4>2. (mod.vec = Zeroed.vec /\ mod.imp = Zeroed.imp /\ item = 0 => ParseWhole)'
        BY NothingParsed, PTL
      <4> QED  BY <4>1, <4>2 DEF Zeroed
    <3>2. fails' <= given'.fails
      BY <1>1, <2>1
    <3> QED  BY <1>1, <2>1, <2>2, <2>4, <3>1, <3>2 DEF WholeInv, ParsedModulesSafe
  <2> QED  BY <2>1, <2>3, <2>4
<1>6. CASE Detach
  <2>1. /\ pc = "detach" /\ pc' = "loaded" /\ mod' = [mod EXCEPT !.filedata = FileData]
        /\ live' = Without(<<FileObj>>)
        /\ UNCHANGED <<fails, cells, nxt, back, parsed>>
    BY <1>6 DEF Detach
  <2>2. /\ IsModule(mod') /\ mod'.secs = mod.secs /\ mod'.vec = mod.vec
        /\ mod'.imp = mod.imp
    <3>1. mod' = WithPtrs(mod, FileData, mod.instance)
      BY <1>1, <2>1 DEF WithPtrs, IsModule
    <3>2. mod.instance \in {Null, Instance}
      BY <1>1 DEF IsModule
    <3> QED  BY <1>1, <3>1, <3>2, PtrsSet
  <2>3. live \cap Ptrs \subseteq live'
    BY <2>1, FileObjOther DEF Without, Range
  <2>4. ModuleStays
    BY <2>1, <2>2, <2>3 DEF ModuleStays, SameVector
  <2>5. FuncsWhole'
    BY <2>1 DEF FuncsWhole, ExportsBound
  <2>6. back # "close"
    BY <2>1 DEF LoadInv, LostStates
  <2>7. funcs' = << >>
    BY <1>1, <2>1 DEF WholeInv, ToCompile
  <2> QED  BY <1>1, <2>1, <2>4, <2>5, <2>6, <2>7, AfterKeeps
           DEF AfterParse, BadEnds, LostStates
<1> QED  BY <1>3, <1>4, <1>5, <1>6 DEF LoadFile

\* What the free handlers rely on is what they look at.
LEMMA LeftFreed ==
    ASSUME Typed, VectorsLeft, ElemsLikeFuncs
    PROVE  EntriesWritten
<1>1. IsModule(mod) /\ Elem \in Vectors /\ Function \in Vectors
  BY TypedParts DEF Typed, Elem, Function, Vectors
<1>2. CASE SectionsOf(Elem) = {}
  <2>1. mod.vec[Elem].cnt = 0 /\ DOMAIN mod.vec[Elem].elt = {}
    <3>1. mod.vec[Elem] = Empty
      BY <1>2 DEF VectorsLeft
    <3>2. mod.vec[Elem].elt = << >> /\ mod.vec[Elem].cnt = 0
      BY <3>1 DEF Empty
    <3> QED  BY <3>2
  <2> QED  BY <2>1 DEF VectorsLeft, EntriesWritten
<1>3. CASE SectionsOf(Elem) # {}
  <2>1. /\ Len(mod.vec[Elem].elt) = OwnFuncs.cnt
        /\ \A i \in DOMAIN mod.vec[Elem].elt : mod.vec[Elem].elt[i].own # Wild
    BY <1>3 DEF ElemsLikeFuncs, OwnFuncs
  <2>2. OwnFuncs.cnt \in Nat
    BY <1>1, VectorEntries DEF OwnFuncs
  <2> QED  BY <2>1, <2>2 DEF VectorsLeft, EntriesWritten
<1> QED  BY <1>2, <1>3

LEMMA FreeKeepsWhole ==
    ASSUME Typed, Typed', LoadInv, HoldInv', WholeInv, FreeModule,
           UNCHANGED <<given, instanceVars>>
    PROVE  WholeInv'
<1>1. /\ pc = "free" /\ fails' = fails /\ back' = back /\ cells' = cells
      /\ pc' \in LostStates \cup {"free", "close", "done"} /\ parsed' = parsed
      /\ pc' = "close" => back = "close"
  <2>1. back \in {"close", "done"}
    BY FreeSteps, TypedParts DEF Typed
  <2>2. \/ NextSection
        \/ \E how \in LostStates : Lost(how)
        \/ pc' \in LostStates \cup {back} /\ UNCHANGED <<at, item, todo, parsed>>
    BY FreeSteps
  <2>3. pc' \in LostStates \cup {"free", back} /\ parsed' = parsed
    BY <2>2, FreeSteps DEF NextSection, Lost
  <2> QED  BY <2>1, <2>3, FreeSteps DEF LostStates
<1>2. IsModule(mod) /\ IsModule(mod') /\ mod'.secs = mod.secs /\ mod'.vec = mod.vec
      /\ mod'.imp[TabKind].cnt = mod.imp[TabKind].cnt
  <2>1. IsModule(mod)
    BY TypedParts DEF Typed
  <2>2. CASE mod' = mod
    BY <2>1, <2>2 DEF IsModule
  <2>3. CASE mod' = WithImports(mod, ArraysTaken(mod.imp))
    <3>1. IsModule(mod') /\ mod'.secs = mod.secs /\ mod'.vec = mod.vec
      BY <2>1, <2>3, ImportsTaken
    <3>2. mod'.imp = ArraysTaken(mod.imp)
      BY <2>1, <2>3 DEF WithImports, IsModule
    <3>3. mod.imp[TabKind] \in ImpRecs /\ TabKind \in Kinds
      BY <2>1 DEF IsModule, TabKind, Kinds
    <3> QED  BY <2>1, <3>1, <3>2, <3>3 DEF ArraysTaken, ImpRecs
  <2> QED  BY <2>2, <2>3, FreeSteps
<1>3. given' = given /\ (Unstarved' <=> Unstarved)
  BY <1>1 DEF Unstarved
<1>4. (Regular' <=> Regular) /\ (NoSectionTwice' <=> NoSectionTwice)
  BY <1>1, <1>2, RegularStays
<1>5. VectorsLeft => VectorsLeft'
  BY <1>2, LeftStays DEF SameVector
<1>6. ASSUME parsed' = "ok", Unstarved', Regular' PROVE pc' \notin BadEnds
  <2>1. NoSectionTwice' /\ ElemsLikeFuncs'
    BY <1>6 DEF Regular
  <2>2. VectorsLeft'
    BY <1>1, <1>3, <1>4, <1>5, <1>6, <2>1 DEF WholeInv
  <2>3. back' = "done"
    <3>1. back # "close" /\ back # "none"
      BY <1>1, <1>6, TypedParts DEF WholeInv, Typed
    <3>2. back \in {"none", "close", "done"}
      BY TypedParts DEF Typed
    <3> QED  BY <1>1, <3>1, <3>2
  <2>4. (Typed /\ VectorsLeft /\ ElemsLikeFuncs => EntriesWritten)'
    BY LeftFreed, PTL
  <2>5. EntriesWritten'
    BY <2>1, <2>2, <2>4
  <2>6. HalfParsedFreed'
    BY DEF HoldInv
  <2>7. pc' \notin LostStates
    BY <2>1, <2>3, <2>5, <2>6 DEF HalfParsedFreed
  <2> QED  BY <1>1, <2>7 DEF BadEnds
<1>7. FuncsWhole'
  BY <1>1 DEF FuncsWhole, ExportsBound, LostStates
<1>8. pc' \notin {"parse", "run"} \cup ToCompile \cup AfterParse
  BY <1>1 DEF LostStates, ToCompile, AfterParse
<1>9. fails' <= given'.fails
  BY <1>1, <1>3 DEF WholeInv
<1>10. back' = "close" \/ pc' \in {"close", "load_null"} => parsed' = "none"
  <2>1. back' = "close" \/ pc' \in {"close", "load_null"} => back = "close"
    BY <1>1 DEF LostStates
  <2> QED  BY <1>1, <2>1 DEF WholeInv
<1>11. NoSectionTwice' /\ Unstarved' /\ parsed' = "ok" => VectorsLeft'
  BY <1>1, <1>3, <1>4, <1>5 DEF WholeInv
<1> QED  BY <1>6, <1>7, <1>8, <1>9, <1>10, <1>11 DEF WholeInv, ParsedModulesSafe, BadEnds

-----------------------------------------------------------------------------
(***************************************************************************)
(* The driver, the compilation and the run                                 *)
(***************************************************************************)
LEMMA KeptStays ==
    ASSUME Typed, CompileKeeps, UNCHANGED <<cells, nxt, parsed, given>>
    PROVE  ModuleStays
BY DEF CompileKeeps, ModuleStays, Vectors

LEMMA FuncsNext ==
    ASSUME pc' \notin {"resolve", "exports"}, ~ExportsBound'
    PROVE  FuncsWhole'
BY DEF FuncsWhole

\* What is registered has its memory while nothing has failed.
LEMMA RegisterFails ==
    ASSUME Typed, LoadedModule \/ RegisterNext
    PROVE  /\ fails' \in Nat /\ fails' <= fails /\ live \subseteq live'
           /\ fails' = fails => pc' \notin LostStates
<1>1. fails \in Nat
  BY TypedParts DEF Typed, HeapTyped
<1>2. CASE LoadedModule
  <2>1. PICK w \in Answer(Wrap) : Mallocs(<<w>>) /\ pc' = IF w = Null THEN "crash" ELSE "register"
    BY <1>2 DEF LoadedModule, NewWrap
  <2>2. /\ fails' \in Nat /\ fails' <= fails /\ live \subseteq live'
        /\ fails' = fails => w # Null
    BY <1>1, <2>1, OneMalloc
  <2> QED  BY <2>1, <2>2 DEF LostStates
<1>3. CASE RegisterNext
  <2> DEFINE o == EntryObjs(reg)[1]
  <2>1. \/ Mallocs(<<Null>>) /\ pc' = pc
        \/ \E m \in Answer(EntryObjs(reg)[2]), n \in Answer(EntryObjs(reg)[3]) :
              /\ Mallocs(<<o, m, n>>)
              /\ pc' = pc \/ Null \in {m, n}
    <3>1. CASE AddGlobal(reg, given.regs[reg])
      BY <3>1 DEF AddGlobal
    <3>2. CASE AddFunc(reg, given.regs[reg])
      BY <3>2 DEF AddFunc
    <3> QED  BY <1>3, <3>1, <3>2 DEF RegisterNext
  <2> HIDE DEF o
  <2>2. pc = "register"
    BY <1>3 DEF RegisterNext
  <2>3. CASE Mallocs(<<Null>>) /\ pc' = pc
    <3>1. fails' \in Nat /\ fails' <= fails /\ live \subseteq live'
      BY <1>1, <2>3, OneMalloc
    <3> QED  BY <2>2, <2>3, <3>1 DEF LostStates
  <2>4. ASSUME NEW m, NEW n, Mallocs(<<o, m, n>>), pc' = pc \/ Null \in {m, n}
        PROVE  /\ fails' \in Nat /\ fails' <= fails /\ live \subseteq live'
               /\ fails' = fails => pc' \notin LostStates
    <3>1. /\ fails' \in Nat /\ fails' <= fails /\ live \subseteq live'
          /\ fails' = fails => m # Null /\ n # Null
      BY <1>1, <2>4, ThreeMallocs
    <3> QED  BY <2>2, <2>4, <3>1 DEF LostStates
  <2> QED  BY <2>1, <2>3, <2>4
<1> QED  BY <1>2, <1>3

LEMMA DriverKeepsWhole ==
    ASSUME Typed, LoadInv, WholeInv,
           LoadedNothing \/ LoadedModule \/ RegisterNext \/ RegisteredAll
             \/ Compiled \/ GivesUp \/ Succeeds
    PROVE  WholeInv'
<1>1. fails \in Nat /\ given.fails \in Nat /\ fails <= given.fails
  BY TypedParts, CasesAssumption DEF Typed, HeapTyped, RegistryInv, WholeInv
<1>2. CASE LoadedNothing
  <2>1. pc = "load_null" /\ pc' = "crash" /\ UNCHANGED <<fails, given, parsed>>
    BY <1>2 DEF LoadedNothing, loaderVars
  <2>2. parsed' = "none"
    BY <2>1 DEF WholeInv
  <2> QED  BY <1>1, <2>1, <2>2, NotParsed DEF ToCompile
<1>3. CASE LoadedModule \/ RegisterNext
  <2>1. /\ pc \in {"loaded", "register"} /\ pc' \in {"register", "crash"}
        /\ UNCHANGED <<loaderVars, instanceVars, given>>
    <3>1. CASE LoadedModule
      BY <3>1 DEF LoadedModule, NewWrap
    <3>2. CASE RegisterNext
      BY <3>2, RegisterHeap DEF RegisterNext
    <3> QED  BY <1>3, <3>1, <3>2
  <2>2. /\ fails' \in Nat /\ fails' <= fails /\ live \subseteq live'
        /\ fails' = fails => pc' \notin LostStates
    BY <1>3, RegisterFails
  <2>3. ModuleStays
    BY <2>1, <2>2, ModuleKept, KeptStays DEF loaderVars
  <2>4. back' = back /\ back # "close" /\ funcs' = << >>
    BY <2>1 DEF loaderVars, instanceVars, LoadInv, LostStates, WholeInv, ToCompile
  <2>5. FuncsWhole'
    BY <2>1, FuncsNext DEF ExportsBound
  <2>6. Unstarved /\ Unstarved' => fails' = fails
    BY <2>1 DEF Unstarved
  <2> QED  BY <2>1, <2>2, <2>3, <2>4, <2>5, <2>6, AfterKeeps
           DEF AfterParse, BadEnds, LostStates
<1>4. CASE RegisteredAll
  <2>1. /\ pc = "register" /\ pc' = "compile"
        /\ UNCHANGED <<live, fails, loaderVars, instanceVars, given>>
    BY <1>4 DEF RegisteredAll
  <2>2. ModuleStays
    BY <2>1, ModuleKept, KeptStays DEF loaderVars
  <2>3. back' = back /\ back # "close" /\ funcs' = << >>
    BY <2>1 DEF loaderVars, instanceVars, LoadInv, LostStates, WholeInv, ToCompile
  <2>4. FuncsWhole'
    BY <2>1, FuncsNext DEF ExportsBound
  <2> QED  BY <1>1, <2>1, <2>2, <2>3, <2>4, AfterKeeps DEF AfterParse, BadEnds, LostStates
<1>5. CASE Compiled
  <2>1. /\ pc = "compiled" /\ compiled = "ok" /\ pc' = "run"
        /\ UNCHANGED <<live, fails, loaderVars, instanceVars, given>>
    BY <1>5 DEF Compiled
  <2>2. ModuleStays
    BY <2>1, ModuleKept, KeptStays DEF loaderVars
  <2>3. back' = back /\ back # "close"
    BY <2>1 DEF loaderVars, LoadInv, LostStates
  <2>4. FuncsWhole => FuncsWhole'
    BY <2>1 DEF FuncsWhole, ExportsBound, FuncThere, FuncTypeOf, loaderVars, instanceVars,
                ImportedFuncs, OwnFuncs, Exports
  <2>5. compiled' = "ok"
    BY <2>1 DEF instanceVars
  <2> QED  BY <1>1, <2>1, <2>2, <2>3, <2>4, <2>5, AfterKeeps
           DEF AfterParse, BadEnds, LostStates, ToCompile
<1>6. CASE GivesUp
  <2>1. /\ pc \in {"compiled", "failed"} /\ pc' = "free" /\ back' = "done"
        /\ UNCHANGED <<live, fails, cells, mod, nxt, parsed, instanceVars, given>>
    BY <1>6 DEF GivesUp
  <2>2. ModuleStays
    BY <2>1, ModuleKept, KeptStays
  <2>3. FuncsWhole'
    BY <2>1, FuncsNext DEF ExportsBound
  <2> QED  BY <1>1, <2>1, <2>2, <2>3, AfterKeeps DEF AfterParse, BadEnds, LostStates, ToCompile
<1>7. CASE Succeeds
  <2>1. /\ pc = "succeeded" /\ pc' = "done"
        /\ UNCHANGED <<fails, loaderVars, instanceVars, given>>
    BY <1>7 DEF Succeeds, FreeWrap
  <2>2. /\ mod' = mod /\ parsed' = parsed /\ back' = back /\ fails' = fails
        /\ given' = given /\ cells' = cells /\ back # "close" /\ IsModule(mod')
    BY <2>1, ModuleTyped DEF loaderVars, LoadInv, LostStates, IsModule
  <2>3. (NoSectionTwice' <=> NoSectionTwice) /\ (VectorsLeft => VectorsLeft')
    BY <2>2, RegularStays, LeftStays DEF SameVector
  <2>4. Unstarved' <=> Unstarved
    BY <2>2 DEF Unstarved
  <2>5. Unstarved' /\ NoSectionTwice' /\ parsed' = "ok" => VectorsLeft'
    BY <2>2, <2>3, <2>4 DEF WholeInv
  <2>6. FuncsWhole'
    BY <2>1, FuncsNext DEF ExportsBound
  <2> QED  BY <1>1, <2>1, <2>2, <2>5, <2>6
           DEF WholeInv, ParsedModulesSafe, LostStates, AfterParse, ToCompile
<1> QED  BY <1>2, <1>3, <1>4, <1>5, <1>6, <1>7

\* What the compilation and the run read of a module that is whole.
WholeFacts ==
    /\ OwnFuncs.cnt \in Nat /\ ImportedFuncs.cnt \in Nat /\ Exports.cnt \in Nat
    /\ Len(OwnFuncs.elt) = OwnFuncs.cnt /\ (OwnFuncs.cnt > 0 => OwnFuncs.arr \in live)
    /\ \A j \in 1..OwnFuncs.cnt : OwnFuncs.elt[j].type \in live
    /\ \A n \in 1..ImportedFuncs.cnt :
          /\ ArrayTrouble(ImportedFuncs, n) = "" /\ ImportedFuncs.elt[n] \in ImportRecs
          /\ Null \notin {ImportedFuncs.elt[n].mname, ImportedFuncs.elt[n].nsname,
                          ImportedFuncs.elt[n].f}
    /\ \A idx \in Nat : idx < Types.cnt => Types.arr \in live /\ TypeAt(idx) \in live
    /\ \A j \in 1..Exports.cnt : /\ j \in 1..Len(mod.vec[Export].elt)
                                 /\ Exports.elt[j].own \in live
                                 /\ Exports.elt[j].idx \in Nat \cup {-1}

LEMMA ThereRead ==
    ASSUME Typed, NEW ptr \in live
    PROVE  Reads(ptr) = ""
<1>1. ptr # Null
  BY TypedParts DEF Typed, HeapTyped
<1> QED  BY <1>1 DEF Reads

LEMMA WholeRead ==
    ASSUME Typed, CountInv, Regular, parsed = "ok", ModuleWhole
    PROVE  WholeFacts
<1>1. /\ IsModule(mod) /\ Wild \notin live
  BY TypedParts DEF Typed, HeapTyped
<1>2. /\ {Type, Function, Export} \subseteq Filled \cap Vectors /\ FuncKind \in Kinds
      /\ Export # Function /\ Type # Function
  BY DEF Filled, Vectors, Type, Function, Export, Elem, FuncKind, Kinds
<1>3. \A k \in {Type, Function, Export} :
          /\ WrittenTo(k, mod.vec[k].cnt) /\ mod.vec[k].cnt \in Nat
          /\ \A j \in 1..Len(mod.vec[k].elt) : mod.vec[k].elt[j] \in EntriesOf(k)
          /\ DOMAIN mod.vec[k].elt = 1..Len(mod.vec[k].elt)
  BY <1>1, <1>2, VectorEntries DEF ModuleWhole
<1>4. \A k \in {Type, Function, Export} :
          /\ Len(mod.vec[k].elt) = mod.vec[k].cnt
          /\ mod.vec[k].cnt > 0 => mod.vec[k].arr \in live
          /\ \A j \in 1..mod.vec[k].cnt : EntryThere(k, mod.vec[k].elt[j])
  BY <1>3 DEF WrittenTo
<1>5. \A j \in 1..OwnFuncs.cnt : OwnFuncs.elt[j].type \in live
  <2> SUFFICES ASSUME NEW j \in 1..OwnFuncs.cnt PROVE OwnFuncs.elt[j].type \in live
    OBVIOUS
  <2>1. OwnFuncs.elt[j].type \in live \cup {Wild} /\ j \in DOMAIN OwnFuncs.elt
    BY <1>3, <1>4 DEF EntryThere, OwnFuncs
  <2>2. OwnFuncs.elt[j].type # Wild
    BY <2>1 DEF Regular, TypesNamed
  <2> QED  BY <2>1, <2>2
<1>6. \A idx \in Nat : idx < Types.cnt => Types.arr \in live /\ TypeAt(idx) \in live
  <2> SUFFICES ASSUME NEW idx \in Nat, idx < Types.cnt
               PROVE  Types.arr \in live /\ TypeAt(idx) \in live
    OBVIOUS
  <2>1. /\ Types.cnt \in Nat /\ Len(Types.elt) = Types.cnt
        /\ Types.cnt > 0 => Types.arr \in live
        /\ \A j \in 1..Types.cnt : Types.elt[j].own \in live
    BY <1>3, <1>4 DEF EntryThere, Types
  <2>2. idx + 1 \in 1..Types.cnt /\ Types.cnt > 0
    BY <2>1
  <2> QED  BY <2>1, <2>2 DEF TypeAt
<1>7. \A j \in 1..Exports.cnt : /\ j \in 1..Len(mod.vec[Export].elt)
                                /\ Exports.elt[j].own \in live
                                /\ Exports.elt[j].idx \in Nat \cup {-1}
  <2> SUFFICES ASSUME NEW j \in 1..Exports.cnt
               PROVE  /\ j \in 1..Len(mod.vec[Export].elt)
                      /\ Exports.elt[j].own \in live
                      /\ Exports.elt[j].idx \in Nat \cup {-1}
    OBVIOUS
  <2>1. j \in 1..Len(mod.vec[Export].elt) /\ Exports.elt[j].own \in live
    BY <1>3, <1>4 DEF EntryThere, Exports
  <2>2. Exports.elt[j] \in EntryRecs
    BY <1>2, <1>3, <2>1 DEF EntriesOf, Exports
  <2> QED  BY <2>1, <2>2 DEF EntryRecs
<1>8. /\ ImportedFuncs.cnt \in Nat
      /\ \A n \in 1..ImportedFuncs.cnt :
            /\ ArrayTrouble(ImportedFuncs, n) = "" /\ ImportedFuncs.elt[n] \in ImportRecs
            /\ Null \notin {ImportedFuncs.elt[n].mname, ImportedFuncs.elt[n].nsname,
                            ImportedFuncs.elt[n].f}
  <2>1. /\ ImportedFuncs.cnt \in Nat /\ nxt[FuncKind] \in Nat
        /\ \A n \in 1..Len(ImportedFuncs.elt) : ImportedFuncs.elt[n] \in ImportRecs
    BY <1>1, <1>2, ImportCounts, ImportEntries DEF ImportedFuncs
  <2>2. ImportsWhole
    BY DEF ModuleWhole
  <2>3. ImportedFuncs.cnt = IF nxt[FuncKind] = 0 THEN 0 ELSE nxt[FuncKind] - 1
    BY <1>2 DEF CountInv, Agreed, NoTables, Regular, ImportedFuncs
  <2>4. ASSUME NEW n \in 1..ImportedFuncs.cnt
        PROVE  /\ ArrayTrouble(ImportedFuncs, n) = "" /\ ImportedFuncs.elt[n] \in ImportRecs
               /\ Null \notin {ImportedFuncs.elt[n].mname, ImportedFuncs.elt[n].nsname,
                               ImportedFuncs.elt[n].f}
    <3>1. n < nxt[FuncKind] /\ n \in Nat /\ n > 0 /\ ImportedFuncs.cnt > 0
      BY <2>1, <2>3
    <3>2. ImportedFuncs.arr \in live /\ Len(ImportedFuncs.elt) = ImportedFuncs.cnt
      BY <1>2, <2>2, <3>1 DEF ImportsWhole, ImportedFuncs
    <3>3. Reads(ImportedFuncs.arr) = "" /\ ~(n > Len(ImportedFuncs.elt))
      <4>1. Reads(ImportedFuncs.arr) = ""
        BY <3>2, ThereRead
      <4>2. n <= ImportedFuncs.cnt /\ ImportedFuncs.cnt \in Nat
        BY <2>1
      <4>3. ~(n > ImportedFuncs.cnt)
        BY <3>1, <4>2
      <4> QED  BY <3>2, <4>1, <4>3
    <3>4. ArrayTrouble(ImportedFuncs, n) = ""
      BY <3>3 DEF ArrayTrouble
    <3> QED  BY <2>1, <2>2, <3>1, <3>2, <3>4 DEF ImportsWhole
  <2> QED  BY <2>1, <2>4
<1> QED  BY <1>2, <1>3, <1>4, <1>5, <1>6, <1>7, <1>8 DEF WholeFacts, OwnFuncs, Exports

\* fw_instance_funcs finds what it reads of an import.
LEMMA ResolveWhole ==
    ASSUME Typed, WholeFacts, FuncsWhole, ResolveImport
    PROVE  FuncsWhole' /\ pc' \notin BadEnds
<1> DEFINE e == ImportedFuncs.elt[turn]
           new == HostFunc(Found(e.mtext, e.ntext), TypeAt(e.typeidx))
<1>1. /\ turn \in 1..ImportedFuncs.cnt /\ turn \in Nat /\ funcs \in Seq(IndexRecs)
      /\ ImportedFuncs.cnt \in Nat /\ turn <= ImportedFuncs.cnt /\ OwnFuncs.cnt \in Nat
  <2>1. pc = "resolve" /\ turn <= ImportedFuncs.cnt
    BY DEF ResolveImport
  <2>2. turn \in Nat /\ turn # 0 /\ funcs \in Seq(IndexRecs)
    BY <2>1, TypedParts DEF Typed, InstanceTyped
  <2>3. ImportedFuncs.cnt \in Nat /\ OwnFuncs.cnt \in Nat
    BY DEF WholeFacts
  <2> QED  BY <2>1, <2>2, <2>3
<1>2. /\ ArrayTrouble(ImportedFuncs, turn) = "" /\ e.typeidx \in Nat
      /\ Null \notin {e.mname, e.nsname} /\ e.f # Null
  BY <1>1 DEF WholeFacts, ImportRecs
<1>3. TypeKnown(e.typeidx) => Reads(Types.arr) = "" /\ TypeAt(e.typeidx) \in live
  <2>1. TypeKnown(e.typeidx) => Types.arr \in live /\ TypeAt(e.typeidx) \in live
    BY <1>2 DEF WholeFacts, TypeKnown
  <2> QED  BY <2>1, ThereRead
<1>4. /\ pc = "resolve" /\ UNCHANGED <<live, mod>>
      /\ \/ CompileErr
         \/ /\ funcs' = Append(funcs, new) /\ turn' = turn + 1
            /\ TypeAt(e.typeidx) \in live
            /\ UNCHANGED <<pc, compiled>>
  BY <1>2, <1>3 DEF ResolveImport
<1>5. CASE CompileErr
  <2>1. pc' = "compiled" /\ compiled' = "err"
    BY <1>5 DEF CompileErr
  <2>2. ~ExportsBound'
    BY <2>1 DEF ExportsBound
  <2> QED  BY <2>1, <2>2, FuncsNext DEF BadEnds, LostStates
<1>6. CASE /\ funcs' = Append(funcs, new) /\ turn' = turn + 1
           /\ TypeAt(e.typeidx) \in live
           /\ UNCHANGED <<pc, compiled>>
  <2>1. Len(funcs) = turn - 1 /\ \A n \in 1..Len(funcs) : FuncThere(funcs[n])
    BY <1>4 DEF FuncsWhole
  <2>2. FuncThere(new)
    <3>1. new.own = 0 /\ new.type = TypeAt(e.typeidx)
      BY DEF HostFunc
    <3>2. 0 \in 0..OwnFuncs.cnt
      BY <1>1
    <3> HIDE DEF new
    <3> QED  BY <1>6, <3>1, <3>2 DEF FuncThere, FuncTypeOf
  <2> HIDE DEF new
  <2>3. /\ Len(funcs') = turn /\ funcs'[turn] = new
        /\ \A n \in 1..Len(funcs) : funcs'[n] = funcs[n]
    BY <1>1, <1>6, <2>1, LenProperties
  <2>4. ASSUME NEW n \in 1..Len(funcs')
        PROVE  FuncThere(funcs[n])'
    <3>1. n \in 1..Len(funcs) \/ n = turn
      BY <1>1, <2>1, <2>3
    <3>2. FuncThere(funcs'[n])
      BY <2>1, <2>2, <2>3, <3>1
    <3> QED  BY <1>4, <3>2 DEF FuncThere, FuncTypeOf, OwnFuncs
  <2>5. pc' = "resolve" /\ turn' - 1 = turn
    BY <1>1, <1>4, <1>6
  <2>6. ImportedFuncs' = ImportedFuncs /\ ~ExportsBound'
    BY <1>4, <2>5 DEF ImportedFuncs, ExportsBound
  <2> QED  BY <1>1, <2>3, <2>4, <2>5, <2>6 DEF FuncsWhole, BadEnds, LostStates
<1> QED  BY <1>4, <1>5, <1>6

\* The module's own functions follow.
LEMMA TableWhole ==
    ASSUME Typed, WholeFacts, FuncsWhole, TableOwn
    PROVE  FuncsWhole' /\ pc' \notin BadEnds
<1> DEFINE own == [j \in 1..OwnFuncs.cnt |-> OwnAddress(j)]
<1>1. /\ turn \in Nat /\ funcs \in Seq(IndexRecs)
      /\ ImportedFuncs.cnt \in Nat /\ OwnFuncs.cnt \in Nat /\ Exports.cnt \in Nat
      /\ Len(OwnFuncs.elt) = OwnFuncs.cnt /\ (OwnFuncs.cnt > 0 => OwnFuncs.arr \in live)
  <2>1. turn \in Nat /\ funcs \in Seq(IndexRecs)
    BY TypedParts DEF Typed, InstanceTyped
  <2> QED  BY <2>1 DEF WholeFacts
<1>2. /\ pc = "resolve" /\ turn > ImportedFuncs.cnt /\ pc' = "exports" /\ turn' = 1
      /\ funcs' = funcs \o own /\ live' = live /\ mod' = mod
  BY DEF TableOwn, loaderVars, ImportsFirst
<1>3. Len(funcs) = ImportedFuncs.cnt /\ \A n \in 1..Len(funcs) : FuncThere(funcs[n])
  BY <1>1, <1>2 DEF FuncsWhole
<1>4. \A j \in 1..OwnFuncs.cnt : FuncThere(own[j])
  <2> SUFFICES ASSUME NEW j \in 1..OwnFuncs.cnt PROVE FuncThere(own[j])
    OBVIOUS
  <2>1. OwnAddress(j) = OwnFunc(j)
    BY <1>1 DEF OwnAddress
  <2>2. OwnFunc(j).own = j /\ j # 0 /\ j \in 0..OwnFuncs.cnt
    BY <1>1 DEF OwnFunc
  <2>3. OwnFuncs.elt[j].type \in live
    BY DEF WholeFacts
  <2>4. FuncThere(OwnFunc(j))
    BY <2>2, <2>3 DEF FuncThere, FuncTypeOf
  <2> QED  BY <2>1, <2>4
<1>5. own \in Seq({OwnAddress(j) : j \in 1..OwnFuncs.cnt}) /\ Len(own) = OwnFuncs.cnt
  BY <1>1, IsASeq
<1> HIDE DEF own
<1>6. /\ Len(funcs') = ImportedFuncs.cnt + OwnFuncs.cnt
      /\ \A n \in 1..Len(funcs) : funcs'[n] = funcs[n]
      /\ \A n \in 1..Len(funcs') : n > Len(funcs) => funcs'[n] = own[n - Len(funcs)]
  <2>1. PICK S : funcs \in Seq(S) /\ own \in Seq(S)
    <3>1. PICK A : own \in Seq(A)
      BY <1>5
    <3>2. funcs \in Seq(IndexRecs \cup A) /\ own \in Seq(IndexRecs \cup A)
      BY <1>1, <3>1
    <3> QED  BY <3>2
  <2>2. /\ Len(funcs \o own) = Len(funcs) + Len(own)
        /\ \A n \in 1..(Len(funcs) + Len(own)) :
              (funcs \o own)[n] = IF n <= Len(funcs) THEN funcs[n] ELSE own[n - Len(funcs)]
    BY <2>1, ConcatProperties
  <2>3. Len(funcs) \in Nat /\ Len(own) \in Nat
    BY <1>1, <1>3, <1>5
  <2> QED  BY <1>2, <1>3, <1>5, <2>2, <2>3
<1>7. ASSUME NEW n \in 1..Len(funcs')
      PROVE  FuncThere(funcs[n])'
  <2>1. FuncThere(funcs'[n])
    <3>1. CASE n <= Len(funcs)
      <4>1. n \in 1..Len(funcs)
        BY <1>1, <1>3, <1>6, <3>1
      <4> QED  BY <1>3, <1>6, <4>1
    <3>2. CASE ~(n <= Len(funcs))
      <4>1. n > Len(funcs) /\ n - Len(funcs) \in 1..OwnFuncs.cnt
        BY <1>1, <1>3, <1>6, <3>2
      <4> QED  BY <1>4, <1>6, <4>1
    <3> QED  BY <3>1, <3>2
  <2> QED  BY <1>2, <2>1 DEF FuncThere, FuncTypeOf, OwnFuncs
<1>8. /\ ImportedFuncs' = ImportedFuncs /\ OwnFuncs' = OwnFuncs /\ Exports' = Exports
      /\ ~ExportsBound'
  BY <1>2 DEF ImportedFuncs, OwnFuncs, Exports, ExportsBound
<1>9. \A j \in 1..Exports.cnt : ~(j < turn')
  BY <1>1, <1>2
<1> QED  BY <1>2, <1>6, <1>7, <1>8, <1>9 DEF FuncsWhole, BadEnds, LostStates

\* An export is bound to a function of the index space.
LEMMA BoundWhole ==
    ASSUME Typed, WholeFacts, FuncsWhole, BindExport
    PROVE  FuncsWhole' /\ pc' \notin BadEnds
<1>1. /\ pc = "exports" /\ turn <= Exports.cnt /\ live' = live /\ UNCHANGED ran
  BY DEF BindExport
<1>2. /\ turn \in Nat /\ turn # 0 /\ funcs \in Seq(IndexRecs) /\ IsModule(mod)
      /\ Len(funcs) = ImportedFuncs.cnt + OwnFuncs.cnt
      /\ \A n \in 1..Len(funcs) : FuncThere(funcs[n])
      /\ \A j \in 1..Exports.cnt : j < turn => Exports.elt[j].func \in 1..Len(funcs)
  <2>1. turn \in Nat /\ turn # 0 /\ funcs \in Seq(IndexRecs) /\ IsModule(mod)
    BY <1>1, TypedParts DEF Typed, InstanceTyped
  <2> QED  BY <1>1, <2>1 DEF FuncsWhole
<1>3. /\ turn \in 1..Exports.cnt /\ Exports.cnt \in Nat /\ Len(funcs) \in Nat
      /\ ImportedFuncs.cnt \in Nat /\ OwnFuncs.cnt \in Nat
  <2>1. Exports.cnt \in Nat /\ ImportedFuncs.cnt \in Nat /\ OwnFuncs.cnt \in Nat
    BY DEF WholeFacts
  <2> QED  BY <1>1, <1>2, <2>1
<1>4. /\ turn \in 1..Len(mod.vec[Export].elt)
      /\ \A j \in 1..Exports.cnt : j \in 1..Len(mod.vec[Export].elt)
      /\ Exports.elt[turn].idx \in Nat \cup {-1}
  BY <1>3 DEF WholeFacts
<1>5. PICK idx \in IndexOf(Exports.elt[turn]) :
        IF ~InIndexSpace(idx)
        THEN CompileErr /\ UNCHANGED mod
        ELSE /\ mod' = [mod EXCEPT !.vec[Export].elt[turn].func = idx + 1]
             /\ turn' = turn + 1
             /\ UNCHANGED <<pc, funcs, compiled>>
  BY DEF BindExport
<1>6. idx \in Nat
  BY <1>3, <1>4, <1>5 DEF IndexOf
<1>7. CASE ~InIndexSpace(idx)
  <2>1. pc' = "compiled" /\ compiled' = "err"
    BY <1>5, <1>7 DEF CompileErr
  <2>2. ~ExportsBound'
    BY <2>1 DEF ExportsBound
  <2> QED  BY <2>1, <2>2, FuncsNext DEF BadEnds, LostStates
<1>8. CASE InIndexSpace(idx)
  <2>1. mod' = Bound(mod, turn, idx + 1) /\ turn' = turn + 1 /\ UNCHANGED <<pc, funcs>>
    BY <1>5, <1>8 DEF Bound
  <2>2. idx + 1 \in 1..Len(funcs) /\ idx + 1 \in Nat
    BY <1>2, <1>3, <1>6, <1>8 DEF InIndexSpace
  <2>3. LET q == Bound(mod, turn, idx + 1) IN
        /\ q.imp = mod.imp /\ \A j \in Vectors \ {Export} : q.vec[j] = mod.vec[j]
        /\ q.vec[Export].cnt = mod.vec[Export].cnt
        /\ \A j \in 1..Len(mod.vec[Export].elt) :
              q.vec[Export].elt[j].func
                = IF j = turn THEN idx + 1 ELSE mod.vec[Export].elt[j].func
    <3>1. IsModule(mod)
      BY <1>2
    <3>2. turn \in 1..Len(mod.vec[Export].elt) => idx + 1 \in Nat
      BY <2>2
    <3> QED  BY <3>1, <3>2, ExportBound
  <2>4. Function \in Vectors \ {Export}
    BY DEF Vectors, Function, Export
  <2>5. /\ ImportedFuncs' = ImportedFuncs /\ OwnFuncs' = OwnFuncs /\ Exports'.cnt = Exports.cnt
        /\ \A j \in 1..Exports.cnt :
              Exports'.elt[j].func = IF j = turn THEN idx + 1 ELSE Exports.elt[j].func
    BY <1>4, <2>1, <2>3, <2>4 DEF ImportedFuncs, OwnFuncs, Exports
  <2>6. \A j \in 1..Exports.cnt : j < turn' => Exports'.elt[j].func \in 1..Len(funcs')
    <3> SUFFICES ASSUME NEW j \in 1..Exports.cnt, j < turn'
                 PROVE  Exports'.elt[j].func \in 1..Len(funcs')
      OBVIOUS
    <3>1. j = turn \/ (j < turn /\ j # turn)
      BY <1>2, <1>3, <2>1
    <3> QED  BY <1>2, <2>1, <2>2, <2>5, <3>1
  <2>7. \A n \in 1..Len(funcs') : FuncThere(funcs[n])'
    BY <1>1, <1>2, <2>1, <2>5 DEF FuncThere, FuncTypeOf
  <2>8. pc' = "exports" /\ ~ExportsBound'
    BY <1>1, <2>1 DEF ExportsBound
  <2> QED  BY <1>2, <2>1, <2>5, <2>6, <2>7, <2>8 DEF FuncsWhole, BadEnds, LostStates
<1> QED  BY <1>7, <1>8

\* All exports are bound.
LEMMA EndWhole ==
    ASSUME Typed, WholeFacts, FuncsWhole, CompileEnds
    PROVE  FuncsWhole' /\ pc' \notin BadEnds
<1>1. /\ pc = "exports" /\ turn > Exports.cnt /\ pc' = "compiled" /\ compiled' = "ok"
      /\ UNCHANGED <<live, mod, funcs>>
  BY DEF CompileEnds, loaderVars
<1>2. Exports.cnt \in Nat /\ turn \in Nat
  <2>1. turn \in Nat
    BY TypedParts DEF Typed, InstanceTyped
  <2> QED  BY <2>1 DEF WholeFacts
<1>3. \A j \in 1..Exports.cnt : j < turn
  BY <1>1, <1>2
<1>4. /\ Len(funcs) = ImportedFuncs.cnt + OwnFuncs.cnt
      /\ \A n \in 1..Len(funcs) : FuncThere(funcs[n])
      /\ \A j \in 1..Exports.cnt : Exports.elt[j].func \in 1..Len(funcs)
  BY <1>1, <1>3 DEF FuncsWhole
<1>5. /\ ImportedFuncs' = ImportedFuncs /\ OwnFuncs' = OwnFuncs /\ Exports' = Exports
  BY <1>1 DEF ImportedFuncs, OwnFuncs, Exports
<1>6. \A n \in 1..Len(funcs') : FuncThere(funcs[n])'
  BY <1>1, <1>4, <1>5 DEF FuncThere, FuncTypeOf
<1> QED  BY <1>1, <1>4, <1>5, <1>6 DEF FuncsWhole, BadEnds, LostStates

\* The instance is made: no body is lost to the validation of plain opcodes.
LEMMA BeginWhole ==
    ASSUME Typed, WholeInv, Regular, CompileBegins
    PROVE  FuncsWhole' /\ pc' \notin BadEnds
<1>1. pc = "compile" /\ funcs = << >>
  BY DEF CompileBegins, WholeInv, ToCompile
<1>2. Validated = {"resolve"} /\ "resolve" \notin LostStates
  <2>1. \A p \in BodyCells : p <= Len(cells) /\ cells[p] \in PlainOps
    BY DEF Regular
  <2>2. \A p \in BodyCells : ~(p > Len(cells))
    <3>1. cells \in Seq(Nat)
      BY TypedParts, CasesAssumption DEF Typed, RegistryInv
    <3>2. Len(cells) \in Nat
      BY <3>1, LenProperties
    <3> SUFFICES ASSUME NEW p \in BodyCells PROVE ~(p > Len(cells))
      OBVIOUS
    <3>3. p \in Int
      <4>1. PICK i \in OwnBodies : p \in OwnFuncs.elt[i].first..(OwnFuncs.elt[i].last - 1)
        BY DEF BodyCells
      <4> QED  BY <4>1
    <3> QED  BY <2>1, <3>2, <3>3
  <2> QED  BY <2>1, <2>2 DEF Validated, BadEnds, LostStates
<1>3. \/ CompileErr
      \/ pc' = "resolve" /\ turn' = 1 /\ UNCHANGED <<funcs, compiled>>
  BY <1>2 DEF CompileBegins
<1>4. CASE CompileErr
  <2>1. pc' = "compiled" /\ compiled' = "err"
    BY <1>4 DEF CompileErr
  <2>2. ~ExportsBound'
    BY <2>1 DEF ExportsBound
  <2> QED  BY <2>1, <2>2, FuncsNext DEF BadEnds, LostStates
<1>5. CASE pc' = "resolve" /\ turn' = 1 /\ UNCHANGED <<funcs, compiled>>
  <2>1. funcs' = << >> /\ Len(funcs') = 0 /\ ~ExportsBound'
    BY <1>1, <1>5 DEF ExportsBound
  <2>2. ImportedFuncs'.cnt \in Nat
    <3>1. IsModule(mod')
      BY CompileSteps DEF CompileNext, Compiles
    <3> QED  BY <3>1, ImportEntries DEF ImportedFuncs, FuncKind, Kinds
  <2> QED  BY <1>5, <2>1, <2>2 DEF FuncsWhole, BadEnds, LostStates
<1> QED  BY <1>3, <1>4, <1>5

\* The function of an export has a type, and is run.
LEMMA RunWhole ==
    ASSUME Typed, WholeFacts, FuncsWhole, compiled = "ok", Run(Main)
    PROVE  FuncsWhole' /\ (RunsHarmless' /\ fails' = fails => pc' \notin BadEnds)
<1>1. pc = "run" /\ ExportsBound
  BY DEF Run, ExportsBound
<1>2. /\ \A n \in 1..Len(funcs) : FuncThere(funcs[n])
      /\ \A j \in 1..Exports.cnt : Exports.elt[j].func \in 1..Len(funcs)
  BY <1>1 DEF FuncsWhole
<1>3. pc' = "failed" \/ \E k \in 1..Len(funcs) : RunFunc(k)
  <2>1. CASE Stops(Main) = {}
    BY <2>1 DEF Run
  <2>2. CASE Stops(Main) # {}
    <3> DEFINE stop == ExportStop(Main)
               e == Exports.elt[stop]
    <3>1. Exports.cnt \in Nat /\ Stops(Main) \subseteq 1..Exports.cnt
      BY DEF WholeFacts, Stops
    <3>2. \E i \in Stops(Main) : \A j \in Stops(Main) : i <= j
      <4>1. Stops(Main) \in SUBSET Nat
        BY <3>1
      <4> QED  BY <2>2, <4>1, Least
    <3>3. stop \in 1..Exports.cnt
      BY <3>1, <3>2 DEF ExportStop
    <3> HIDE DEF stop
    <3>4. e.own \in live /\ e.func \in 1..Len(funcs)
      BY <1>2, <3>3 DEF WholeFacts
    <3>5. FuncTypeOf(funcs[e.func]) \in live
      BY <1>2, <3>4 DEF FuncThere
    <3>6. Reads(FuncTypeOf(funcs[e.func])) = ""
      BY <3>5, ThereRead
    <3>7. RunFunc(e.func)
      BY <2>2, <3>4, <3>6 DEF Run, stop
    <3> QED  BY <3>4, <3>7
  <2> QED  BY <2>1, <2>2
<1>4. ASSUME NEW k \in 1..Len(funcs), RunFunc(k)
      PROVE  /\ pc' \in LostStates \cup {"succeeded", "failed", "exit", "hung"}
             /\ RunsHarmless' /\ fails' = fails => pc' \in {"succeeded", "failed"}
  <2>1. HeapTyped
    BY TypedParts DEF Typed
  <2>2. /\ ran' = k
        /\ pc' \in LostStates \cup {"succeeded", "failed", "exit", "hung"}
        /\ fails' = fails /\ Harmless(k) => pc' \in {"succeeded", "failed"}
    BY <1>4, <2>1, RunHeap
  <2>3. funcs[k].own = 0 => Harmless(k)
    BY DEF Harmless
  <2>4. RunsHarmless' => Harmless(k)
    <3>1. k # 0
      OBVIOUS
    <3>2. Harmless(k)' <=> Harmless(k)
      BY HarmlessStays DEF Run, loaderVars
    <3> QED  BY <2>2, <3>1, <3>2 DEF RunsHarmless
  <2> QED  BY <2>2, <2>4
<1>5. ~ExportsBound' /\ pc' \notin {"resolve", "exports"}
  BY <1>3, <1>4 DEF ExportsBound, LostStates
<1> QED  BY <1>3, <1>4, <1>5, FuncsNext DEF BadEnds, LostStates

\* An allocation that fails is never taken back.
LEMMA InstanceFails ==
    ASSUME Typed, InstanceStep
    PROVE  fails' \in Nat /\ fails' <= fails
<1>1. fails \in Nat
  BY TypedParts DEF Typed, HeapTyped
<1>2. ASSUME NEW a, Mallocs(<<a>>)
      PROVE  fails' \in Nat /\ fails' <= fails
  BY <1>1, <1>2, OneMalloc
<1>3. ASSUME NEW a, NEW b, Mallocs(<<a, b>>)
      PROVE  fails' \in Nat /\ fails' <= fails
  BY <1>1, <1>3, TwoMallocs
<1>4. CASE fails' = fails
  BY <1>1, <1>4
<1>5. CASE CompileBegins
  <2>1. \/ fails' = fails
        \/ \E a : Mallocs(<<a>>)
        \/ \E a, b : Mallocs(<<a, b>>)
    BY <1>5 DEF CompileBegins
  <2> QED  BY <1>2, <1>3, <1>4, <2>1
<1>6. CASE ResolveImport \/ TableOwn \/ BindExport \/ CompileEnds
  BY <1>4, <1>6 DEF ResolveImport, TableOwn, BindExport, CompileEnds
<1>7. CASE Run(Main)
  <2>1. HeapTyped
    BY TypedParts DEF Typed
  <2>2. ASSUME NEW k, RunFunc(k)
        PROVE  fails' \in Nat /\ fails' <= fails
    BY <2>1, <2>2, RunHeap DEF HeapTyped
  <2>3. fails' = fails \/ \E k : RunFunc(k)
    BY <1>7 DEF Run
  <2> QED  BY <1>4, <2>2, <2>3
<1> QED  BY <1>5, <1>6, <1>7 DEF InstanceStep, CompileNext

LEMMA InstanceKeepsWhole ==
    ASSUME Typed, LoadInv, CountInv, WholeInv, InstanceStep
    PROVE  WholeInv'
<1>1. /\ pc \in {"compile", "resolve", "exports", "run"} /\ pc' \in InstanceStates
      /\ UNCHANGED <<cells, nxt, parsed, back, given>>
  BY InstanceGoes
<1>2. CompileKeeps
  BY InstanceKeeps
<1>3. ModuleStays
  BY <1>1, <1>2, KeptStays
<1>4. fails' \in Nat /\ fails' <= fails
  BY InstanceFails
<1>5. back' # "close"
  BY <1>1 DEF LoadInv, LostStates
<1>6. ASSUME Unstarved, Unstarved', Regular, parsed = "ok", ModuleWhole, FuncsWhole
      PROVE  FuncsWhole' /\ (RunsHarmless' => pc' \notin BadEnds)
  <2>1. WholeFacts
    BY <1>6, WholeRead
  <2>2. compiled = "ok" \/ ~Run(Main)
    BY DEF WholeInv, Run
  <2>3. fails' = fails
    BY <1>1, <1>6 DEF Unstarved
  <2> QED  BY <1>6, <2>1, <2>2, <2>3, BeginWhole, ResolveWhole, TableWhole, BoundWhole, EndWhole,
              RunWhole DEF InstanceStep, CompileNext
<1>7. /\ pc \in AfterParse \ {"succeeded"} /\ pc' \notin {"parse", "close", "load_null", "run"}
      /\ pc' \notin ToCompile
  BY <1>1 DEF AfterParse, ToCompile, InstanceStates, GoneStates, LostStates
<1> QED  BY <1>3, <1>4, <1>5, <1>6, <1>7, AfterKeeps

-----------------------------------------------------------------------------
LEMMA InitWhole == Init => WholeInv
<1> SUFFICES ASSUME Init PROVE WholeInv
  OBVIOUS
<1>1. /\ pc = "open" /\ parsed = "none" /\ back = "none" /\ funcs = << >>
      /\ fails = given.fails /\ given.fails \in Nat
  BY CasesAssumption DEF Init, LoaderInit, InstanceInit
<1> QED  BY <1>1 DEF WholeInv, ParsedModulesSafe, AfterParse, LostStates

LEMMA WholeUnmoved ==
    ASSUME WholeInv, UNCHANGED vars
    PROVE  WholeInv'
<1>1. UNCHANGED <<pc, live, fails, cells, mod, at, item, todo, nxt, probe, back, parsed,
                  funcs, turn, compiled, ran, given>>
  BY DEF vars, loaderVars, instanceVars
<1>2. /\ \A t : SectionsOf(t)' = SectionsOf(t)
      /\ NoSectionTwice' <=> NoSectionTwice
      /\ Unstarved' <=> Unstarved
  BY <1>1 DEF SectionsOf, NoSectionTwice, Unstarved
<1>3. Regular' <=> Regular
  BY <1>1, RegularStays
<1>4. (\A k, e : EntryThere(k, e)' <=> EntryThere(k, e)) /\ (\A k : Parsing(k)' <=> Parsing(k))
  BY <1>1 DEF EntryThere, Parsing, Sec
<1>5. \A k, n : WrittenTo(k, n)' <=> WrittenTo(k, n)
  BY <1>1 DEF WrittenTo, EntryThere
<1>6. \A k : (SectionAhead(k)' <=> SectionAhead(k)) /\ (InVector(k)' <=> InVector(k))
  BY <1>1, <1>2, <1>4 DEF SectionAhead, InVector
<1>7. \A k : VectorWhole(k)' <=> VectorWhole(k)
  BY <1>1, <1>5, <1>6 DEF VectorWhole
<1>8. /\ ImportsWhole' <=> ImportsWhole
      /\ InImports' <=> InImports
  BY <1>1, <1>4 DEF ImportsWhole, ImportedFuncs, InImports
<1>9. (ModuleWhole' <=> ModuleWhole) /\ (ParseWhole' <=> ParseWhole)
  BY <1>1, <1>5, <1>7, <1>8 DEF ModuleWhole, ParseWhole
<1>10. VectorsLeft' <=> VectorsLeft
  BY <1>1, <1>2 DEF VectorsLeft, OwnFuncs
<1>11. FuncsWhole' <=> FuncsWhole
  BY <1>1 DEF FuncsWhole, ExportsBound, FuncThere, FuncTypeOf, ImportedFuncs, OwnFuncs, Exports
<1>12. ParsedModulesSafe'
  <2>1. \A k : Harmless(k)' <=> Harmless(k)
    BY <1>1, HarmlessStays
  <2> QED  BY <1>1, <1>2, <1>3, <2>1 DEF WholeInv, ParsedModulesSafe
<1> QED  BY <1>1, <1>2, <1>3, <1>9, <1>10, <1>11, <1>12 DEF WholeInv

\* A number that does not end, or is cut, is met by the loader alone.
LEMMA UnendedKeepsWhole ==
    ASSUME Typed, LoadInv, CountInv, WholeInv, NumberUnended, UNCHANGED <<given, instanceVars>>
    PROVE  WholeInv'
<1>1. /\ pc' \in {"hung", "overread"} /\ pc \in {"sections", "parse"}
      /\ fails' = fails /\ parsed' = parsed
  BY NumberLost DEF loaderVars
<1>2. fails' \in Nat /\ fails' <= fails
  BY <1>1, TypedParts DEF Typed, HeapTyped
<1>3. parsed' = "none"
  BY <1>1 DEF LoadInv, CountInv
<1> QED  BY <1>1, <1>2, <1>3, NotParsed DEF ToCompile

LEMMA StepWhole ==
    Typed /\ Typed' /\ LoadInv /\ HoldInv' /\ CountInv /\ WholeInv /\ [Next]_vars => WholeInv'
<1> SUFFICES ASSUME Typed, Typed', LoadInv, HoldInv', CountInv, WholeInv, [Next]_vars
             PROVE  WholeInv'
  OBVIOUS
<1>1. CASE LoaderStep
  <2>1. LoaderNext /\ UNCHANGED <<given, instanceVars>>
    BY <1>1 DEF LoaderStep
  <2> QED  BY <2>1, LoadKeepsWhole, ParseKeepsWhole, FreeKeepsWhole, UnendedKeepsWhole
           DEF LoaderNext
<1>2. CASE InstanceStep
  BY <1>2, InstanceKeepsWhole
<1>3. CASE LoadedNothing \/ LoadedModule \/ RegisterNext \/ RegisteredAll
             \/ Compiled \/ GivesUp \/ Succeeds
  BY <1>3, DriverKeepsWhole
<1>4. CASE UNCHANGED vars
  BY <1>4, WholeUnmoved
<1> QED  BY <1>1, <1>2, <1>3, <1>4 DEF Next

(* A module that has been parsed to its end, with no allocation failed,    *)
(* can be compiled and freed, however many sections, functions, imports    *)
(* and exports it has and whatever they say, but for what Regular names:   *)
(* nothing is read that the parse has not written or that the free         *)
(* handlers have taken away.  So can it when it has run, if what has run   *)
(* is a function of the host's or a quiet one: of the others FwRuntime     *)
(* says how they are lost.                                                 *)
THEOREM ParsedModulesHold == Spec => []ParsedModulesSafe
<1> DEFINE Whole == Typed /\ LoadInv /\ HoldInv /\ CountInv /\ WholeInv
<1>1. Init => Whole
  BY InitTyped, InitLoads, InitHolds, InitCounts, InitWhole
<1>2. Whole /\ [Next]_vars => Whole'
  <2>1. Whole /\ [Next]_vars => Typed' /\ LoadInv' /\ HoldInv'
    BY StepTyped, StepLoads, StepHolds
  <2>2. Whole /\ Typed' /\ HoldInv' /\ [Next]_vars => CountInv' /\ WholeInv'
    BY StepCounts, StepWhole
  <2> QED  BY <2>1, <2>2
<1>3. Whole => ParsedModulesSafe
  BY DEF WholeInv
<1> QED  BY <1>1, <1>2, <1>3, PTL DEF Spec

-----------------------------------------------------------------------------
(***************************************************************************)
(* fw_module_free gives everything back: what is allocated is reached from *)
(* the module, by the free handlers of the sections that are left          *)
(***************************************************************************)
\* The array of a vector, and what its entries own.
OfVector(k, o) ==
    \/ o = mod.vec[k].arr
    \/ k \in Filled /\ \E j \in 1..Len(mod.vec[k].elt) : o = mod.vec[k].elt[j].own

OfImports(o) ==
    \E k \in Kinds :
        \/ o = mod.imp[k].arr
        \/ \E n \in 1..Len(mod.imp[k].elt) :
              o \in {mod.imp[k].elt[n].f, mod.imp[k].elt[n].mname, mod.imp[k].elt[n].nsname}

OfSection(i, o) ==
    \/ o = Section(i)
    \/ mod.secs[i].type \in Vectors /\ OfVector(mod.secs[i].type, o)
    \/ mod.secs[i].type = Import /\ OfImports(o)

\* The types have no handler: they are freed with the module.
Reachable(first, o) ==
    OfVector(Type, o) \/ \E i \in first..Len(mod.secs) : OfSection(i, o)

AllReached(first) ==
    \A o \in live : \/ o \in {FileData, Module} \cup Kept
                    \/ pc \in {"parse", "detach"} /\ o = FileObj
                    \/ Reachable(first, o)

\* A section nobody frees has nothing to free.
HandlersThere ==
    \A i \in 1..Len(mod.secs) : mod.secs[i].free = 0 =>
        /\ mod.secs[i].type \in Vectors \ {Type} =>
              LET v == mod.vec[mod.secs[i].type] IN v.arr = Null /\ v.elt = << >>
        /\ mod.secs[i].type = Import =>
              \A k \in Kinds : mod.imp[k].arr = Null /\ mod.imp[k].elt = << >>

\* No import is stored over another.
ImportsBlank ==
    Turn(Import) =>
        \A k \in Kinds : /\ nxt[k] # 0
                         /\ \A n \in 1..Len(mod.imp[k].elt) :
                               n >= nxt[k] => mod.imp[k].elt[n] = NoImport

\* No kind of import has entries nobody counts.
Uncounted == \A k \in Kinds : mod.imp[k].cnt = 0 => mod.imp[k].elt = << >>

ParseReached == HandlersThere /\ Uncounted /\ ImportsBlank /\ AllReached(1)

ReachInv ==
    /\ Unstarved /\ NoSectionTwice =>
          /\ pc = "parse" => ParseReached
          /\ parsed = "ok" => Len(Types.elt) = Types.cnt
          /\ parsed = "ok" /\ pc \in AfterParse => HandlersThere /\ Uncounted /\ AllReached(1)
    /\ Unstarved /\ Regular /\ parsed = "ok" /\ pc = "free" =>
          HandlersThere /\ Uncounted /\ AllReached(at)
    /\ NothingLeft

LEMMA KeptSame == given' = given => Kept' = Kept
BY DEF Kept, Instance, FuncTable, Wrap, ContextObjs, EntryObjs, Obj

LEMMA SectionSame == \A i : Section(i)' = Section(i)
BY DEF Section, Obj

\* The section of a handler's turn, and what is held of it.
LEMMA AtSection ==
    ASSUME Typed, HoldInv, LoadInv, NoSectionTwice, NEW k \in Counted, Parsing(k)
    PROVE  /\ at \in 1..Len(mod.secs) /\ mod.secs[at].type = k /\ at \in Nat
           /\ SectionHeld(at) /\ Ahead(at)
           /\ \A i \in 1..Len(mod.secs) : mod.secs[i].type = k => i = at
<1>1. pc = "parse" /\ at \in 1..Len(mod.secs) /\ mod.secs[at].type = k /\ at \in Nat
      /\ IsModule(mod) /\ back # "close"
  <2>1. at \in Nat \ {0} /\ IsModule(mod) /\ pc = "parse" /\ at <= Len(mod.secs)
    BY TypedParts DEF Typed, LoopTyped, Parsing
  <2>2. back # "close"
    BY <2>1 DEF LoadInv, LostStates
  <2> QED  BY <2>1, <2>2 DEF Parsing, Sec
<1>2. Loaded /\ at \in DOMAIN mod.secs /\ Left(at)
  BY <1>1, SectionsOfModule DEF Loaded, Left
<1>3. \A i \in 1..Len(mod.secs) : mod.secs[i].type = k => i = at
  BY <1>1, OnlyOne
<1> QED  BY <1>1, <1>2, <1>3 DEF HoldInv

LEMMA LiveNamed ==
    ASSUME Typed
    PROVE  Null \notin live /\ Wild \notin live
BY TypedParts DEF Typed, HeapTyped

\* No section of imports is one of a vector.
LEMMA ImportNoVector ==
    ASSUME NEW k \in Vectors
    PROVE  k # Import /\ k \in Counted
BY DEF Vectors, Counted, Import, Type, Function, Table, Memory, Global, Export, Elem, Data

\* The array a handler replaces is none.
LEMMA NoneBefore ==
    ASSUME Typed, LoadInv, HoldInv, NoSectionTwice, HandlersThere, VectorWhole(Type),
           NEW k \in Vectors, Begins(k)
    PROVE  mod.vec[k].arr = Null /\ mod.vec[k].elt = << >>
<1>1. Parsing(k) /\ pc = "parse" /\ item = 0
  BY DEF Begins, Parsing
<1>2. /\ at \in 1..Len(mod.secs) /\ mod.secs[at].type = k /\ at \in Nat /\ Ahead(at)
      /\ \A i \in 1..Len(mod.secs) : mod.secs[i].type = k => i = at
  BY <1>1, ImportNoVector, AtSection
<1>3. CASE k = Type
  <2>1. SectionAhead(Type)
    <3>1. SectionsOf(Type) \subseteq 1..Len(mod.secs)
          /\ \A i \in SectionsOf(Type) : mod.secs[i].type = Type
      BY TypedParts, SectionsOfModule DEF Typed, SectionsOf
    <3> QED  BY <1>1, <1>2, <1>3, <3>1 DEF SectionAhead
  <2> QED  BY <1>3, <2>1 DEF VectorWhole, Empty
<1>4. CASE k # Type
  <2>1. mod.secs[at].free = 0
    BY <1>1, <1>2 DEF Ahead
  <2> QED  BY <1>2, <1>4, <2>1 DEF HandlersThere
<1> QED  BY <1>3, <1>4

\* Whatever of a vector is allocated is not lost by the parse.
LEMMA VectorReached ==
    ASSUME Typed, LoadInv, HoldInv, NoSectionTwice, ParseStep, pc' = "parse", fails' = fails,
           HandlersThere, VectorWhole(Type), NEW k \in Vectors, NEW o \in live, OfVector(k, o)
    PROVE  OfVector(k, o)'
<1>1. o # Null /\ o # Wild /\ Writes /\ live \subseteq live' /\ HeapTyped'
  BY LiveNamed DEF ParseStep
<1>2. CASE mod'.vec[k] = mod.vec[k]
  BY <1>2 DEF OfVector
<1>3. CASE EntryWrites /\ Parsing(k)
  <2>1. PICK j \in Filled : \E e \in EntriesOf(j) :
            Turn(j) /\ Wrote(mod', mod, j, e) /\ HeldEntry(j, e) /\ DoneEntry(j, e)
    BY <1>3 DEF EntryWrites
  <2>2. j = k
    BY <1>3, <2>1 DEF Turn, Parsing
  <2>3. PICK e \in EntriesOf(k) :
            Turn(k) /\ Wrote(mod', mod, k, e) /\ HeldEntry(k, e) /\ DoneEntry(k, e)
    BY <2>1, <2>2
  <2>4. /\ mod'.vec[k].arr = mod.vec[k].arr
        /\ Len(mod'.vec[k].elt) = Len(mod.vec[k].elt)
        /\ \A i \in 1..Len(mod.vec[k].elt) :
              mod'.vec[k].elt[i] = IF i = item THEN e ELSE mod.vec[k].elt[i]
    BY <2>3 DEF Wrote
  <2>5. item \in 1..Len(mod.vec[k].elt)
    BY <2>3, AtEntry
  <2>6. e.own = Obj(OwnKind(k), at, item)
    <3>1. e.own \in live'
      BY <2>3 DEF DoneEntry
    <3>2. e.own # Null /\ e.own # Wild
      BY <1>1, <3>1 DEF HeapTyped
    <3> QED  BY <2>3, <3>2 DEF HeldEntry
  <2>7. \A i \in 1..Len(mod.vec[k].elt) :
           o = mod.vec[k].elt[i].own => o = mod'.vec[k].elt[i].own
    <3> SUFFICES ASSUME NEW i \in 1..Len(mod.vec[k].elt), o = mod.vec[k].elt[i].own
                 PROVE  o = mod'.vec[k].elt[i].own
      OBVIOUS
    <3>1. CASE i # item
      BY <2>4, <3>1
    <3>2. CASE i = item
      <4>1. VectorHeld(k, at)
        <5>1. SectionHeld(at) /\ mod.secs[at].type = k
          BY <1>3, ImportNoVector, AtSection
        <5> QED  BY <5>1 DEF SectionHeld
      <4>2. DOMAIN mod.vec[k].elt = 1..Len(mod.vec[k].elt)
        BY TypedParts, VectorEntries DEF Typed
      <4>3. o = Obj(OwnKind(k), at, i)
        BY <1>1, <4>1, <4>2 DEF VectorHeld
      <4>4. mod'.vec[k].elt[i] = e
        BY <2>4, <3>2
      <4> QED  BY <2>6, <3>2, <4>3, <4>4
    <3> QED  BY <3>1, <3>2
  <2> QED  BY <2>4, <2>7 DEF OfVector
<1>4. CASE VectorWrites /\ Parsing(k)
  <2>1. PICK j \in Vectors : Begins(j)
    BY <1>4 DEF VectorWrites
  <2>2. j = k
    BY <1>4, <2>1 DEF Begins, Parsing
  <2>3. mod.vec[k].arr = Null /\ mod.vec[k].elt = << >>
    BY <2>1, <2>2, NoneBefore
  <2> QED  BY <1>1, <2>3 DEF OfVector
<1>5. CASE ~Parsing(k)
  BY <1>1, <1>2, <1>5, WritesOwn
<1>6. CASE NothingWritten
  BY <1>2, <1>6 DEF NothingWritten, SameEntries
<1>7. CASE ImportsGrow \/ ImportsBegun \/ ImportWrites
  BY <1>2, <1>7 DEF ImportsGrow, ImportsBegun, ImportWrites, WroteImport
<1> QED  BY <1>1, <1>3, <1>4, <1>5, <1>6, <1>7 DEF Writes

\* Nor what of the imports is.
LEMMA ImportsReached ==
    ASSUME Typed, LoadInv, HoldInv, NoSectionTwice, ParseStep, pc' = "parse", fails' = fails,
           HandlersThere, ImportsBlank, NEW o \in live, OfImports(o)
    PROVE  OfImports(o)'
<1>1. o # Null /\ o # Wild /\ Writes
  BY LiveNamed DEF ParseStep
<1>2. CASE mod'.imp = mod.imp
  BY <1>2 DEF OfImports
<1>3. CASE ImportsGrow
  <2>1. \A k \in Kinds : mod'.imp[k].arr = mod.imp[k].arr /\ mod'.imp[k].elt = mod.imp[k].elt
    BY <1>3 DEF ImportsGrow
  <2> QED  BY <2>1 DEF OfImports
<1>4. CASE Counting /\ ImportsBegun
  <2>1. Parsing(Import) /\ probe # 0 /\ Import \in Counted
    BY <1>4 DEF Counting, Counted
  <2>2. at \in 1..Len(mod.secs) /\ mod.secs[at].type = Import /\ Ahead(at) /\ at \in Nat
    BY <2>1, AtSection
  <2>3. mod.secs[at].free = 0
    BY <2>1, <2>2 DEF Ahead, Parsing
  <2>4. \A k \in Kinds : mod.imp[k].arr = Null /\ mod.imp[k].elt = << >>
    BY <2>2, <2>3 DEF HandlersThere
  <2> QED  BY <1>1, <2>4 DEF OfImports
<1>5. CASE ImportWrites
  <2>1. PICK k \in Kinds : \E e \in ImportRecs : WroteImport(mod', mod, k, nxt[k], e)
    BY <1>5 DEF ImportWrites
  <2>2. PICK e \in ImportRecs : WroteImport(mod', mod, k, nxt[k], e)
    BY <2>1
  <2>3. /\ \A q \in Kinds : mod'.imp[q].arr = mod.imp[q].arr
                            /\ Len(mod'.imp[q].elt) = Len(mod.imp[q].elt)
        /\ \A q \in Kinds : \A n \in 1..Len(mod.imp[q].elt) :
              q # k \/ n # nxt[k] => mod'.imp[q].elt[n] = mod.imp[q].elt[n]
    BY <2>2 DEF WroteImport
  <2>4. nxt[k] \in Nat /\ (nxt[k] \in 1..Len(mod.imp[k].elt) => mod.imp[k].elt[nxt[k]] = NoImport)
    <3>1. nxt[k] \in Nat
      BY TypedParts DEF Typed
    <3>2. Turn(Import)
      BY <1>5 DEF ImportWrites
    <3> QED  BY <3>1, <3>2 DEF ImportsBlank
  <2>5. PICK q \in Kinds :
           \/ o = mod.imp[q].arr
           \/ \E n \in 1..Len(mod.imp[q].elt) :
                 o \in {mod.imp[q].elt[n].f, mod.imp[q].elt[n].mname, mod.imp[q].elt[n].nsname}
    BY DEF OfImports
  <2>6. ASSUME NEW n \in 1..Len(mod.imp[q].elt),
               o \in {mod.imp[q].elt[n].f, mod.imp[q].elt[n].mname, mod.imp[q].elt[n].nsname}
        PROVE  mod'.imp[q].elt[n] = mod.imp[q].elt[n]
    <3>1. ~(q = k /\ n = nxt[k])
      BY <1>1, <2>4, <2>6 DEF NoImport
    <3> QED  BY <2>3, <3>1
  <2>7. CASE o = mod.imp[q].arr
    BY <2>3, <2>7 DEF OfImports
  <2>8. CASE \E n \in 1..Len(mod.imp[q].elt) :
                o \in {mod.imp[q].elt[n].f, mod.imp[q].elt[n].mname, mod.imp[q].elt[n].nsname}
    <3>1. PICK n \in 1..Len(mod.imp[q].elt) :
             o \in {mod.imp[q].elt[n].f, mod.imp[q].elt[n].mname, mod.imp[q].elt[n].nsname}
      BY <2>8
    <3>2. mod'.imp[q].elt[n] = mod.imp[q].elt[n] /\ n \in 1..Len(mod'.imp[q].elt)
      BY <2>3, <2>6, <3>1
    <3> QED  BY <3>1, <3>2 DEF OfImports
  <2> QED  BY <2>5, <2>7, <2>8
<1>6. CASE NothingWritten \/ EntryWrites \/ VectorWrites
  <2>1. mod'.imp = mod.imp
    BY <1>6 DEF NothingWritten, SameEntries, EntryWrites, VectorWrites, Wrote, VectorBegun,
                VectorRests
  <2> QED  BY <1>2, <2>1
<1> QED  BY <1>1, <1>3, <1>4, <1>5, <1>6 DEF Writes

\* What a step of the parse allocates is reached.
LEMMA NewReached ==
    ASSUME Typed, LoadInv, HoldInv, NoSectionTwice, ParseStep, pc' = "parse", fails' = fails,
           ImportsBlank, NEW o \in live' \ live
    PROVE  \E i \in 1..Len(mod.secs) : OfSection(i, o)'
<1>1. /\ Writes /\ SameSections(mod', mod) /\ IsModule(mod') /\ o \notin {Null, Wild}
      /\ at \in Nat \ {0}
  <2>1. o \notin {Null, Wild}
    BY DEF ParseStep, HeapTyped
  <2>2. at \in Nat \ {0}
    BY TypedParts DEF Typed, LoopTyped, ParseStep
  <2> QED  BY <2>1, <2>2 DEF ParseStep, Keeps
<1>2. ASSUME NEW k \in Vectors, Parsing(k), OfVector(k, o)'
      PROVE  \E i \in 1..Len(mod.secs) : OfSection(i, o)'
  <2>1. at \in 1..Len(mod.secs) /\ mod.secs[at].type = k
    BY <1>2, ImportNoVector, AtSection
  <2>2. PICK i : i = at
    OBVIOUS
  <2>3. mod'.secs[i].type = k
    BY <1>1, <2>1, <2>2 DEF SameSections
  <2>4. OfSection(i, o)'
    BY <1>2, <2>3 DEF OfSection
  <2> QED  BY <2>1, <2>2, <2>4
<1>3. ASSUME Parsing(Import), OfImports(o)'
      PROVE  \E i \in 1..Len(mod.secs) : OfSection(i, o)'
  <2>1. at \in 1..Len(mod.secs) /\ mod.secs[at].type = Import
    BY <1>3, AtSection DEF Counted
  <2>2. PICK i : i = at
    OBVIOUS
  <2>3. mod'.secs[i].type = Import
    BY <1>1, <2>1, <2>2 DEF SameSections
  <2>4. OfSection(i, o)'
    BY <1>3, <2>3 DEF OfSection
  <2> QED  BY <2>1, <2>2, <2>4
<1>4. CASE EntryWrites
  <2>1. PICK k \in Filled : \E e \in EntriesOf(k) :
            Turn(k) /\ Wrote(mod', mod, k, e) /\ DoneEntry(k, e)
    BY <1>4 DEF EntryWrites
  <2>2. PICK e \in EntriesOf(k) : Turn(k) /\ Wrote(mod', mod, k, e) /\ DoneEntry(k, e)
    BY <2>1
  <2>3. o = e.own
    BY <2>2 DEF DoneEntry
  <2>4. k \in Vectors /\ Parsing(k) /\ item \in 1..Len(mod.vec[k].elt)
    BY <2>1, <2>2, FilledVectors, AtEntry DEF Turn
  <2>5. item \in 1..Len(mod'.vec[k].elt) /\ mod'.vec[k].elt[item] = e
    BY <2>2, <2>4 DEF Wrote
  <2>6. OfVector(k, o)'
    BY <2>1, <2>3, <2>5 DEF OfVector
  <2> QED  BY <1>2, <2>4, <2>6
<1>5. CASE VectorWrites
  <2>1. PICK k \in Vectors : Begins(k) /\ (VectorBegun(k) \/ VectorRests(k))
    BY <1>5 DEF VectorWrites
  <2>2. VectorBegun(k)
    BY <2>1 DEF VectorRests
  <2>3. o = mod'.vec[k].arr
    BY <2>2 DEF VectorBegun, HeapGrew
  <2>4. OfVector(k, o)'
    BY <2>3 DEF OfVector
  <2> QED  BY <1>2, <2>1, <2>4 DEF Begins
<1>6. CASE Counting /\ ImportsBegun
  <2>1. PICK k \in Kinds : o = Array(k) /\ mod.imp[k].cnt > 0
    BY <1>6 DEF ImportsBegun, HeapGrew
  <2>2. o = mod'.imp[k].arr
    <3>1. mod'.imp[k] = [cnt |-> mod.imp[k].cnt, arr |-> Array(k),
                         elt |-> [i \in 1..mod.imp[k].cnt |-> NoImport]]
      BY <1>6, <2>1 DEF ImportsBegun
    <3>2. PICK c, s : mod'.imp[k] = [cnt |-> c, arr |-> Array(k), elt |-> s]
      BY <3>1
    <3> QED  BY <2>1, <3>2
  <2>3. OfImports(o)'
    BY <2>2 DEF OfImports
  <2> QED  BY <1>3, <1>6, <2>3 DEF Counting
<1>7. CASE ImportWrites
  <2>1. PICK k \in Kinds : \E e \in ImportRecs :
           /\ nxt[k] <= Len(mod.imp[k].elt)
           /\ WroteImport(mod', mod, k, nxt[k], e) /\ DoneImport(k, e)
    BY <1>7 DEF ImportWrites
  <2>2. PICK e \in ImportRecs :
           /\ nxt[k] <= Len(mod.imp[k].elt)
           /\ WroteImport(mod', mod, k, nxt[k], e) /\ DoneImport(k, e)
    BY <2>1
  <2>3. o \in {e.f, e.mname, e.nsname}
    BY <2>2 DEF DoneImport
  <2>4. Turn(Import) /\ Parsing(Import)
    BY <1>7 DEF ImportWrites, Turn
  <2>5. nxt[k] \in 1..Len(mod.imp[k].elt)
    <3>1. nxt[k] # 0
      BY <2>4 DEF ImportsBlank
    <3>2. nxt[k] \in Nat /\ Len(mod.imp[k].elt) \in Nat
      BY TypedParts, ImportEntries DEF Typed
    <3> QED  BY <2>2, <3>1, <3>2
  <2>6. /\ nxt[k] \in 1..Len(mod'.imp[k].elt)
        /\ mod'.imp[k].elt[nxt[k]] = e
    BY <2>2, <2>5 DEF WroteImport
  <2>7. OfImports(o)'
    BY <2>3, <2>6 DEF OfImports
  <2> QED  BY <1>3, <2>4, <2>7
<1>8. CASE NothingWritten \/ ImportsGrow
  BY <1>8 DEF NothingWritten, ImportsGrow
<1> QED  BY <1>1, <1>4, <1>5, <1>6, <1>7, <1>8 DEF Writes

LEMMA ReachedOn ==
    ASSUME Typed, LoadInv, HoldInv, NoSectionTwice, ParseStep, pc' = "parse", fails' = fails,
           given' = given, ParseReached, VectorWhole(Type)
    PROVE  AllReached(1)'
<1>1. /\ SameSections(mod', mod) /\ IsModule(mod) /\ pc = "parse"
      /\ HandlersThere /\ ImportsBlank /\ AllReached(1)
  BY TypedParts DEF ParseStep, Keeps, Typed, ParseReached
<1>2. Kept' = Kept
  BY KeptSame
<1>3. ASSUME NEW o \in live, NEW i \in 1..Len(mod.secs), OfSection(i, o)
      PROVE  OfSection(i, o)'
  <2>1. mod'.secs[i].type = mod.secs[i].type
    BY <1>1 DEF SameSections
  <2>2. CASE o = Section(i)
    BY <2>2, SectionSame DEF OfSection
  <2>3. CASE mod.secs[i].type \in Vectors /\ OfVector(mod.secs[i].type, o)
    <3>1. PICK k \in Vectors : k = mod.secs[i].type
      BY <2>3
    <3>2. OfVector(k, o)'
      BY <1>1, <2>3, <3>1, VectorReached
    <3> QED  BY <2>1, <3>1, <3>2 DEF OfSection
  <2>4. CASE mod.secs[i].type = Import /\ OfImports(o)
    <3>1. OfImports(o)'
      BY <1>1, <2>4, ImportsReached
    <3> QED  BY <2>1, <2>4, <3>1 DEF OfSection
  <2> QED  BY <1>3, <2>2, <2>3, <2>4 DEF OfSection
<1>4. Len(mod'.secs) = Len(mod.secs)
  BY <1>1 DEF SameSections
<1>5. ASSUME NEW o \in live'
      PROVE  \/ o \in {FileData, Module} \cup Kept
             \/ o = FileObj
             \/ Reachable(1, o)'
  <2>1. CASE o \notin live
    <3>1. \E i \in 1..Len(mod.secs) : OfSection(i, o)'
      BY <1>1, <2>1, NewReached
    <3> QED  BY <1>4, <3>1 DEF Reachable
  <2>2. CASE o \in live /\ OfVector(Type, o)
    <3>1. OfVector(Type, o)'
      BY <1>1, <2>2, VectorReached DEF Vectors
    <3> QED  BY <3>1 DEF Reachable
  <2>3. CASE o \in live /\ \E i \in 1..Len(mod.secs) : OfSection(i, o)
    BY <1>3, <1>4, <2>3 DEF Reachable
  <2> QED  BY <1>1, <2>1, <2>2, <2>3 DEF AllReached, Reachable
<1> QED  BY <1>2, <1>5 DEF AllReached

LEMMA HandlersStay ==
    ASSUME Typed, LoadInv, HoldInv, NoSectionTwice, ParseStep, pc' = "parse", HandlersThere
    PROVE  HandlersThere'
<1>1. /\ Writes /\ SameSections(mod', mod) /\ IsModule(mod') /\ IsModule(mod) /\ at \in Nat
      /\ pc = "parse"
  BY TypedParts DEF ParseStep, Keeps, Typed, LoopTyped
<1> SUFFICES ASSUME NEW i \in 1..Len(mod.secs), mod'.secs[i].free = 0
             PROVE  /\ mod.secs[i].type \in Vectors \ {Type} =>
                          LET v == mod'.vec[mod.secs[i].type] IN v.arr = Null /\ v.elt = << >>
                    /\ mod.secs[i].type = Import =>
                          \A k \in Kinds : mod'.imp[k].arr = Null /\ mod'.imp[k].elt = << >>
  BY <1>1 DEF HandlersThere, SameSections
<1>2. ASSUME NEW k \in Vectors \ {Type}, mod.secs[i].type = k
      PROVE  mod'.vec[k].arr = Null /\ mod'.vec[k].elt = << >>
  <2>1. mod.secs[i].free = 0 => mod.vec[k].arr = Null /\ mod.vec[k].elt = << >>
    BY <1>2 DEF HandlersThere
  <2>2. CASE ~Parsing(k)
    <3>1. i # at
      BY <1>1, <1>2, <2>2 DEF Parsing, Sec
    <3>2. mod.secs[i].free = 0 /\ mod'.vec[k] = mod.vec[k]
      BY <1>1, <2>2, <3>1, WritesOwn
    <3> QED  BY <2>1, <3>2
  <2>3. CASE Parsing(k)
    <3>1. /\ at \in 1..Len(mod.secs) /\ i = at
      BY <1>2, <2>3, ImportNoVector, AtSection
    <3>2. ~EntryWrites \/ mod.secs[i].free # 0
      <4> SUFFICES ASSUME EntryWrites, mod.secs[i].free = 0 PROVE FALSE
        OBVIOUS
      <4>1. PICK j \in Filled : Turn(j)
        BY DEF EntryWrites
      <4>2. j = k
        BY <2>3, <4>1 DEF Turn, Parsing
      <4>3. item \in 1..Len(mod.vec[k].elt)
        BY <4>1, <4>2, AtEntry
      <4>4. Len(<< >>) = 0
        OBVIOUS
      <4> QED  BY <2>1, <4>3, <4>4
    <3>3. CASE EntryWrites
      <4>1. SameFrees(mod', mod)
        BY <3>3 DEF EntryWrites, Wrote
      <4> QED  BY <3>2, <3>3, <4>1 DEF SameFrees
    <3>4. CASE VectorWrites
      <4>1. PICK j \in Vectors : Begins(j) /\ (VectorBegun(j) \/ VectorRests(j))
        BY <3>4 DEF VectorWrites
      <4>2. j = k /\ 0 # k
        BY <2>3, <4>1 DEF Begins, Parsing, Vectors, Type, Function, Table, Memory, Global,
                          Export, Elem, Data
      <4>3. VectorRests(k)
        BY <1>2, <3>1, <4>1, <4>2 DEF VectorBegun
      <4>4. /\ mod'.vec[k].elt = mod.vec[k].elt
            /\ mod'.vec[k].arr \in {mod.vec[k].arr, Null}
            /\ mod'.secs[i].free = mod.secs[i].free \/ mod'.secs[i].free = Memory
        BY <4>3 DEF VectorRests
      <4> QED  BY <2>1, <4>4 DEF Memory
    <3>5. CASE NothingWritten
      BY <2>1, <3>5 DEF NothingWritten, SameEntries, SameFrees
    <3>6. k # Import
      BY <1>2, ImportNoVector
    <3> QED  BY <1>1, <2>3, <3>3, <3>4, <3>5, <3>6
             DEF Writes, Counting, ImportsGrow, ImportWrites, Turn, Parsing
  <2> QED  BY <2>2, <2>3
<1>3. ASSUME mod.secs[i].type = Import, NEW k \in Kinds
      PROVE  mod'.imp[k].arr = Null /\ mod'.imp[k].elt = << >>
  <2>1. mod.secs[i].free = 0 => mod.imp[k].arr = Null /\ mod.imp[k].elt = << >>
    BY <1>3 DEF HandlersThere
  <2>2. CASE ~Parsing(Import)
    <3>1. i # at
      BY <1>1, <1>3, <2>2 DEF Parsing, Sec
    <3>2. mod.secs[i].free = 0 /\ mod'.imp = mod.imp
      BY <1>1, <2>2, <3>1, WritesOwn
    <3> QED  BY <2>1, <3>2
  <2>3. CASE Parsing(Import)
    <3>1. i = at
      BY <1>3, <2>3, AtSection DEF Counted
    <3>2. CASE NothingWritten
      BY <2>1, <3>2 DEF NothingWritten, SameEntries, SameFrees
    <3>3. CASE ImportsGrow
      <4>1. mod'.imp[k].arr = mod.imp[k].arr /\ mod'.imp[k].elt = mod.imp[k].elt
            /\ mod'.secs[i].free = mod.secs[i].free
        BY <3>3 DEF ImportsGrow, SameFrees
      <4> QED  BY <2>1, <4>1
    <3>4. ~ImportsBegun
      <4>1. ImportsBegun => mod'.secs[i].free = Import
        BY <3>1 DEF ImportsBegun
      <4> QED  BY <4>1 DEF Import
    <3>5. CASE ImportWrites
      <4>1. PICK q \in Kinds : \E e \in ImportRecs : WroteImport(mod', mod, q, nxt[q], e)
        BY <3>5 DEF ImportWrites
      <4>2. /\ mod'.secs[i].free = mod.secs[i].free
            /\ mod'.imp[k].arr = mod.imp[k].arr
            /\ Len(mod'.imp[k].elt) = Len(mod.imp[k].elt)
        BY <4>1 DEF WroteImport, SameFrees
      <4>3. mod'.imp[k].elt \in Seq(ImportRecs)
        BY <1>1 DEF IsModule, ImpRecs
      <4>4. Len(mod'.imp[k].elt) = 0
        BY <2>1, <4>2
      <4>5. mod'.imp[k].elt = << >>
        BY <4>3, <4>4, EmptySeq
      <4> QED  BY <2>1, <4>2, <4>5
    <3>6. ~EntryWrites /\ ~VectorWrites
      <4>1. \A j : (Turn(j) => j = Import) /\ (Begins(j) => j = Import)
        BY <2>3 DEF Turn, Begins, Parsing
      <4> QED  BY <4>1, FilledVectors, ImportNoVector DEF EntryWrites, VectorWrites
    <3> QED  BY <1>1, <3>2, <3>3, <3>4, <3>5, <3>6 DEF Writes
  <2> QED  BY <2>2, <2>3
<1> QED  BY <1>2, <1>3

LEMMA BlankStays ==
    ASSUME Typed, LoadInv, HoldInv, NoSectionTwice, ParseStep, pc' = "parse",
           HandlersThere, ImportsBlank
    PROVE  ImportsBlank'
<1> SUFFICES ASSUME Turn(Import)'
             PROVE  \A k \in Kinds :
                       /\ nxt'[k] # 0
                       /\ \A n \in 1..Len(mod'.imp[k].elt) :
                             n >= nxt'[k] => mod'.imp[k].elt[n] = NoImport
  BY DEF ImportsBlank
<1>1. /\ Writes /\ SameSections(mod', mod) /\ IsModule(mod) /\ at \in Nat /\ pc = "parse"
      /\ nxt \in [Kinds -> Nat]
  BY TypedParts DEF ParseStep, Keeps, Typed, LoopTyped
<1>2. probe' = 0 /\ item' \in 1..todo' /\ at' <= Len(mod'.secs) /\ mod'.secs[at'].type = Import
  BY DEF Turn, Parsing, Sec
<1>3. at' = at /\ item' # 0
  <2>1. ~NextSection
    BY <1>2 DEF NextSection
  <2> QED  BY <2>1 DEF ParseStep, Onward
<1>4. Parsing(Import) /\ at \in 1..Len(mod.secs) /\ mod.secs[at].type = Import
  <2>1. at \in Nat \ {0}
    BY <1>1, TypedParts DEF Typed
  <2>2. at \in 1..Len(mod.secs)
    BY <1>1, <1>2, <1>3, <2>1 DEF SameSections
  <2>3. mod.secs[at].type = Import
    BY <1>1, <1>2, <1>3, <2>2 DEF SameSections
  <2> QED  BY <1>1, <2>2, <2>3 DEF Parsing, Sec
<1>5. ~NothingWritten
  <2> SUFFICES ASSUME QuietTurn PROVE FALSE
    BY DEF NothingWritten
  <2>1. item = 0
    BY <1>1, <1>3, <1>4, QuietAtImports DEF Parsing
  <2>2. GoesOn(1, 0)
    <3>1. ~NextSection
      BY <1>1, <1>3 DEF NextSection
    <3> QED  BY <1>2, <2>1, <3>1 DEF QuietTurn
  <2> QED  BY <1>2, <2>2 DEF GoesOn
<1>6. ~EntryWrites /\ ~VectorWrites
  <2>1. \A j : (Turn(j) => j = Import) /\ (Begins(j) => j = Import)
    BY <1>4 DEF Turn, Begins, Parsing
  <2> QED  BY <2>1, FilledVectors, ImportNoVector DEF EntryWrites, VectorWrites
<1>7. ~ImportsGrow
  BY <1>2 DEF ImportsGrow
<1>8. CASE Counting /\ ImportsBegun
  <2> SUFFICES ASSUME NEW k \in Kinds
               PROVE  /\ nxt'[k] # 0
                      /\ \A n \in 1..Len(mod'.imp[k].elt) :
                            n >= nxt'[k] => mod'.imp[k].elt[n] = NoImport
    OBVIOUS
  <2>1. nxt'[k] = 1
    BY <1>8 DEF ImportsBegun
  <2>2. CASE mod.imp[k].cnt > 0
    <3>1. mod'.imp[k] = [cnt |-> mod.imp[k].cnt, arr |-> Array(k),
                         elt |-> [i \in 1..mod.imp[k].cnt |-> NoImport]]
      BY <1>8, <2>2 DEF ImportsBegun
    <3>2. PICK c : c = mod.imp[k].cnt
      OBVIOUS
    <3>3. mod'.imp[k].elt = [i \in 1..c |-> NoImport] /\ c \in Nat
      BY <1>1, <3>1, <3>2, ImportEntries
    <3>4. Len(mod'.imp[k].elt) = c
      BY <3>3
    <3> QED  BY <2>1, <3>3, <3>4
  <2>3. CASE ~(mod.imp[k].cnt > 0)
    <3>1. mod'.imp[k] = mod.imp[k]
      BY <1>8, <2>3 DEF ImportsBegun
    <3>2. mod.secs[at].free = 0
      <4>1. Ahead(at)
        BY <1>4, AtSection DEF Counted
      <4> QED  BY <1>4, <1>8, <4>1 DEF Ahead, Counting, Parsing
    <3>3. mod.imp[k].elt = << >>
      BY <1>4, <3>2 DEF HandlersThere
    <3>4. Len(mod'.imp[k].elt) = 0
      BY <3>1, <3>3
    <3> QED  BY <2>1, <3>4
  <2> QED  BY <2>2, <2>3
<1>9. CASE ImportWrites
  <2>1. PICK q \in Kinds : \E e \in ImportRecs :
           WroteImport(mod', mod, q, nxt[q], e) /\ DoneImport(q, e)
    BY <1>9 DEF ImportWrites
  <2>2. PICK e \in ImportRecs : WroteImport(mod', mod, q, nxt[q], e) /\ DoneImport(q, e)
    BY <2>1
  <2>3. \A k \in Kinds : nxt'[k] = IF k = q THEN nxt[k] + 1 ELSE nxt[k]
    <3>1. nxt' = [nxt EXCEPT ![q] = nxt[q] + 1]
      BY <2>2 DEF DoneImport
    <3>2. nxt \in [Kinds -> Nat]
      BY <1>1
    <3> QED  BY <3>1, <3>2
  <2>4. \A k \in Kinds :
           /\ nxt[k] # 0
           /\ \A n \in 1..Len(mod.imp[k].elt) : n >= nxt[k] => mod.imp[k].elt[n] = NoImport
    BY <1>9 DEF ImportWrites, ImportsBlank
  <2> SUFFICES ASSUME NEW k \in Kinds
               PROVE  /\ nxt'[k] # 0
                      /\ \A n \in 1..Len(mod'.imp[k].elt) :
                            n >= nxt'[k] => mod'.imp[k].elt[n] = NoImport
    OBVIOUS
  <2>5. nxt[k] \in Nat /\ nxt'[k] # 0
    <3>1. nxt[k] \in Nat
      BY TypedParts DEF Typed
    <3>2. nxt[k] # 0 /\ (nxt'[k] = nxt[k] \/ nxt'[k] = nxt[k] + 1)
      BY <2>3, <2>4
    <3> QED  BY <3>1, <3>2
  <2> SUFFICES ASSUME NEW n \in 1..Len(mod'.imp[k].elt), n >= nxt'[k]
               PROVE  mod'.imp[k].elt[n] = NoImport
    BY <2>5
  <2>6. n \in 1..Len(mod.imp[k].elt)
    BY <2>2 DEF WroteImport
  <2>7. n >= nxt[k] /\ ~(k = q /\ n = nxt[q])
    BY <2>3, <2>5, <2>6
  <2>8. mod'.imp[k].elt[n] = mod.imp[k].elt[n]
    BY <2>2, <2>6, <2>7 DEF WroteImport
  <2> QED  BY <2>4, <2>6, <2>7, <2>8
<1> QED  BY <1>1, <1>5, <1>6, <1>7, <1>8, <1>9 DEF Writes

LEMMA UncountedStay ==
    ASSUME Typed, ParseStep, pc' = "parse", Uncounted
    PROVE  Uncounted'
<1>1. Writes /\ IsModule(mod')
  BY DEF ParseStep, Keeps
<1>2. CASE mod'.imp = mod.imp
  BY <1>2 DEF Uncounted
<1>3. CASE ImportsGrow
  BY <1>3 DEF ImportsGrow, Uncounted
<1>4. CASE ImportsBegun
  <2> SUFFICES ASSUME NEW k \in Kinds, mod'.imp[k].cnt = 0 PROVE mod'.imp[k].elt = << >>
    BY DEF Uncounted
  <2>1. CASE mod.imp[k].cnt > 0
    <3>1. mod'.imp[k] = [cnt |-> mod.imp[k].cnt, arr |-> Array(k),
                         elt |-> [i \in 1..mod.imp[k].cnt |-> NoImport]]
      BY <1>4, <2>1 DEF ImportsBegun
    <3>2. PICK s, a : mod'.imp[k] = [cnt |-> mod.imp[k].cnt, arr |-> a, elt |-> s]
      BY <3>1
    <3> QED  BY <2>1, <3>2
  <2>2. CASE ~(mod.imp[k].cnt > 0)
    <3>1. mod'.imp[k] = mod.imp[k]
      BY <1>4, <2>2 DEF ImportsBegun
    <3> QED  BY <3>1 DEF Uncounted
  <2> QED  BY <2>1, <2>2
<1>5. CASE ImportWrites
  <2> SUFFICES ASSUME NEW k \in Kinds, mod'.imp[k].cnt = 0 PROVE mod'.imp[k].elt = << >>
    BY DEF Uncounted
  <2>1. PICK q \in Kinds : \E e \in ImportRecs : WroteImport(mod', mod, q, nxt[q], e)
    BY <1>5 DEF ImportWrites
  <2>2. mod'.imp[k].cnt = mod.imp[k].cnt /\ Len(mod'.imp[k].elt) = Len(mod.imp[k].elt)
    BY <2>1 DEF WroteImport
  <2>3. Len(mod'.imp[k].elt) = Len(<< >>)
    BY <2>2 DEF Uncounted
  <2>4. mod'.imp[k].elt \in Seq(ImportRecs) /\ Len(mod'.imp[k].elt) = 0
    BY <1>1, <2>3 DEF IsModule, ImpRecs
  <2> QED  BY <2>4, EmptySeq
<1>6. CASE NothingWritten \/ EntryWrites \/ VectorWrites
  <2>1. mod'.imp = mod.imp
    BY <1>6 DEF NothingWritten, SameEntries, EntryWrites, VectorWrites, Wrote, VectorBegun,
                VectorRests
  <2> QED  BY <1>2, <2>1
<1> QED  BY <1>1, <1>3, <1>4, <1>5, <1>6 DEF Writes

LEMMA StayReached ==
    ASSUME Typed, LoadInv, HoldInv, NoSectionTwice, ParseStep, pc' = "parse", fails' = fails,
           given' = given, ParseReached, VectorWhole(Type)
    PROVE  ParseReached'
<1>1. HandlersThere' /\ Uncounted' /\ ImportsBlank'
  BY HandlersStay, UncountedStay, BlankStays DEF ParseReached
<1>2. AllReached(1)'
  BY ReachedOn
<1> QED  BY <1>1, <1>2 DEF ParseReached

LEMMA ParseReaches ==
    ASSUME Typed, LoadInv, HoldInv, CountInv, WholeInv, ReachInv, ParseFile,
           UNCHANGED <<given, instanceVars>>
    PROVE  ReachInv'
<1>1. /\ ParseStep /\ pc = "parse" /\ Control /\ fails' <= fails
      /\ IsModule(mod) /\ IsModule(mod') /\ SameSections(mod', mod)
      /\ fails \in Nat /\ fails' \in Nat /\ parsed = "none" /\ given' = given
  BY ParseSteps, TypedParts DEF ParseStep, Keeps, Typed, HeapTyped, CountInv
<1>2. NoSectionTwice' <=> NoSectionTwice
  BY <1>1, SectionsStay
<1>3. given.fails \in Nat /\ fails <= given.fails
  BY TypedParts, CasesAssumption DEF Typed, RegistryInv, WholeInv
<1>4. pc' \in {"parse", "detach"} \cup GoneStates
  BY <1>1, ControlTyped DEF Typed
<1>5. \/ pc' = "parse" /\ parsed' = "none"
      \/ pc' = "detach" /\ parsed' = "err"
      \/ pc' = "detach" /\ parsed' = "ok" /\ at > Len(mod.secs)
      \/ pc' \in GoneStates /\ parsed' = "none"
  BY <1>1 DEF Control, NextTurn, NextSection, GoesOn, Lost, GoneStates
<1>6. ASSUME Unstarved', NoSectionTwice'
      PROVE  fails' = fails /\ ParseWhole /\ ParseReached
  <2>1. Unstarved /\ fails' = fails
    BY <1>1, <1>3, <1>6 DEF Unstarved
  <2> QED  BY <1>1, <1>2, <1>6, <2>1 DEF WholeInv, ReachInv
<1>7. ASSUME Unstarved', NoSectionTwice', pc' = "parse"
      PROVE  ParseReached'
  <2>1. VectorWhole(Type)
    BY <1>6, <1>7 DEF ParseWhole, Filled
  <2> QED  BY <1>1, <1>2, <1>6, <1>7, <2>1, StayReached
<1>8. ASSUME Unstarved', NoSectionTwice', parsed' = "ok"
      PROVE  Len(Types'.elt) = Types'.cnt /\ HandlersThere' /\ Uncounted' /\ AllReached(1)'
  <2>1. ParseEnds /\ pc' = "detach"
    <3>1. at > Len(mod.secs) /\ pc' = "detach"
      BY <1>5, <1>8
    <3> QED  BY <1>1, <1>8, <3>1, LastSection
  <2>2. ModuleWhole
    BY <1>6, <1>8, <2>1, ParseOver
  <2>3. mod' = mod /\ live' = live
    BY <2>1 DEF ParseEnds, UnchangedHeap
  <2>4. Len(Types'.elt) = Types'.cnt
    <3>1. WrittenTo(Type, mod.vec[Type].cnt)
      BY <2>2 DEF ModuleWhole, Filled
    <3> QED  BY <2>3, <3>1 DEF WrittenTo, Types
  <2>5. HandlersThere' /\ Uncounted' /\ AllReached(1)
    BY <1>6, <1>8, <2>3 DEF ParseReached, HandlersThere, Uncounted
  <2>6. Kept' = Kept
    BY <1>1, KeptSame
  <2>7. \A o : Reachable(1, o)' <=> Reachable(1, o)
    <3>1. \A k, o : OfVector(k, o)' <=> OfVector(k, o)
      BY <2>3 DEF OfVector
    <3>2. \A o : OfImports(o)' <=> OfImports(o)
      BY <2>3 DEF OfImports
    <3>3. \A i, o : OfSection(i, o)' <=> OfSection(i, o)
      BY <2>3, <3>1, <3>2, SectionSame DEF OfSection
    <3> QED  BY <2>3, <3>1, <3>3 DEF Reachable
  <2>8. AllReached(1)'
    BY <1>1, <2>1, <2>3, <2>5, <2>6, <2>7 DEF AllReached
  <2> QED  BY <2>4, <2>5, <2>8
<1>9. NothingLeft' /\ pc' # "free"
  BY <1>4 DEF NothingLeft, GoneStates, LostStates
<1>10. parsed' = "ok" => pc' # "parse"
  BY <1>5
<1> QED  BY <1>7, <1>8, <1>9 DEF ReachInv

\* What is reached depends on nothing else of the module.
LEMMA ReachSame ==
    ASSUME Typed, IsModule(mod'), mod'.secs = mod.secs, mod'.imp = mod.imp,
           \A k \in Vectors : SameVector(k)
    PROVE  /\ \A first, o : Reachable(first, o) => Reachable(first, o)'
           /\ (HandlersThere => HandlersThere') /\ (Uncounted => Uncounted')
           /\ Len(Types.elt) = Types.cnt => Len(Types'.elt) = Types'.cnt
<1>1. \A k \in Vectors : \A o : OfVector(k, o) => OfVector(k, o)'
  BY DEF OfVector, SameVector
<1>2. \A o : OfImports(o) => OfImports(o)'
  BY DEF OfImports
<1>3. \A i, o : OfSection(i, o) => OfSection(i, o)'
  BY <1>1, <1>2, SectionSame DEF OfSection
<1>4. Type \in Vectors
  BY DEF Vectors
<1>5. \A first, o : Reachable(first, o) => Reachable(first, o)'
  BY <1>1, <1>3, <1>4 DEF Reachable
<1>6. ASSUME NEW k \in Vectors, mod.vec[k].arr = Null, mod.vec[k].elt = << >>
      PROVE  mod'.vec[k].arr = Null /\ mod'.vec[k].elt = << >>
  <2>1. mod'.vec[k].arr = Null /\ Len(mod'.vec[k].elt) = Len(<< >>)
    BY <1>6 DEF SameVector
  <2>2. Len(mod'.vec[k].elt) = 0
    BY <2>1
  <2>3. mod'.vec[k].elt \in Seq(EntriesOf(k))
    BY VectorEntries
  <2> QED  BY <2>1, <2>2, <2>3, EmptySeq
<1>7. HandlersThere => HandlersThere'
  <2> SUFFICES ASSUME HandlersThere PROVE HandlersThere'
    OBVIOUS
  <2>1. \A i \in 1..Len(mod.secs) : mod.secs[i].free = 0 /\ mod.secs[i].type \in Vectors \ {Type} =>
           mod'.vec[mod.secs[i].type].arr = Null /\ mod'.vec[mod.secs[i].type].elt = << >>
    BY <1>6 DEF HandlersThere
  <2> QED  BY <2>1 DEF HandlersThere
<1>8. Len(Types.elt) = Types.cnt => Len(Types'.elt) = Types'.cnt
  BY <1>4 DEF Types, SameVector
<1>9. Uncounted => Uncounted'
  BY DEF Uncounted
<1> QED  BY <1>5, <1>7, <1>8, <1>9

LEMMA StaysSame ==
    ASSUME ModuleStays
    PROVE  \A k \in Vectors : SameVector(k)
BY DEF ModuleStays, SameVector

\* Behind the parse all that is new is kept.
LEMMA AfterReaches ==
    ASSUME Typed, WholeInv, ReachInv, ModuleStays, fails' \in Nat, fails' <= fails,
           pc \in AfterParse, pc' \notin {"parse", "detach", "done"},
           live' \subseteq live \cup Kept, pc = "detach" => FileObj \notin live',
           pc' = "free" => at' = 1
    PROVE  ReachInv'
<1>1. /\ given' = given /\ parsed' = parsed /\ mod'.secs = mod.secs
      /\ fails \in Nat /\ given.fails \in Nat /\ fails <= given.fails
  BY TypedParts, CasesAssumption DEF Typed, HeapTyped, RegistryInv, WholeInv, ModuleStays
<1>2. Unstarved' => Unstarved
  BY <1>1 DEF Unstarved
<1>3. NoSectionTwice' <=> NoSectionTwice
  BY WholeStays
<1>4. /\ \A first, o : Reachable(first, o) => Reachable(first, o)'
      /\ (HandlersThere => HandlersThere') /\ (Uncounted => Uncounted')
      /\ Len(Types.elt) = Types.cnt => Len(Types'.elt) = Types'.cnt
  <2>1. /\ IsModule(mod') /\ mod'.secs = mod.secs /\ mod'.imp = mod.imp
        /\ \A k \in Vectors : SameVector(k)
    BY StaysSame DEF ModuleStays
  <2> QED  BY <2>1, ReachSame
<1>5. Kept' = Kept
  BY <1>1, KeptSame
<1>6. ASSUME Unstarved', NoSectionTwice', parsed' = "ok"
      PROVE  Len(Types'.elt) = Types'.cnt /\ HandlersThere' /\ Uncounted' /\ AllReached(1)'
  <2>1. Len(Types.elt) = Types.cnt /\ HandlersThere /\ Uncounted /\ AllReached(1)
    BY <1>1, <1>2, <1>3, <1>6 DEF ReachInv
  <2>2. ASSUME NEW o \in live'
        PROVE  o \in {FileData, Module} \cup Kept' \/ Reachable(1, o)'
    <3>1. CASE o \in Kept
      BY <1>5, <3>1
    <3>2. CASE o \in live
      <4>1. pc # "parse"
        BY DEF AfterParse
      <4>2. o \in {FileData, Module} \cup Kept \/ Reachable(1, o)
        BY <2>1, <2>2, <3>2, <4>1 DEF AllReached
      <4> QED  BY <1>4, <1>5, <4>2
    <3> QED  BY <2>2, <3>1, <3>2
  <2>3. AllReached(1)'
    BY <2>2 DEF AllReached
  <2> QED  BY <1>4, <2>1, <2>3
<1>7. pc' = "free" => (AllReached(1)' => AllReached(at)')
  BY DEF AllReached, Reachable
<1>8. Regular' => NoSectionTwice'
  BY DEF Regular
<1>9. NothingLeft'
  BY DEF NothingLeft
<1> QED  BY <1>6, <1>7, <1>8, <1>9 DEF ReachInv

\* Before a module has been parsed, and when its load has failed.
LEMMA NotReached ==
    ASSUME parsed' = "none", pc' # "parse"
    PROVE  ReachInv'
BY DEF ReachInv, NothingLeft

LEMMA LoadReaches ==
    ASSUME Typed, LoadInv, CountInv, WholeInv, ReachInv, LoadFile, UNCHANGED <<given, instanceVars>>
    PROVE  ReachInv'
<1>1. fails \in Nat /\ IsModule(mod)
  BY TypedParts DEF Typed, HeapTyped
<1>2. CASE OpenFails \/ ReadFails \/ BadHeader \/ CloseFile
  <2>1. /\ pc \in {"open", "header", "close"} /\ pc' # "parse" /\ parsed' = parsed
    BY <1>2 DEF OpenFails, ReadFails, BadHeader, CloseFile, loaderVars
  <2>2. parsed' = "none"
    BY <2>1 DEF LoadInv, WholeInv
  <2> QED  BY <2>1, <2>2, NotReached
<1>3. CASE ReadFile \/ NewModule \/ SplitSection
  <2>1. /\ pc \in {"open", "header", "sections"} /\ pc' # "parse" /\ parsed' = parsed
    BY <1>3 DEF ReadFile, NewModule, SplitSection, LoadFails, loaderVars
  <2>2. parsed' = "none"
    BY <2>1 DEF LoadInv
  <2> QED  BY <2>1, <2>2, NotReached
<1>4. CASE SplitEnds
  <2>1. pc = "sections" /\ UNCHANGED <<live, mod, parsed, item, probe>>
        /\ (pc' = "free" \/ (pc' = "parse" /\ at' = 1))
    BY <1>4 DEF SplitEnds, LoadFails
  <2>2. /\ parsed = "none" /\ mod.vec = Zeroed.vec /\ mod.imp = Zeroed.imp
        /\ item = 0 /\ live = Loading(1)
    BY <2>1 DEF LoadInv, CountInv, GoneStates, LostStates
  <2>3. CASE pc' = "free"
    BY <2>1, <2>2, <2>3, NotReached
  <2>4. CASE pc' = "parse"
    <3>1. /\ \A k \in Vectors : mod.vec[k].arr = Null /\ mod.vec[k].elt = << >>
          /\ \A k \in Kinds : mod.imp[k].arr = Null /\ mod.imp[k].elt = << >>
      <4>1. Empty.arr = Null /\ Empty.elt = << >>
        BY DEF Empty
      <4> QED  BY <2>2, <4>1 DEF Zeroed
    <3>2. HandlersThere' /\ Uncounted'
      BY <2>1, <3>1 DEF HandlersThere, Uncounted
    <3>3. ImportsBlank'
      BY <2>1, <2>2 DEF ImportsBlank, Turn
    <3>4. AllReached(1)'
      <4>1. \A i \in 1..Len(mod.secs) : Reachable(1, Section(i))'
        BY <2>1, SectionSame DEF Reachable, OfSection
      <4> QED  BY <2>1, <2>2, <2>4, <4>1 DEF AllReached, Loading
    <3>5. NothingLeft' /\ parsed' = "none"
      BY <2>1, <2>2, <2>4 DEF NothingLeft
    <3> QED  BY <2>4, <3>2, <3>3, <3>4, <3>5 DEF ReachInv, ParseReached
  <2> QED  BY <2>1, <2>3, <2>4
<1>5. CASE Detach
  <2>1. /\ pc = "detach" /\ pc' = "loaded" /\ mod' = [mod EXCEPT !.filedata = FileData]
        /\ live' = Without(<<FileObj>>)
        /\ UNCHANGED <<fails, cells, nxt, parsed>>
    BY <1>5 DEF Detach
  <2>2. live' = live \ {FileObj}
    BY <2>1 DEF Without, Range
  <2>3. /\ IsModule(mod') /\ mod'.secs = mod.secs /\ mod'.vec = mod.vec
        /\ mod'.imp = mod.imp
    <3>1. mod' = WithPtrs(mod, FileData, mod.instance)
      BY <1>1, <2>1 DEF WithPtrs, IsModule
    <3>2. mod.instance \in {Null, Instance}
      BY <1>1 DEF IsModule
    <3> QED  BY <1>1, <3>1, <3>2, PtrsSet
  <2>4. ModuleStays
    <3>1. live \cap Ptrs \subseteq live'
      BY <2>2, FileObjOther
    <3> QED  BY <2>1, <2>3, <3>1 DEF ModuleStays, SameVector
  <2> QED  BY <1>1, <2>1, <2>2, <2>4, AfterReaches DEF AfterParse
<1> QED  BY <1>2, <1>3, <1>4, <1>5 DEF LoadFile

-----------------------------------------------------------------------------
\* What the driver, the compilation and the run allocate stays behind.
LEMMA InstanceAdds ==
    ASSUME Typed, InstanceStep
    PROVE  live' \subseteq live \cup Kept
<1>1. fails \in Nat
  BY TypedParts DEF Typed, HeapTyped
<1>2. {Instance, FuncTable} \subseteq Kept
  BY DEF Kept
<1>3. ASSUME NEW a \in {Null} \cup Kept, Mallocs(<<a>>)
      PROVE  live' \subseteq live \cup Kept
  BY <1>1, <1>3, OneMalloc
<1>4. ASSUME NEW a \in {Null} \cup Kept, NEW b \in {Null} \cup Kept, Mallocs(<<a, b>>)
      PROVE  live' \subseteq live \cup Kept
  BY <1>1, <1>4, TwoMallocs
<1>5. CASE CompileBegins
  <2>1. \/ live' = live
        \/ Mallocs(<<Null>>)
        \/ Mallocs(<<Instance>>)
        \/ \E a \in Answer(FuncTable) : Mallocs(<<Instance, a>>)
    BY <1>5 DEF CompileBegins
  <2>2. \A a \in Answer(FuncTable) : a \in {Null} \cup Kept
    BY <1>2 DEF Answer
  <2>3. ASSUME NEW a \in Answer(FuncTable), Mallocs(<<Instance, a>>)
        PROVE  live' \subseteq live \cup Kept
    BY <1>2, <1>4, <2>2, <2>3
  <2> QED  BY <1>2, <1>3, <2>1, <2>3
<1>6. CASE ResolveImport \/ TableOwn \/ BindExport \/ CompileEnds
  BY <1>6 DEF ResolveImport, TableOwn, BindExport, CompileEnds
<1>7. CASE Run(Main)
  <2>1. live' \subseteq live \cup RunObjs
    BY <1>7, RunAdds
  <2>2. RunObjs \subseteq Kept
    BY DEF RunObjs, Kept
  <2> QED  BY <2>1, <2>2
<1> QED  BY <1>5, <1>6, <1>7 DEF InstanceStep, CompileNext

LEMMA RegisterAdds ==
    ASSUME Typed, LoadedModule \/ RegisterNext
    PROVE  live' \subseteq live \cup Kept
<1>1. fails \in Nat
  BY TypedParts DEF Typed, HeapTyped
<1>2. CASE LoadedModule
  <2>1. PICK w \in Answer(Wrap) : Mallocs(<<w>>)
    BY <1>2 DEF LoadedModule, NewWrap
  <2>2. w \in {Null, Wrap}
    BY <2>1 DEF Answer
  <2> QED  BY <1>1, <2>1, <2>2, OneMalloc DEF Kept
<1>3. CASE RegisterNext
  <2>1. /\ reg \in DOMAIN given.regs
    <3>1. reg \in Nat \ {0} /\ given.regs \in Seq(Registrations)
      BY CasesAssumption DEF Typed, RegistryInv
    <3>2. reg <= Len(given.regs)
      BY <1>3 DEF RegisterNext
    <3> QED  BY <3>1, <3>2, LenProperties
  <2> DEFINE a == Obj("host", reg, 0)
             b == Obj("hostmname", reg, 0)
             c == Obj("hostnsname", reg, 0)
  <2>2. EntryObjs(reg) = <<a, b, c>>
    BY DEF EntryObjs
  <2> HIDE DEF a, b, c
  <2>3. EntryObjs(reg)[1] = a /\ EntryObjs(reg)[2] = b /\ EntryObjs(reg)[3] = c
        /\ Range(EntryObjs(reg)) = {a, b, c}
    BY <2>2 DEF Range
  <2>4. {a, b, c} \subseteq Kept
    BY <2>1, <2>3 DEF Kept
  <2>5. \/ Mallocs(<<Null>>)
        \/ \E m \in Answer(EntryObjs(reg)[2]), n \in Answer(EntryObjs(reg)[3]) :
              Mallocs(<<EntryObjs(reg)[1], m, n>>)
    <3>1. CASE AddGlobal(reg, given.regs[reg])
      BY <3>1 DEF AddGlobal
    <3>2. CASE AddFunc(reg, given.regs[reg])
      BY <3>2 DEF AddFunc
    <3> QED  BY <1>3, <3>1, <3>2 DEF RegisterNext
  <2>6. CASE Mallocs(<<Null>>)
    BY <1>1, <2>6, OneMalloc
  <2>7. ASSUME NEW m \in {b, Null}, NEW n \in {c, Null}, Mallocs(<<a, m, n>>)
        PROVE  live' \subseteq live \cup Kept
    BY <1>1, <2>4, <2>7, ThreeMallocs
  <2> QED  BY <2>3, <2>5, <2>6, <2>7 DEF Answer
<1> QED  BY <1>2, <1>3

LEMMA InstanceReaches ==
    ASSUME Typed, LoadInv, WholeInv, ReachInv, InstanceStep
    PROVE  ReachInv'
<1>1. /\ pc \in {"compile", "resolve", "exports", "run"} /\ pc' \in InstanceStates
      /\ UNCHANGED <<cells, nxt, parsed, given>>
  BY InstanceGoes
<1>2. CompileKeeps
  BY InstanceKeeps
<1>3. ModuleStays
  BY <1>1, <1>2, KeptStays
<1>4. fails' \in Nat /\ fails' <= fails /\ live' \subseteq live \cup Kept
  BY InstanceFails, InstanceAdds
<1>5. /\ pc \in AfterParse /\ pc # "detach" /\ pc' \notin {"parse", "detach", "done", "free"}
  BY <1>1 DEF AfterParse, InstanceStates, GoneStates, LostStates
<1> QED  BY <1>3, <1>4, <1>5, AfterReaches

LEMMA DriverReaches ==
    ASSUME Typed, LoadInv, HoldInv, WholeInv, ReachInv,
           LoadedNothing \/ LoadedModule \/ RegisterNext \/ RegisteredAll
             \/ Compiled \/ GivesUp \/ Succeeds
    PROVE  ReachInv'
<1>1. fails \in Nat
  BY TypedParts DEF Typed, HeapTyped
<1>2. CASE LoadedNothing
  <2>1. pc = "load_null" /\ pc' = "crash" /\ parsed' = parsed
    BY <1>2 DEF LoadedNothing, loaderVars
  <2>2. parsed' = "none"
    BY <2>1 DEF WholeInv
  <2> QED  BY <2>1, <2>2, NotReached
<1>3. CASE LoadedModule \/ RegisterNext
  <2>1. /\ pc \in {"loaded", "register"} /\ pc' \in {"register", "crash"}
        /\ UNCHANGED <<loaderVars, given>>
    <3>1. CASE LoadedModule
      BY <3>1 DEF LoadedModule, NewWrap
    <3>2. CASE RegisterNext
      BY <3>2, RegisterHeap DEF RegisterNext
    <3> QED  BY <1>3, <3>1, <3>2
  <2>2. /\ fails' \in Nat /\ fails' <= fails /\ live \subseteq live'
        /\ live' \subseteq live \cup Kept
    BY <1>3, RegisterFails, RegisterAdds
  <2>3. ModuleStays
    BY <2>1, <2>2, ModuleKept, KeptStays DEF loaderVars
  <2> QED  BY <2>1, <2>2, <2>3, AfterReaches DEF AfterParse
<1>4. CASE RegisteredAll \/ Compiled \/ GivesUp
  <2>1. /\ pc \in {"register", "compiled", "failed"} /\ pc' \in {"compile", "run", "free"}
        /\ pc' = "free" => at' = 1
        /\ UNCHANGED <<live, fails, cells, mod, nxt, parsed, given>>
    BY <1>4 DEF RegisteredAll, Compiled, GivesUp, loaderVars
  <2>2. ModuleStays
    BY <2>1, ModuleKept, KeptStays
  <2> QED  BY <1>1, <2>1, <2>2, AfterReaches DEF AfterParse
<1>5. CASE Succeeds
  <2>1. /\ pc = "succeeded" /\ pc' = "done" /\ UNCHANGED <<fails, loaderVars, given>>
    BY <1>5 DEF Succeeds, FreeWrap
  <2>2. /\ mod' = mod /\ parsed' = parsed /\ back' = back /\ back # "done"
    BY <2>1 DEF loaderVars, HoldInv, LostStates
  <2>3. (NoSectionTwice' <=> NoSectionTwice) /\ (Unstarved' <=> Unstarved)
    BY <2>1, <2>2 DEF NoSectionTwice, SectionsOf, Unstarved
  <2>4. Types' = Types
    BY <2>2 DEF Types
  <2>5. pc' \notin {"parse", "free"} \cup AfterParse
    BY <2>1 DEF AfterParse
  <2>6. NothingLeft'
    BY <2>2 DEF NothingLeft
  <2> QED  BY <2>2, <2>3, <2>4, <2>5, <2>6 DEF ReachInv
<1> QED  BY <1>2, <1>3, <1>4, <1>5

-----------------------------------------------------------------------------
(***************************************************************************)
(* fw_module_free                                                          *)
(***************************************************************************)
\* The handler of a section leaves nothing of it.
LEMMA SectionGone ==
    ASSUME Typed, pc = "free", NextSection, HandlersThere, AllReached(at), given' = given,
           mod'.secs = mod.secs, mod'.vec = mod.vec, mod'.imp = mod.imp \/ Sec.type = Import,
           NoSectionTwice, at \in 1..Len(mod.secs),
           \A k \in Kinds : mod.imp[k].arr = Null => mod'.imp[k].arr = Null,
           \A k \in Kinds : mod'.imp[k].elt = mod.imp[k].elt,
           live' \subseteq live,
           \A o \in live' : OfSection(at, o) => OfVector(Type, o)
    PROVE  HandlersThere' /\ AllReached(at)'
<1>1. IsModule(mod) /\ Len(mod.secs) \in Nat /\ at' = at + 1 /\ pc' = "free" /\ Kept' = Kept
  BY TypedParts, SectionsOfModule, KeptSame DEF Typed, NextSection
<1>2. \A k, o : OfVector(k, o)' <=> OfVector(k, o)
  BY DEF OfVector
<1>3. HandlersThere'
  BY DEF HandlersThere
<1>4. ASSUME NEW i \in at'..Len(mod.secs), NEW o, OfSection(i, o)
      PROVE  OfSection(i, o)'
  <2>1. i \in 1..Len(mod.secs) /\ i # at
    BY <1>1
  <2>2. mod.secs[i].type = Import => mod'.imp = mod.imp
    BY <1>1, <2>1, OnlyOne DEF Sec, Counted
  <2>3. mod.secs[i].type = Import => (OfImports(o) <=> OfImports(o)')
    BY <2>2 DEF OfImports
  <2> QED  BY <1>2, <1>4, <2>3, SectionSame DEF OfSection
<1>5. ASSUME NEW o \in live'
      PROVE  o \in {FileData, Module} \cup Kept \/ Reachable(at, o)'
  <2>1. o \in {FileData, Module} \cup Kept \/ Reachable(at, o)
    BY <1>5 DEF AllReached
  <2>2. OfVector(Type, o) => Reachable(at, o)'
    BY <1>2 DEF Reachable
  <2>3. ASSUME NEW i \in at..Len(mod.secs), OfSection(i, o)
        PROVE  Reachable(at, o)'
    <3>1. CASE i = at
      BY <1>5, <2>2, <2>3, <3>1
    <3>2. CASE i # at
      <4>1. i \in at'..Len(mod.secs)
        BY <1>1, <3>2
      <4>2. OfSection(i, o)'
        BY <1>4, <2>3, <4>1
      <4> QED  BY <4>1, <4>2 DEF Reachable
    <3> QED  BY <3>1, <3>2
  <2> QED  BY <2>1, <2>2, <2>3 DEF Reachable
<1>6. AllReached(at)'
  BY <1>1, <1>5 DEF AllReached
<1> QED  BY <1>3, <1>6

\* What fw_module_free goes by, of a module that has been parsed.
FreeFacts ==
    /\ pc = "free" /\ back = "done" /\ NoSectionTwice /\ EntriesWritten
    /\ HandlersThere /\ Uncounted /\ AllReached(at)
    /\ Len(Types.elt) = Types.cnt /\ ElemsLikeFuncs

\* The section a handler is at, and what is held of it.
LEMMA AtFreed ==
    ASSUME Typed, HoldInv, FreeFacts, at <= Len(mod.secs)
    PROVE  at \in 1..Len(mod.secs) /\ SectionHeld(at) /\ IsModule(mod)
<1>1. IsModule(mod) /\ at \in Nat \ {0}
  BY TypedParts DEF Typed, LoopTyped, FreeFacts
<1>2. at \in 1..Len(mod.secs) /\ DOMAIN mod.secs = 1..Len(mod.secs)
  BY <1>1, SectionsOfModule
<1>3. Loaded /\ Left(at) /\ NoSectionTwice
  BY <1>2 DEF Loaded, Left, FreeFacts
<1> QED  BY <1>1, <1>2, <1>3 DEF HoldInv

LEMMA PlainReaches ==
    ASSUME Typed, HoldInv, FreeFacts, FreePlain, given' = given
    PROVE  HandlersThere' /\ Uncounted' /\ AllReached(at)'
<1>1. /\ NextSection /\ mod' = mod /\ live' = live \ {Section(at)}
      /\ at <= Len(mod.secs) /\ Sec.free = 0
  <2>1. Range(<<Section(at)>>) = {Section(at)}
    BY DEF Range
  <2> QED  BY <2>1 DEF FreePlain, Freeing, Without
<1>2. at \in 1..Len(mod.secs)
  BY <1>1, AtFreed
<1>3. ASSUME NEW o \in live', OfSection(at, o)
      PROVE  OfVector(Type, o)
  <2>1. o # Section(at) /\ o # Null
    BY <1>1, <1>3, LiveNamed
  <2>2. CASE mod.secs[at].type \in Vectors \ {Type}
    <3>1. mod.vec[mod.secs[at].type].arr = Null /\ mod.vec[mod.secs[at].type].elt = << >>
      BY <1>1, <1>2, <2>2 DEF FreeFacts, HandlersThere, Sec
    <3>2. ~OfVector(mod.secs[at].type, o)
      BY <2>1, <3>1 DEF OfVector
    <3>3. mod.secs[at].type # Import
      BY <2>2, ImportNoVector
    <3> QED  BY <1>3, <2>1, <3>2, <3>3 DEF OfSection
  <2>3. CASE mod.secs[at].type = Import
    <3>1. \A k \in Kinds : mod.imp[k].arr = Null /\ mod.imp[k].elt = << >>
      BY <1>1, <1>2, <2>3 DEF FreeFacts, HandlersThere, Sec
    <3>2. ~OfImports(o)
      BY <2>1, <3>1 DEF OfImports
    <3>3. mod.secs[at].type \notin Vectors
      BY <2>3, ImportNoVector
    <3> QED  BY <1>3, <2>1, <3>2, <3>3 DEF OfSection
  <2> QED  BY <1>3, <2>1, <2>2, <2>3 DEF OfSection
<1>4. Uncounted'
  BY <1>1 DEF FreeFacts, Uncounted
<1> QED  BY <1>1, <1>2, <1>3, <1>4, SectionGone DEF FreeFacts

\* The handler makes a turn for each entry that owns an object.
LEMMA AllTurns ==
    ASSUME Typed, FreeFacts, NEW k \in Filled \ {Type}, VectorHeld(k, at),
           at \in 1..Len(mod.secs), mod.secs[at].free # 0, mod.secs[at].type = k
    PROVE  FreeTurns(k) = Len(mod.vec[k].elt)
<1>1. k \in {Function, Export, Elem} /\ k # Memory
  BY DEF Filled, Memory, Function, Export, Elem, Type
<1>2. CASE k \in {Function, Export}
  BY <1>1, <1>2, TurnsOf DEF VectorHeld
<1>3. CASE k = Elem
  <2>1. at \in SectionsOf(Elem)
    <3>1. at \in DOMAIN mod.secs
      BY TypedParts, SectionsOfModule DEF Typed
    <3> QED  BY <1>3, <3>1 DEF SectionsOf
  <2>2. Len(mod.vec[Elem].elt) = mod.vec[Function].cnt
    BY <2>1 DEF FreeFacts, ElemsLikeFuncs
  <2> QED  BY <1>3, <2>2, TurnsOf
<1> QED  BY <1>1, <1>2, <1>3

LEMMA VectorReaches ==
    ASSUME Typed, HoldInv, FreeFacts, NEW k \in Vectors, FreeVector(k), given' = given
    PROVE  HandlersThere' /\ Uncounted' /\ AllReached(at)'
<1>1. /\ mod' = mod /\ Sec.free = k /\ at <= Len(mod.secs)
      /\ VectorTrouble(k) = "" =>
            NextSection /\ live' = Without(FreedVector(k) \o <<Section(at)>>)
  BY DEF FreeVector, Freeing
<1>2. at \in 1..Len(mod.secs) /\ SectionHeld(at) /\ IsModule(mod)
  BY <1>1, AtFreed
<1>3. k # 0 /\ k # Import
  BY DEF Vectors, Import, Type, Function, Table, Memory, Global, Export, Elem, Data
<1>4. VectorHeld(k, at) /\ Sec.type = k /\ k # Type
  <2>1. Sec.type \in Counted
    BY <1>1, <1>2, <1>3 DEF SectionHeld, Sec
  <2>2. Sec.type # Import
    BY <1>1, <1>2, <1>3 DEF SectionHeld, ImportsHeld, Sec
  <2>3. Sec.type \in Vectors /\ VectorHeld(Sec.type, at)
    BY <1>2, <2>1, <2>2 DEF SectionHeld, Sec, Counted
  <2>4. Sec.free = Sec.type /\ Sec.type # Type
    BY <1>1, <1>3, <2>3 DEF VectorHeld, Sec
  <2> QED  BY <1>1, <2>3, <2>4
<1>5. VectorTrouble(k) = ""
  BY <1>1, <1>2, <1>3, <1>4, NoVectorTrouble DEF FreeFacts, Sec
<1> DEFINE n == FreeTurns(k)
           s == Owned(k, n)
           a == mod.vec[k].arr
<1>6. /\ n \in Nat /\ n <= Len(mod.vec[k].elt) /\ Len(mod.vec[k].elt) \in Nat
  <2>1. n \in Nat /\ Len(mod.vec[k].elt) \in Nat
    BY <1>2, TurnsTyped, VectorEntries
  <2>2. ~(n > Len(mod.vec[k].elt))
    BY <1>5 DEF VectorTrouble, ArrayTrouble, Reads
  <2> QED  BY <2>1, <2>2
<1>7. /\ s \in Seq(Ptrs) /\ DOMAIN s = 1..n /\ a \in Ptrs
      /\ \A j \in 1..n : s[j] = mod.vec[k].elt[j].own
  BY <1>2, <1>6, OwnedSeq
<1>8. FreedVector(k) = s \o <<a>> /\ FreedVector(k) \in Seq(Ptrs)
  BY <1>2, <1>5, FreedByVector DEF FreedVector
<1>9. k \in Filled => n = Len(mod.vec[k].elt)
  BY <1>1, <1>2, <1>3, <1>4, AllTurns DEF Sec
<1> HIDE DEF n, s, a
<1>10. Range(FreedVector(k)) = Range(s) \cup {a}
  <2>1. <<a>> \in Seq(Ptrs) /\ Range(<<a>>) = {a}
    BY <1>7, OneElement
  <2>2. Range(s \o <<a>>) = Range(s) \cup Range(<<a>>)
    BY <1>7, <2>1, RangeConcatenation
  <2> QED  BY <1>8, <2>1, <2>2
<1>11. Range(FreedVector(k) \o <<Section(at)>>) = Range(s) \cup {a, Section(at)}
  <2> DEFINE S == Ptrs \cup {Section(at)}
             f == FreedVector(k)
  <2>1. f \in Seq(S)
    BY <1>8
  <2>2. <<Section(at)>> \in Seq(S) /\ Range(<<Section(at)>>) = {Section(at)}
    BY OneElement
  <2>3. Range(f) = Range(s) \cup {a}
    BY <1>10
  <2> HIDE DEF S, f
  <2>4. Range(f \o <<Section(at)>>) = Range(f) \cup Range(<<Section(at)>>)
    BY <2>1, <2>2, RangeConcatenation
  <2>5. Range(f \o <<Section(at)>>) = Range(s) \cup {a, Section(at)}
    BY <2>2, <2>3, <2>4
  <2> QED  BY <2>5 DEF f
<1>12. NextSection /\ live' = live \ (Range(s) \cup {a, Section(at)})
  BY <1>1, <1>5, <1>11 DEF Without
<1>13. ASSUME NEW o \in live', OfSection(at, o)
       PROVE  OfVector(Type, o)
  <2>1. o \notin Range(s) /\ o # a /\ o # Section(at)
    BY <1>12, <1>13
  <2>2. OfVector(k, o)
    BY <1>3, <1>4, <1>13, <2>1 DEF OfSection, Sec
  <2>3. PICK j \in 1..Len(mod.vec[k].elt) : k \in Filled /\ o = mod.vec[k].elt[j].own
    BY <2>1, <2>2 DEF OfVector, a
  <2>4. j \in 1..n /\ o = s[j]
    BY <1>7, <1>9, <2>3
  <2> QED  BY <1>7, <2>1, <2>4 DEF Range
<1>14. Uncounted'
  BY <1>1 DEF FreeFacts, Uncounted
<1>15. live' \subseteq live
  BY <1>12
<1> QED  BY <1>1, <1>2, <1>12, <1>13, <1>14, <1>15, SectionGone DEF FreeFacts

LEMMA ImportsFreedReach ==
    ASSUME Typed, HoldInv, FreeFacts, FreeImports, given' = given
    PROVE  HandlersThere' /\ Uncounted' /\ AllReached(at)'
<1>1. /\ Sec.free = Import /\ at <= Len(mod.secs)
      /\ ImportsTrouble = {} =>
            /\ NextSection /\ live' = Without(FreedImports) \ {Section(at)}
            /\ mod' = WithImports(mod, ArraysTaken(mod.imp))
            /\ mod'.imp = [k \in Kinds |-> [mod.imp[k] EXCEPT !.arr = Null]]
  <2>1. IsModule(mod)
    BY TypedParts DEF Typed
  <2> QED  BY <2>1 DEF FreeImports, Freeing, WithImports, ArraysTaken, IsModule
<1>2. at \in 1..Len(mod.secs) /\ SectionHeld(at) /\ IsModule(mod)
  BY <1>1, AtFreed
<1>3. Import # 0 /\ Import \notin Vectors /\ Type # Import
  BY DEF Vectors, Import, Type, Function, Table, Memory, Global, Export, Elem, Data
<1>4. ImportsHeld(at) /\ Sec.type = Import
  <2>1. Sec.type \in Counted
    BY <1>1, <1>2, <1>3 DEF SectionHeld, Sec
  <2>2. Sec.type \notin Vectors
    <3> SUFFICES ASSUME Sec.type \in Vectors PROVE FALSE
      OBVIOUS
    <3>1. VectorHeld(Sec.type, at)
      BY <1>2 DEF SectionHeld, Sec
    <3>2. Sec.free = Sec.type
      BY <1>1, <1>3, <3>1 DEF VectorHeld, Sec
    <3> QED  BY <1>1, <1>3, <3>2
  <2> QED  BY <1>2, <2>1, <2>2 DEF SectionHeld, Sec, Counted
<1>5. ImportsTrouble = {}
  BY <1>1, <1>2, <1>3, <1>4, NoImportsTrouble DEF Sec
<1>6. /\ IsModule(mod') /\ mod'.secs = mod.secs /\ mod'.vec = mod.vec
      /\ NextSection /\ live' = live \ (Range(FreedImports) \cup {Section(at)})
  BY <1>1, <1>2, <1>5, ImportsTaken DEF Without
<1>7. ASSUME NEW k \in Kinds
      PROVE  /\ mod'.imp[k].arr = Null /\ mod'.imp[k].elt = mod.imp[k].elt
             /\ mod'.imp[k].cnt = mod.imp[k].cnt
  <2>1. mod.imp[k] \in ImpRecs
    BY <1>2 DEF IsModule
  <2>2. mod'.imp[k] = [mod.imp[k] EXCEPT !.arr = Null]
    BY <1>1, <1>5
  <2> QED  BY <2>1, <2>2 DEF ImpRecs
<1>8. ASSUME NEW k \in Kinds, NEW n \in 0..mod.imp[k].cnt, NEW p \in 1..3
      PROVE  ImportPtr(k, n, p) \in Range(FreedImports)
  <2>1. <<k, n, p>> \in ImportSlots
    BY DEF ImportSlots
  <2>2. FreedImports[<<k, n, p>>] = ImportPtr(k, n, p) /\ DOMAIN FreedImports = ImportSlots
    BY <2>1 DEF FreedImports
  <2> QED  BY <2>1, <2>2 DEF Range
<1>9. ASSUME NEW o \in live', OfSection(at, o)
      PROVE  OfVector(Type, o)
  <2>1. o \notin Range(FreedImports) /\ o # Section(at) /\ o # Null
    BY <1>6, <1>9, LiveNamed
  <2>2. OfImports(o)
    BY <1>3, <1>4, <1>9, <2>1 DEF OfSection, Sec
  <2>3. PICK k \in Kinds :
           \/ o = mod.imp[k].arr
           \/ \E n \in 1..Len(mod.imp[k].elt) :
                 o \in {mod.imp[k].elt[n].f, mod.imp[k].elt[n].mname, mod.imp[k].elt[n].nsname}
    BY <2>2 DEF OfImports
  <2>4. mod.imp[k].cnt \in Nat /\ Len(mod.imp[k].elt) = mod.imp[k].cnt
    <3>1. mod.imp[k].cnt \in Nat
      BY <1>2, ImportEntries
    <3>2. mod.imp[k].cnt > 0 => Len(mod.imp[k].elt) = mod.imp[k].cnt
      BY <1>1, <1>3, <1>4 DEF ImportsHeld, Sec
    <3>3. mod.imp[k].cnt = 0 => Len(mod.imp[k].elt) = Len(<< >>)
      BY DEF FreeFacts, Uncounted
    <3>4. Len(<< >>) = 0
      OBVIOUS
    <3> QED  BY <3>1, <3>2, <3>3, <3>4
  <2>5. o # mod.imp[k].arr
    <3>1. ImportPtr(k, 0, 1) = mod.imp[k].arr
      BY DEF ImportPtr
    <3>2. 0 \in 0..mod.imp[k].cnt /\ 1 \in 1..3
      BY <2>4
    <3> QED  BY <1>8, <2>1, <3>1, <3>2
  <2>6. PICK n \in 1..Len(mod.imp[k].elt) :
           o \in {mod.imp[k].elt[n].f, mod.imp[k].elt[n].mname, mod.imp[k].elt[n].nsname}
    BY <2>3, <2>5
  <2>7. /\ ImportPtr(k, n, 1) = mod.imp[k].elt[n].f
        /\ ImportPtr(k, n, 2) = mod.imp[k].elt[n].mname
        /\ ImportPtr(k, n, 3) = mod.imp[k].elt[n].nsname
    BY <2>4, <2>6 DEF ImportPtr
  <2>8. n \in 0..mod.imp[k].cnt /\ {1, 2, 3} \subseteq 1..3
    BY <2>4, <2>6
  <2>9. {mod.imp[k].elt[n].f, mod.imp[k].elt[n].mname, mod.imp[k].elt[n].nsname}
           \subseteq Range(FreedImports)
    BY <1>8, <2>7, <2>8
  <2> QED  BY <2>1, <2>6, <2>9
<1>10. Uncounted'
  BY <1>7 DEF FreeFacts, Uncounted
<1> QED  BY <1>2, <1>4, <1>6, <1>7, <1>9, <1>10, SectionGone DEF FreeFacts

\* The types, the data of the file and the module are what is left.
LEMMA RestReaches ==
    ASSUME Typed, HoldInv, FreeFacts, FreeRest, given' = given
    PROVE  pc' = "done" /\ live' \subseteq Kept'
<1>1. /\ pc = "free" /\ back = "done" /\ NoSectionTwice /\ EntriesWritten /\ AllReached(at)
      /\ Len(Types.elt) = Types.cnt /\ at > Len(mod.secs)
      /\ IsModule(mod) /\ at \in Nat
  BY TypedParts DEF FreeFacts, FreeRest, Typed, LoopTyped
<1>2. ArrayTrouble(Types, Types.cnt) = "" /\ Freeable(RestOf)
  BY <1>1, RestFreeable
<1>3. pc' = "done" /\ live' = live \ Range(RestOf)
  BY <1>1, <1>2 DEF FreeRest, RestOf, Without
<1>4. mod.filedata = FileData
  BY <1>1 DEF HoldInv, Loaded
<1>5. /\ Type \in Vectors /\ Types.cnt \in Nat /\ Len(Types.elt) \in Nat
      /\ Types.cnt <= Len(mod.vec[Type].elt) /\ Types.arr = mod.vec[Type].arr
      /\ Len(mod.secs) \in Nat
  <2>1. Type \in Vectors
    BY DEF Vectors
  <2>2. Types.cnt \in Nat /\ Len(Types.elt) \in Nat /\ Len(mod.secs) \in Nat
    BY <1>1, <2>1, VectorEntries, SectionsOfModule DEF Types
  <2> QED  BY <1>1, <2>1, <2>2 DEF Types
<1> DEFINE n == Types.cnt
           s == Owned(Type, n)
           t == <<Types.arr, mod.filedata, Module>>
           S == Ptrs \cup {FileData, Module}
<1>6. /\ s \in Seq(Ptrs) /\ DOMAIN s = 1..n /\ Types.arr \in Ptrs
      /\ \A j \in 1..n : s[j] = mod.vec[Type].elt[j].own
  BY <1>1, <1>5, OwnedSeq
<1>7. s \in Seq(S) /\ t \in Seq(S) /\ Range(t) = {Types.arr, FileData, Module}
  <2>1. s \in Seq(S)
    BY <1>6
  <2>2. Types.arr \in S /\ FileData \in S /\ Module \in S
    BY <1>6
  <2>3. t \in Seq(S)
    BY <1>4, <2>2
  <2>4. DOMAIN t = {1, 2, 3} /\ t[1] = Types.arr /\ t[2] = FileData /\ t[3] = Module
    BY <1>4
  <2> QED  BY <2>1, <2>3, <2>4 DEF Range
<1>8. RestOf = s \o t
  BY DEF RestOf
<1>9. \A j \in 1..Len(Types.elt) : j \in 1..n /\ Types.elt[j].own = s[j]
  BY <1>1, <1>6 DEF Types
<1> HIDE DEF s, t, S
<1>10. Range(s \o t) = Range(s) \cup Range(t)
  BY <1>7, RangeConcatenation
<1>11. live' = live \ (Range(s) \cup {Types.arr, FileData, Module})
  BY <1>3, <1>7, <1>8, <1>10
<1>12. Kept' = Kept
  BY KeptSame
<1>13. ASSUME NEW o \in live', o \notin Kept
       PROVE  FALSE
  <2>1. o \in live /\ o \notin Range(s) /\ o \notin {Types.arr, FileData, Module}
    BY <1>11, <1>13
  <2>2. Reachable(at, o)
    BY <1>1, <1>13, <2>1 DEF AllReached
  <2>3. OfVector(Type, o)
    BY <1>1, <1>5, <2>2 DEF Reachable
  <2>4. PICK j \in 1..Len(Types.elt) : o = Types.elt[j].own
    BY <2>1, <2>3 DEF OfVector, Types
  <2>5. j \in DOMAIN s /\ o = s[j]
    BY <1>6, <1>9, <2>4
  <2> QED  BY <2>1, <2>5 DEF Range
<1> QED  BY <1>3, <1>12, <1>13

LEMMA FreeReaches ==
    ASSUME Typed, Typed', LoadInv, HoldInv, WholeInv, ReachInv, FreeModule,
           UNCHANGED <<given, instanceVars>>
    PROVE  ReachInv'
<1>1. /\ pc = "free" /\ fails' = fails /\ cells' = cells
      /\ pc' \in LostStates \cup {"free", "close", "done"} /\ parsed' = parsed
  <2>1. back \in {"close", "done"}
    BY FreeSteps, TypedParts DEF Typed
  <2>2. \/ NextSection
        \/ \E how \in LostStates : Lost(how)
        \/ pc' \in LostStates \cup {back} /\ UNCHANGED <<at, item, todo, parsed>>
    BY FreeSteps
  <2>3. pc' \in LostStates \cup {"free", back} /\ parsed' = parsed
    BY <2>2, FreeSteps DEF NextSection, Lost
  <2> QED  BY <2>1, <2>3, FreeSteps DEF LostStates
<1>2. IsModule(mod) /\ mod'.secs = mod.secs /\ mod'.vec = mod.vec
      /\ mod'.imp[TabKind].cnt = mod.imp[TabKind].cnt
  <2>1. IsModule(mod)
    BY TypedParts DEF Typed
  <2>2. CASE mod' = mod
    BY <2>1, <2>2 DEF IsModule
  <2>3. CASE mod' = WithImports(mod, ArraysTaken(mod.imp))
    <3>1. IsModule(mod') /\ mod'.secs = mod.secs /\ mod'.vec = mod.vec
      BY <2>1, <2>3, ImportsTaken
    <3>2. mod'.imp = ArraysTaken(mod.imp)
      BY <2>1, <2>3 DEF WithImports, IsModule
    <3>3. mod.imp[TabKind] \in ImpRecs /\ TabKind \in Kinds
      BY <2>1 DEF IsModule, TabKind, Kinds
    <3> QED  BY <2>1, <3>1, <3>2, <3>3 DEF ArraysTaken, ImpRecs
  <2> QED  BY <2>2, <2>3, FreeSteps
<1>3. given' = given /\ (Unstarved' <=> Unstarved)
  BY <1>1 DEF Unstarved
<1>4. (Regular' <=> Regular) /\ (NoSectionTwice' <=> NoSectionTwice) /\ Types' = Types
  BY <1>1, <1>2, RegularStays DEF Types
<1>5. ASSUME Unstarved', Regular', parsed' = "ok"
      PROVE  FreeFacts
  <2>1. Unstarved /\ Regular /\ parsed = "ok" /\ NoSectionTwice /\ ElemsLikeFuncs
    BY <1>1, <1>3, <1>4, <1>5 DEF Regular
  <2>2. back = "done"
    <3>1. back \in {"none", "close", "done"} /\ back # "none"
      BY <1>1, TypedParts DEF Typed
    <3> QED  BY <2>1, <3>1 DEF WholeInv
  <2>3. EntriesWritten
    BY <2>1, LeftFreed DEF WholeInv
  <2>4. Len(Types.elt) = Types.cnt
    BY <2>1 DEF ReachInv
  <2>5. HandlersThere /\ Uncounted /\ AllReached(at)
    BY <1>1, <2>1 DEF ReachInv
  <2> QED  BY <1>1, <2>1, <2>2, <2>3, <2>4, <2>5 DEF FreeFacts
<1>6. ASSUME Unstarved', Regular', parsed' = "ok"
      PROVE  \/ HandlersThere' /\ Uncounted' /\ AllReached(at)' /\ ~FreeRest
             \/ pc' = "done" /\ live' \subseteq Kept'
  <2>1. FreeFacts
    BY <1>5, <1>6
  <2>2. CASE FreeRest
    BY <1>3, <2>1, <2>2, RestReaches
  <2>3. CASE ~FreeRest
    <3>1. HandlersThere' /\ Uncounted' /\ AllReached(at)'
      BY <1>3, <2>1, <2>3, PlainReaches, VectorReaches, ImportsFreedReach DEF FreeModule
    <3> QED  BY <2>3, <3>1
  <2> QED  BY <2>2, <2>3
<1>7. ~FreeRest => pc' # "done"
  <2>1. CASE FreePlain
    BY <1>1, <2>1 DEF FreePlain, NextSection
  <2>2. CASE FreeImports
    <3>1. NextSection \/ \E how \in ImportsTrouble : Lost(how)
      BY <2>2 DEF FreeImports
    <3>2. NextSection \/ \E how \in LostStates : Lost(how)
      BY <3>1, ImportsLost
    <3> QED  BY <1>1, <3>2 DEF NextSection, Lost, LostStates
  <2>3. ASSUME NEW k \in Vectors, FreeVector(k)
        PROVE  pc' # "done"
    <3>1. \/ NextSection
          \/ VectorTrouble(k) # "" /\ pc' = VectorTrouble(k)
      BY <2>3 DEF FreeVector, Lost
    <3>2. NextSection \/ pc' \in LostStates
      BY <3>1, VectorLost
    <3> QED  BY <1>1, <3>2 DEF NextSection, LostStates
  <2> QED  BY <2>1, <2>2, <2>3 DEF FreeModule
<1>8. ASSUME Unstarved', Regular', parsed' = "ok", pc' = "free"
      PROVE  HandlersThere' /\ Uncounted' /\ AllReached(at)'
  BY <1>6, <1>8
<1>9. NothingLeft'
  <2> SUFFICES ASSUME pc' = "done", parsed' = "ok", Unstarved', Regular'
               PROVE  live' \subseteq Kept'
    BY DEF NothingLeft
  <2> QED  BY <1>6, <1>7
<1>10. pc' \notin {"parse"} \cup AfterParse
  BY <1>1 DEF AfterParse, LostStates
<1>11. ASSUME Unstarved', NoSectionTwice', parsed' = "ok"
       PROVE  Len(Types'.elt) = Types'.cnt
  BY <1>1, <1>3, <1>4, <1>11 DEF ReachInv
<1> QED  BY <1>8, <1>9, <1>10, <1>11 DEF ReachInv

-----------------------------------------------------------------------------
LEMMA InitReaches == Init => ReachInv
<1> SUFFICES ASSUME Init PROVE ReachInv
  OBVIOUS
<1>1. pc = "open" /\ parsed = "none"
  BY DEF Init, LoaderInit
<1> QED  BY <1>1 DEF ReachInv, NothingLeft

LEMMA ReachUnmoved ==
    ASSUME ReachInv, UNCHANGED vars
    PROVE  ReachInv'
<1>1. UNCHANGED <<pc, live, fails, cells, mod, at, item, todo, nxt, probe, back, parsed, given>>
  BY DEF vars, loaderVars
<1>2. (NoSectionTwice' <=> NoSectionTwice) /\ (Regular' <=> Regular)
  BY <1>1, RegularStays
<1>3. (Unstarved' <=> Unstarved) /\ Kept' = Kept /\ Types' = Types
  BY <1>1, KeptSame DEF Unstarved, Types
<1>4. \A k, o : OfVector(k, o)' <=> OfVector(k, o)
  BY <1>1 DEF OfVector
<1>5. \A o : OfImports(o)' <=> OfImports(o)
  BY <1>1 DEF OfImports
<1>6. \A i, o : OfSection(i, o)' <=> OfSection(i, o)
  BY <1>1, <1>4, <1>5, SectionSame DEF OfSection
<1>7. \A first, o : Reachable(first, o)' <=> Reachable(first, o)
  BY <1>1, <1>4, <1>6 DEF Reachable
<1>8. \A first : AllReached(first)' <=> AllReached(first)
  BY <1>1, <1>3, <1>7 DEF AllReached
<1>9. /\ HandlersThere' <=> HandlersThere
      /\ Uncounted' <=> Uncounted
  BY <1>1 DEF HandlersThere, Uncounted
<1>10. ImportsBlank' <=> ImportsBlank
  <2>1. Turn(Import)' <=> Turn(Import)
    BY <1>1 DEF Turn, Parsing, Sec
  <2> QED  BY <1>1, <2>1 DEF ImportsBlank
<1>11. ParseReached' <=> ParseReached
  BY <1>8, <1>9, <1>10 DEF ParseReached
<1>12. AllReached(at)' <=> AllReached(at)
  BY <1>1, <1>3, <1>7 DEF AllReached
<1>13. NothingLeft' <=> NothingLeft
  BY <1>1, <1>2, <1>3 DEF NothingLeft
<1> QED  BY <1>1, <1>2, <1>3, <1>8, <1>9, <1>11, <1>12, <1>13 DEF ReachInv

LEMMA UnendedReaches ==
    ASSUME LoadInv, CountInv, NumberUnended
    PROVE  ReachInv'
<1>1. /\ pc' \in {"hung", "overread"} /\ pc \in {"sections", "parse"} /\ parsed' = parsed
  BY NumberLost DEF loaderVars
<1>2. parsed' = "none"
  BY <1>1 DEF LoadInv, CountInv
<1> QED  BY <1>1, <1>2, NotReached

LEMMA StepReaches ==
    Typed /\ Typed' /\ LoadInv /\ HoldInv /\ CountInv /\ WholeInv /\ ReachInv /\ [Next]_vars
      => ReachInv'
<1> SUFFICES ASSUME Typed, Typed', LoadInv, HoldInv, CountInv, WholeInv, ReachInv, [Next]_vars
             PROVE  ReachInv'
  OBVIOUS
<1>1. CASE LoaderStep
  <2>1. LoaderNext /\ UNCHANGED <<given, instanceVars>>
    BY <1>1 DEF LoaderStep
  <2> QED  BY <2>1, LoadReaches, ParseReaches, FreeReaches, UnendedReaches DEF LoaderNext
<1>2. CASE InstanceStep
  BY <1>2, InstanceReaches
<1>3. CASE LoadedNothing \/ LoadedModule \/ RegisterNext \/ RegisteredAll
             \/ Compiled \/ GivesUp \/ Succeeds
  BY <1>3, DriverReaches
<1>4. CASE UNCHANGED vars
  BY <1>4, ReachUnmoved
<1> QED  BY <1>1, <1>2, <1>3, <1>4 DEF Next

(* fw_module_free gives back whatever the load of a module has allocated,  *)
(* for every file that is parsed to its end with no allocation failed, but *)
(* for what Regular names: what is left at the end is what it knows        *)
(* nothing of, the instance, the context and the arguments of the run and  *)
(* the registry.                                                           *)
THEOREM NothingStays == Spec => []NothingLeft
<1> DEFINE Whole == Typed /\ LoadInv /\ HoldInv /\ CountInv /\ WholeInv /\ ReachInv
<1>1. Init => Whole
  BY InitTyped, InitLoads, InitHolds, InitCounts, InitWhole, InitReaches
<1>2. Whole /\ [Next]_vars => Whole'
  <2>1. Whole /\ [Next]_vars => Typed' /\ LoadInv' /\ HoldInv'
    BY StepTyped, StepLoads, StepHolds
  <2>2. Whole /\ Typed' /\ HoldInv' /\ [Next]_vars => CountInv' /\ WholeInv'
    BY StepCounts, StepWhole
  <2>3. Whole /\ Typed' /\ [Next]_vars => ReachInv'
    BY StepReaches
  <2> QED  BY <2>1, <2>2, <2>3
<1>3. Whole => NothingLeft
  BY DEF ReachInv
<1> QED  BY <1>1, <1>2, <1>3, PTL DEF Spec

=============================================================================
