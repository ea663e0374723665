----------------------------- MODULE MC_Session -----------------------------
(***************************************************************************)
(* FwSession on files written by an encoder of the format:                 *)
(*   - sound files of every combination of a few imports, functions,       *)
(*     exports and other sections;                                         *)
(*   - registries of every order of a few names that share a bucket;       *)
(*   - a few files with one cell changed, cut short, or with a section     *)
(*     dropped, repeated or moved;                                         *)
(*   - a few files with one allocation failing anywhere, or with a number  *)
(*     that is not read to its end.                                        *)
(***************************************************************************)
EXTENDS FwSession

CONSTANTS h1, h2, h3

Counted1(s) == <<Len(s)>> \o s

Vec(items) == <<Len(items)>> \o FlattenSeq(items)

Each(s, Op(_)) == [i \in DOMAIN s |-> Op(s[i])]

ImportItem(i) == Counted1(i.m) \o Counted1(i.n) \o <<i.kind>> \o i.tail
CodeItem(f)   == Counted1(Vec(f.groups) \o f.body)
ExportItem(e) == Counted1(e.name) \o <<e.kind, e.idx>>
TypeItem(t)   == <<96>> \o t
ElemItem(e)   == <<0, 65, e.offset, 11>> \o Counted1(e.funcs)

SectionCells(t, body) == IF body = << >> THEN << >> ELSE <<t, Len(body)>> \o body

VecSection(t, items) == SectionCells(t, IF items = << >> THEN << >> ELSE Vec(items))

\* The sections of a module, in the order of the format.
Sections(m) == <<
    SectionCells(Custom, m.custom),
    VecSection(Type, Each(m.types, TypeItem)),
    VecSection(Import, Each(m.imports, ImportItem)),
    VecSection(Function, Each(m.funcs, LAMBDA f : <<f.type>>)),
    VecSection(Table, m.tables),
    VecSection(Memory, m.memories),
    VecSection(Global, m.globals),
    VecSection(Export, Each(m.exports, ExportItem)),
    SectionCells(Start, IF m.start = 0 THEN << >> ELSE <<m.start>>),
    VecSection(Elem, Each(m.elems, ElemItem)),
    SectionCells(Code, IF m.code THEN Vec(Each(m.funcs, CodeItem)) ELSE << >>),
    VecSection(Data, m.datas)>>

File(sections) == <<Magic, Version>> \o FlattenSeq(sections)

-----------------------------------------------------------------------------
(***************************************************************************)
(* What modules are made of                                                *)
(***************************************************************************)
MCMain == <<109>>
Env == <<101>>
A == <<97>>
B == <<98>>

I32 == 127

\* One of a parameter, one of a result.
TypesMade == <<<<1, I32, 0>>, <<0, 1, I32>>>>

FuncImport(m, n, t) == [m |-> m, n |-> n, kind |-> FuncKind, tail |-> <<t>>]
MemImport(max)  == [m |-> Env, n |-> << >>, kind |-> MemKind,
                    tail |-> IF max = 0 THEN <<0, 1>> ELSE <<1, 1, max>>]
GlobImport  == [m |-> Env, n |-> B, kind |-> GlobKind, tail |-> <<I32, 0>>]
TabImport   == [m |-> Env, n |-> A, kind |-> TabKind, tail |-> <<112, 0, 1>>]

ImportsMade == {
    << >>,
    <<FuncImport(Env, A, 1)>>,
    <<FuncImport(Env, A, 0), GlobImport, FuncImport(A, Env, 1)>>,
    <<MemImport(0), FuncImport(Env, B, 0), MemImport(2), FuncImport(Env, A, 1)>>,
    <<TabImport, FuncImport(Env, A, 0)>>}

FuncMade(t, groups, body) == [type |-> t, groups |-> groups, body |-> body]

FuncsMade == {
    << >>,
    <<FuncMade(1, << >>, <<11>>)>>,
    <<FuncMade(0, <<<<2, I32>>, <<1, 126>>>>, <<26, 11>>), FuncMade(1, << >>, <<15, 11>>)>>}

ExportMade(n, k, i) == [name |-> n, kind |-> k, idx |-> i]

ExportsMade == {
    << >>,
    <<ExportMade(MCMain, FuncKind, 0)>>,
    <<ExportMade(A, FuncKind, 0), ExportMade(MCMain, FuncKind, 1)>>,
    <<ExportMade(MCMain, TabKind, 1), ExportMade(MCMain, FuncKind, 0)>>,
    <<ExportMade(MCMain, FuncKind, 4)>>}

ElemMade(at0, fs) == [offset |-> at0, funcs |-> fs]

Bare(imports, fs, exports) ==
    [custom |-> << >>, types |-> TypesMade, imports |-> imports, funcs |-> fs,
     tables |-> << >>, memories |-> << >>, globals |-> << >>, exports |-> exports,
     start |-> 0, elems |-> << >>, code |-> TRUE, datas |-> << >>]

\* The other sections; an element for each function.
Full(m) ==
    [m EXCEPT !.custom = <<1, 99>>,
              !.tables = <<<<112, 0, 1>>, <<112, 1, 1, 5>>>>,
              !.globals = <<<<I32, 0, 65, 5, 11>>, <<126, 1, 66, 5, 11>>,
                            <<125, 0, 67, 0, 0, 0, 0, 11>>,
                            <<124, 0, 68, 0, 0, 0, 0, 0, 0, 0, 0, 11>>,
                            <<I32, 0, 35, 0, 11>>>>,
              !.start = IF m.funcs = << >> THEN 0 ELSE 1,
              !.elems = [i \in DOMAIN m.funcs |-> ElemMade(i, <<0>>)],
              !.datas = <<<<0, 65, 0, 11, 2, 9, 9>>>>]

Bares == {Bare(i, f, e) : i \in ImportsMade, f \in FuncsMade, e \in ExportsMade}

Fulls == {Full(m) : m \in Bares}

One == Bare(<<FuncImport(Env, A, 1)>>, <<FuncMade(1, <<<<1, I32>>>>, <<11>>)>>,
            <<ExportMade(MCMain, FuncKind, 0)>>)

Two == Full(Bare(<<FuncImport(Env, A, 0), GlobImport, MemImport(2)>>,
                 <<FuncMade(1, << >>, <<11>>)>>, <<ExportMade(MCMain, FuncKind, 1)>>))

\* Every vector is there, and empty.
Hollow == [Bare(<< >>, << >>, << >>) EXCEPT !.types = << >>]

HollowFile ==
    File([t \in 1..10 |-> <<<<Type, Import, Function, Table, Memory, Global, Export,
                             Elem, Code, Data>>[t], 1, 0>>])

\* Sound, but not for this loader.
Odd == {[One EXCEPT !.memories = <<<<0, 1, 2>>>>],
        [One EXCEPT !.elems = <<ElemMade(0, <<0>>), ElemMade(0, <<0>>)>>],
        [One EXCEPT !.elems = <<ElemMade(0, << >>)>>],
        [One EXCEPT !.elems = <<ElemMade(0, <<0, 1>>)>>],
        [One EXCEPT !.start = 2],
        [One EXCEPT !.funcs = << >>, !.code = FALSE],
        [One EXCEPT !.imports = <<TabImport>>],
        [One EXCEPT !.imports = <<TabImport, TabImport, TabImport, TabImport, TabImport>>]}

-----------------------------------------------------------------------------
(***************************************************************************)
(* The driver, and the cases                                               *)
(***************************************************************************)
Reg(m, n, h) == [global |-> FALSE, mname |-> m, nsname |-> n, host |-> h]
Glb(m, n)    == [global |-> TRUE, mname |-> m, nsname |-> n, host |-> h1]

Driver == <<Reg(Env, A, h1), Reg(Env, B, h2), Glb(Env, B)>>

Registries == {
    << >>,
    <<Reg(Env, A, h1), Reg(Env, A, h2)>>,
    <<Reg(Env, A, h1), Reg(A, Env, h2), Reg(Env, B, h3)>>,
    <<Reg(A, Env, h1), Reg(Env, A, h2), Reg(A, Env, h3), Reg(Env, B, h1), Reg(Env, B, h2)>>,
    <<Reg(Env, << >>, h1), Reg(Env, B, h2), Reg(Env, A, h3), Glb(Env, A)>>}

MCNames == {Env, A} \X {Env, A, B, << >>}

Case(cs, regs, m, sound) ==
    [cells |-> cs, short |-> FALSE, regs |-> regs, fails |-> 0, says |-> m, sound |-> sound]

Whole(m, regs) == Case(File(Sections(m)), regs, m, TRUE)

Written == {Whole(m, Driver) : m \in Bares \cup Fulls}

Linked == {Whole(m, regs) : m \in {b \in Bares : Len(b.funcs) = 1}, regs \in Registries}

Values == {0, 1, 2, 3, 4, 9, 11, 12, 65, 96, 112, 127, 200}

Broken(m, cs) == Case(cs, Driver, m, FALSE)

Changed(m) ==
    LET cs == File(Sections(m))
    IN {Broken(m, [cs EXCEPT ![i] = v]) : i \in DOMAIN cs, v \in Values}
         \cup {Broken(m, SubSeq(cs, 1, n)) : n \in 0..(Len(cs) - 1)}

Rearranged(m) ==
    LET ss == Sections(m)
        With(first, second) == Broken(m, File(SubSeq(ss, 1, first) \o SubSeq(ss, second, Len(ss))))
    IN {With(i - 1, i + 1) : i \in DOMAIN ss}
         \cup {With(i, i) : i \in DOMAIN ss}
         \cup {Broken(m, File([ss EXCEPT ![i] = ss[j], ![j] = ss[i]])) :
                  i \in DOMAIN ss, j \in DOMAIN ss}

\* More locals than a uint32_t counts.
ManyLocals == Broken(One, File(Sections([One EXCEPT
                  !.funcs = <<FuncMade(1, <<<<200, I32>>, <<100, I32>>>>, <<11>>)>>])))

(* Numbers that are not read to their end: at the places One and Two have  *)
(* a number, in a table import, where memory fails, in a body, at the end  *)
(* of the file.                                                            *)
NumbersOfOne == {4, 5, 7, 9, 11, 12, 15, 16, 17, 19, 21, 22, 24, 25, 26, 28, 29, 30, 33,
                 35, 36, 37, 38, 39, 40}

NumbersOfTwo == {31, 32, 33, 36, 38, 39, 40, 48, 49, 50, 54, 58, 59, 61, 66, 91, 102,
                 106, 108, 110, 111, 120, 121, 123, 125}

Never(m, i) == Broken(m, [File(Sections(m)) EXCEPT ![i] = Endless])

CutWithin(cs, n) == Broken(One, Append(SubSeq(cs, 1, n - 1), Torn))

ExportsLast == LET ss == Sections(One) IN File([ss EXCEPT ![8] = ss[11], ![11] = ss[8]])

Unread ==
    {Never(One, i) : i \in NumbersOfOne} \cup {Never(Two, i) : i \in NumbersOfTwo}
      \cup {Never([One EXCEPT !.imports = <<TabImport>>], i) : i \in 23..24}
      \cup {[Never([One EXCEPT !.memories = <<<<0, 1, 2>>>>], 30) EXCEPT !.fails = 1]}
      \cup {Broken(One, File(Sections([One EXCEPT
               !.funcs = <<FuncMade(1, << >>, <<65, Endless, 26, 11>>)>>])))}
      \cup {CutWithin(File(Sections(One)), n) : n \in {4, 15}}
      \cup {CutWithin(ExportsLast, Len(ExportsLast))}

Starved == {[Whole(m, Driver) EXCEPT !.fails = 1] : m \in {One, Two} \cup Odd}

Short == [Whole(One, Driver) EXCEPT !.short = TRUE]

MCCases == Written \cup Linked \cup {Whole(m, Driver) : m \in Odd}
             \cup UNION {Changed(m) \cup Rearranged(m) : m \in {One, Two}}
             \cup {ManyLocals, Short, Case(HollowFile, Driver, Hollow, TRUE)} \cup Starved
             \cup Unread

=============================================================================
