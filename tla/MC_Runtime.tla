----------------------------- MODULE MC_Runtime -----------------------------
(***************************************************************************)
(* FwRuntime on families of programs.                                      *)
(*                                                                         *)
(* A term of the fragment is a pair: its code, and what WebAssembly says   *)
(* it computes, as a function of the two locals of the running function.   *)
(* An expression yields a value and new locals; a statement yields new     *)
(* locals and the value returned, or -1 when it returns nothing.           *)
(***************************************************************************)
EXTENDS FwRuntime, TLC

Bit == {0, 1}
Env == [{0, 1} -> Bit]

I(op, arg) == [op |-> op, arg |-> arg, imm |-> "whole"]
With(op, imm) == [I(op, 0) EXCEPT !.imm = imm]
C(op) == << I(op, 0) >>
Truth(b) == IF b THEN 1 ELSE 0

-----------------------------------------------------------------------------
\* Expressions: [code, den \in [Env -> [v : Bit, env : Env]]]
Val(v, e) == [v |-> v, env |-> e]

Const(n) == [code |-> << I("const", n) >>, den |-> [e \in Env |-> Val(n, e)]]

Get(x) == [code |-> << I("get", x) >>, den |-> [e \in Env |-> Val(e[x], e)]]

Tee(x, t) ==
    [code |-> t.code \o << I("tee", x) >>,
     den |-> [e \in Env |-> LET r == t.den[e]
                            IN Val(r.v, [r.env EXCEPT ![x] = r.v])]]

Eqz(t) ==
    [code |-> t.code \o C("eqz"),
     den |-> [e \in Env |-> Val(Truth(t.den[e].v = 0), t.den[e].env)]]

Compare(op, t, u) ==
    [code |-> t.code \o u.code \o C(op),
     den |-> [e \in Env |->
                LET r == t.den[e]
                    s == u.den[r.env]
                IN Val(Truth(CASE op = "eq" -> r.v = s.v
                               [] op = "ne" -> r.v # s.v
                               [] op = "gt_s" -> r.v > s.v), s.env)]]

Select(t, u, c) ==
    [code |-> t.code \o u.code \o c.code \o C("select"),
     den |-> [e \in Env |->
                LET r == t.den[e]
                    s == u.den[r.env]
                    q == c.den[s.env]
                IN Val(IF q.v # 0 THEN r.v ELSE s.v, q.env)]]

IfValue(c, t, u) ==
    [code |-> c.code \o << I("if", I32Type) >> \o t.code \o C("else")
                \o u.code \o C("end"),
     den |-> [e \in Env |-> LET q == c.den[e]
                            IN IF q.v # 0 THEN t.den[q.env] ELSE u.den[q.env]]]

\* A call of function f, whose result for each argument is fun.
Call(f, fun, t) ==
    [code |-> t.code \o << I("call", f) >>,
     den |-> [e \in Env |-> Val(fun[t.den[e].v], t.den[e].env)]]

-----------------------------------------------------------------------------
\* Statements: [code, den \in [Env -> [env : Env, ret : Bit \cup {-1}]]]
Skip == [code |-> << >>, den |-> [e \in Env |-> [env |-> e, ret |-> -1]]]

SetLocal(x, t) ==
    [code |-> t.code \o << I("set", x) >>,
     den |-> [e \in Env |-> LET r == t.den[e]
                            IN [env |-> [r.env EXCEPT ![x] = r.v], ret |-> -1]]]

Drop(t) ==
    [code |-> t.code \o C("drop"),
     den |-> [e \in Env |-> [env |-> t.den[e].env, ret |-> -1]]]

Return(t) ==
    [code |-> t.code \o C("return"),
     den |-> [e \in Env |-> [env |-> t.den[e].env, ret |-> t.den[e].v]]]

Then(s, u) ==
    [code |-> s.code \o u.code,
     den |-> [e \in Env |-> IF s.den[e].ret # -1 THEN s.den[e]
                            ELSE u.den[s.den[e].env]]]

If(c, s) ==
    [code |-> c.code \o << I("if", EmptyType) >> \o s.code \o C("end"),
     den |-> [e \in Env |-> LET q == c.den[e]
                            IN IF q.v # 0 THEN s.den[q.env]
                               ELSE [env |-> q.env, ret |-> -1]]]

IfElse(c, s, u) ==
    [code |-> c.code \o << I("if", EmptyType) >> \o s.code \o C("else")
                \o u.code \o C("end"),
     den |-> [e \in Env |-> LET q == c.den[e]
                            IN IF q.v # 0 THEN s.den[q.env] ELSE u.den[q.env]]]

-----------------------------------------------------------------------------
(* A function of one parameter and one local: its statement, then its      *)
(* result.  fun is what it answers for each argument.                      *)
Function(s, t) ==
    [code |-> s.code \o t.code \o C("end"),
     fun |-> [a \in Bit |->
                LET e == [x \in {0, 1} |-> IF x = 0 THEN a ELSE 0]
                    r == s.den[e]
                IN IF r.ret # -1 THEN r.ret ELSE t.den[r.env].v]]

Local(first, len) ==
    [host |-> FALSE, nparam |-> 1, nres |-> 1, nlocal |-> 1,
     first |-> first, last |-> first + len]

\* Function 1 is imported; HostVals = {0} is all it answers.
Imported == [host |-> TRUE, nparam |-> 1, nres |-> 1, nlocal |-> 0,
             first |-> 1, last |-> 1]
HostFun == [a \in Bit |-> 0]

(* An import, the exported function and the one it calls, with what the    *)
(* exported function should answer for each argument.                      *)
Program(main, callee) ==
    [code |-> main.code \o C("hdr") \o callee.code,
     funcs |-> << Imported, Local(1, Len(main.code)),
                  Local(Len(main.code) + 2, Len(callee.code)) >>,
     main |-> 2,
     want |-> main.fun]

-----------------------------------------------------------------------------
(* The fragment the interpreter gets right: no block or loop, no call with *)
(* operands below its argument, no return after a call, no function        *)
(* without parameters and locals, no `if' without `else' in a first branch *)
(* of one with `else'.                                                     *)
E0 == {Const(1), Get(0), Get(1)}

E1 == {Eqz(t) : t \in E0} \cup {Tee(1, Eqz(t)) : t \in E0}
        \cup {Compare(op, Get(0), t) : op \in {"eq", "ne", "gt_s"}, t \in E0}
        \cup {Select(Const(0), t, Get(0)) : t \in E0}
        \cup {IfValue(Get(0), Eqz(Get(0)), t) : t \in E0}

S0 == {SetLocal(1, Const(1)), SetLocal(1, Get(0)), SetLocal(0, Eqz(Get(0))),
       Return(Get(1)), Return(Const(1)), Drop(Get(0))}

Quiet == {s \in S0 : \A e \in Env : s.den[e].ret = -1}

S1 == {If(Get(0), s) : s \in S0}
        \cup {IfElse(Get(0), s, u) : s, u \in S0}
        \cup {IfElse(Get(0), IfElse(Get(1), s, u), s) : s, u \in S0}
        \cup {If(Get(0), If(Eqz(Get(1)), s)) : s \in S0}

Callees ==
    {Function(s, Get(1)) : s \in S1}
      \cup {Function(Then(SetLocal(1, t), s), Get(0)) : t \in E1, s \in S0}

SomeCallees ==
    {Function(IfElse(Get(0), Return(Const(1)), SetLocal(1, Get(0))), Get(1)),
     Function(If(Get(0), SetLocal(1, Const(1))), Eqz(Get(1))),
     Function(Then(SetLocal(0, Eqz(Get(0))), Return(Get(0))), Const(1))}

\* Calls whose argument is the only operand.
CallTerms(f, fun) ==
    {Call(f, fun, t) : t \in {Get(0), Get(1), Const(1)}}

Mains(f, fun) ==
    {Function(Skip, c) : c \in CallTerms(f, fun)}
      \cup {Function(SetLocal(1, c), Compare(op, c, Get(1))) :
              op \in {"eq", "gt_s"}, c \in CallTerms(f, fun)}
      \cup {Function(IfElse(c, s, u), Get(1)) :
              c \in CallTerms(f, fun), s, u \in Quiet}
      \cup {Function(If(Get(0), Return(Get(0))), IfValue(c, c, Eqz(c))) :
              c \in CallTerms(f, fun)}

FragmentPrograms ==
    {Program(Function(SetLocal(1, Call(3, g.fun, Get(0))), Eqz(Get(1))), g) :
        g \in Callees}
      \cup UNION {{Program(m, g) : m \in Mains(3, g.fun)} : g \in SomeCallees}
      \cup {Program(m, g) : m \in Mains(1, HostFun), g \in SomeCallees}

(* Typed programs beyond the fragment: calls with operands below the       *)
(* argument, blocks and loops (whose labels stay on the stack), returns    *)
(* after calls and out of blocks, calls of the exported function.  What    *)
(* they answer is not asked.                                               *)
Wrapped(op, s) ==
    [code |-> << I(op, EmptyType) >> \o s.code \o C("end"), den |-> s.den]

CallOf(f, t) == Call(f, HostFun, t)

TypedTerms(f) ==
    {Get(0), CallOf(f, Get(0)), CallOf(f, CallOf(1, Get(1))),
     Select(Const(1), CallOf(f, Get(0)), Get(1)),
     IfValue(CallOf(f, Get(0)), Get(1), CallOf(1, Const(1)))}
      \cup {Compare("ne", t, CallOf(f, Get(0))) : t \in {Const(1), CallOf(1, Get(0))}}

TypedStatements(f) ==
    {Wrapped(op, s) : op \in {"block", "loop"},
                      s \in {SetLocal(1, CallOf(f, Get(0))), Return(Get(0))}}
      \cup {Wrapped("block", Wrapped("loop", If(Get(1), Return(CallOf(f, Get(0))))))}
      \cup {SetLocal(1, t) : t \in TypedTerms(f)}
      \cup {Return(Compare("eq", Get(0), CallOf(f, Get(0))))}
      \cup {IfElse(t, s, Return(Get(1))) :
               t \in {CallOf(f, Get(0)), Eqz(CallOf(f, Get(0)))},
               s \in {Drop(Get(0)), Return(Const(1))}}

\* A callee may call the exported function back.
TypedCallees ==
    {Function(s, CallOf(1, Get(0))) : s \in TypedStatements(1)}
      \cup {Function(If(Get(0), SetLocal(0, CallOf(2, Eqz(Get(0))))), Get(0))}

TypedPrograms ==
    {[Program(Function(Then(s, u), CallOf(3, Get(0))), g) EXCEPT !.want = << >>] :
        s \in TypedStatements(3), g \in TypedCallees,
        u \in {Skip, If(Get(1), Return(CallOf(3, Get(1))))}}

(* A `return' after a call, in the exported function.                      *)
ReturnAfterCall ==
    {Program(Function(Then(SetLocal(1, Call(3, g.fun, Get(0))), Return(Get(1))),
                      Const(1)), g) : g \in SomeCallees}

(* The exported function calls a function without parameters and locals    *)
(* (its own code is one `end').                                            *)
CallNullary ==
    LET main == << I("call", 2), I("get", 0), I("end", 0) >>
    IN {[code |-> main \o C("hdr") \o C("end"),
         funcs |-> << Local(1, 3),
                      [Local(5, 1) EXCEPT !.nparam = 0, !.nlocal = 0, !.nres = 0] >>,
         main |-> 1]}

WellTyped == FragmentPrograms \cup TypedPrograms

InFragment == prog.want # << >>

(* A program of the fragment ends normally, with the result WebAssembly    *)
(* gives it.                                                               *)
RunsRight ==
    InFragment =>
        /\ phase \in {"idle", "run", "ok", "fail"}
        /\ phase = "fail" => Len(args) = 0
        /\ phase = "ok" => result = prog.want[args[1]]

(* "recover locals" (fw_exec.c:218), in the fragment: a function finds its *)
(* block of locals again behind each call, and so does its caller.         *)
FragmentLocals == InFragment => LocalsUsable

(* "mark function end" (fw_instr.c:345), in the fragment, where no call    *)
(* comes before a `return': it ends the function it stands in.             *)
FragmentReturns ==
    [][InFragment /\ Returning => Last(acts').pos = prog.funcs[Last(acts).fn].last]_vars

-----------------------------------------------------------------------------
(***************************************************************************)
(* Programs nothing has validated, for the properties that hold whatever   *)
(* the program does.  A body is a sequence of chunks and an `end'.  The    *)
(* functions are an import, a function with a parameter and a local, the   *)
(* exported function, which lies behind it in the code, and one behind     *)
(* both without parameters, locals and result.                             *)
(***************************************************************************)
IfCode(then, else) ==
    << I("if", I32Type) >> \o then
      \o (IF else = << >> THEN << >> ELSE C("else") \o else) \o C("end")

Values == {<< I("const", 1) >>, << I("wide", 1) >>, C("drop"), C("select"),
           C("eqz"), C("eq"), C("ne"), C("gt_s"),
           << I("get", 0) >>, << I("set", 0) >>, << I("tee", 0) >>,
           << I("get", 9) >>}

Controls == {<< I("call", f) >> : f \in {1, 2, 4, 9}}
              \cup {C("return"), C("unknown"), C("norun"), C("hole"), C("else"),
                    << I("block", EmptyType), I("end", 0) >>,
                    << I("loop", EmptyType), I("end", 0) >>,
                    IfCode(C("unknown"), << >>),
                    IfCode(<< I("call", 2) >>, C("drop")),
                    IfCode(C("return"), << I("get", 0) >>)}

Chunks == Values \cup Controls

Short == {<< I("const", 1) >>, C("drop"), C("return"), C("unknown"),
          << I("get", 0) >>, << I("call", 2) >>, << I("call", 4) >>}

AnyProgram(callee, main, nullary) ==
    LET c == callee \o C("end")
        m == main \o C("end")
        n == nullary \o C("end")
    IN [code |-> c \o C("hdr") \o m \o C("hdr") \o n,
        funcs |-> << Imported,
                     Local(1, Len(c)),
                     [Local(Len(c) + 2, Len(m)) EXCEPT !.nlocal = 0],
                     [Local(Len(c) + Len(m) + 3, Len(n))
                        EXCEPT !.nparam = 0, !.nlocal = 0, !.nres = 0] >>,
        main |-> 3]

(* Every body over the structure opcodes, for the validation pass with     *)
(* allocations that fail at any block.                                     *)
Structure == {"if", "else", "end", "block"}

StructurePrograms ==
    {[code |-> [i \in DOMAIN b |-> I(b[i], t)],
      funcs |-> << Local(1, Len(b)) >>, main |-> 1] :
        b \in UNION {[1..k -> Structure] : k \in 1..5}, t \in {EmptyType, I32Type}}

(* Immediates that are refused or never read to their end, and one that is *)
(* cut, which the cursor of the function leaves the body behind.           *)
Refusing == {<< With(op, "refused") >> :
                op \in {"const", "set", "tee", "call", "block", "if", "norun"}}
              \cup {<< With(op, "refused"), I("end", 0) >> : op \in {"if", "loop"}}

Odd == Refusing \cup {<< With(op, "endless") >> : op \in {"get", "set", "if"}}

\* The exported function ends in a cell that is cut.
CutProgram(x, cell) ==
    LET c == x \o C("end")
        m == << I("const", 1), I("call", 2), I("get", 0), cell >>
    IN [code |-> c \o C("hdr") \o m,
        funcs |-> << Imported, Local(1, Len(c)), Local(Len(c) + 2, Len(m)) >>,
        main |-> 3]

OddPrograms ==
    {AnyProgram(x, y \o z, << >>) : x \in {C("drop")}, y \in Odd \cup Short, z \in Odd}
      \cup {AnyProgram(x, << I("call", 2) >>, << >>) : x \in Odd}
      \cup {CutProgram(x, With(op, "cut")) :
               x \in Short,
               op \in {"const", "set", "tee", "call", "block", "loop", "if", "norun"}}

AnyPrograms ==
    StructurePrograms \cup OddPrograms
      \cup {AnyProgram(x, y \o z, << >>) : x \in Short, y, z \in Chunks}
      \cup {AnyProgram(x, << I("call", 2) >> \o y, z) : x \in Chunks, y, z \in Short}
      \cup {AnyProgram(x, << I("get", 0), I("get", 0) >> \o y, << >>) :
                x \in Short, y \in Chunks}
      \cup {[AnyProgram(x, << >>, z) EXCEPT !.main = f] :
                x, z \in Short, f \in {1, 2, 4}}
      \cup {[AnyProgram(x, << >>, << >>) EXCEPT !.funcs[3].nparam = 4] : x \in Short}
      \cup {[AnyProgram(x, << I("const", 1), I("call", 1) >>, << >>)
                EXCEPT !.funcs[1].nparam = 2] : x \in Short}
      \cup {[AnyProgram(x, << I("call", 1) >>, << >>)
                EXCEPT !.funcs[1].nres = 0] : x \in Short}

=============================================================================
