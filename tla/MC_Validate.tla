----------------------------- MODULE MC_Validate ----------------------------
(***************************************************************************)
(* FwValidate on every body of up to MaxLen cells, well formed or not, as  *)
(* the only function, on every pair of functions of up to MaxLen2 cells    *)
(* each, and on structured bodies up to three blocks deep; then on every   *)
(* body of up to MaxOdd cells whose immediates are refused, cut or endless *)
(* or whose result types are other than i32.  `wide', `call' ... are       *)
(* consumed like `const', and `loop' like `block': one of each kind stands *)
(* for the others.                                                         *)
(***************************************************************************)
EXTENDS FwValidate

MaxLen  == 5
MaxLen2 == 3
MaxOdd  == 4

Cell(op) == [op |-> op, arg |-> IF op \in Openers THEN I32Type ELSE 0,
             imm |-> "whole"]

With(op, imm) == [Cell(op) EXCEPT !.imm = imm]

Type(op, type) == [Cell(op) EXCEPT !.arg = type]

Fn(first, last) ==
    [host |-> FALSE, nparam |-> 0, nres |-> 0, nlocal |-> 0,
     first |-> first, last |-> last]

Bodies(ops, n) == UNION {[1..k -> ops] : k \in 0..n}

Cells(b) == [i \in DOMAIN b |-> Cell(b[i])]

OneOf(b) == [code |-> b, funcs |-> << Fn(1, Len(b) + 1) >>, main |-> 1]

One(b) == OneOf(Cells(b))

TwoOf(b, c) ==
    [code |-> b \o << Cell("hdr") >> \o c,
     funcs |-> << Fn(1, Len(b) + 1), Fn(Len(b) + 2, Len(b) + Len(c) + 2) >>,
     main |-> 1]

Two(b, c) == TwoOf(Cells(b), Cells(c))

Structure == {"if", "else", "end", "block"}

(* Structured bodies, two and three blocks deep: nested, side by side and  *)
(* in both branches of an `if'.                                            *)
Wrap(S, T) ==
    {<< "block" >> \o b \o << "end" >> : b \in S}
      \cup {<< "if" >> \o b \o << "end" >> : b \in S}
      \cup {<< "if" >> \o b \o << "else" >> \o c \o << "end" >> : b, c \in T}

Deep1 == Wrap({<< >>}, {<< >>})
Pairs == {b \o c : b, c \in Deep1 \cup {<< >>}}
Deep2 == Wrap(Pairs, Pairs)
Deep3 == Wrap(Deep2, Deep1 \cup {<< >>})
           \cup {<< "if" >> \o b \o << "else" >> \o c \o << "end" >> :
                    b \in Deep2, c \in Deep1}

\* Immediates the readers refuse or never come back from, and those cut.
Odd == {Cell("if"), Cell("else"), Cell("end"), With("if", "refused"),
        With("block", "refused"), With("const", "endless")}

Cut == {<< >>} \cup {<< With(op, "cut") >> : op \in {"block", "if", "const"}}

\* Result types a failing allocation leaves to be decoded: nothing, `else'.
Typed == {Cell("if"), Type("if", EmptyType), Type("block", 5), Cell("else"),
          Cell("end")}

OddPrograms ==
    {OneOf(b \o c) : b \in Bodies(Odd, MaxOdd), c \in Cut}
      \cup {TwoOf(b \o c, d) : b, d \in Bodies(Odd, 1), c \in Cut}
      \cup {OneOf(b) : b \in Bodies(Typed, MaxOdd)}

MCPrograms ==
    OddPrograms \cup
    {One(b) : b \in Bodies(Structure, MaxLen)}
      \cup {Two(b, c) : b, c \in Bodies(Structure, MaxLen2)}
      \cup {One(b) : b \in Bodies({"loop", "const", "hole", "end"}, 3)}
      \cup {One(b \o << "end" >>) : b \in Pairs \cup Deep2 \cup Deep3}

=============================================================================
