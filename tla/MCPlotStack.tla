----------------------------- MODULE MCPlotStack -----------------------------
(***************************************************************************)
(* PlotStack with words of three bits: every operator on ints and complex     *)
(* numbers, conditionals whose branches divide by zero or are ill-typed, and  *)
(* calls of one to four arguments, nested and recursive.  The library         *)
(* functions are stand-ins of which only sinh(0) = 0 and cosh(0) = 1 hold.     *)
(***************************************************************************)
EXTENDS PlotExpr

MCsin(x) == x \oslash Q(2)
MCcos(x) == Q(1) \ominus (x \otimes x)
MCsinh(x) == x
MCcosh(x) == Q(1) \oplus (x \otimes x)

I(n) == Const(integer(Q(n)))
C(r, i) == Const(complex(r, i))
Ints_ == {I(n) : n \in {-4, -1, 0, 2, 3}}
Complex_ == {C(Q(0), Q(0)), C(Q(2), Q(0)), C(<<1, 2>>, Q(0)), C(Q(0), Q(-1)), C(Q(1), Q(2))}
Leaves == Ints_ \cup Complex_

Div0 == Apply("div", <<I(1), C(Q(0), Q(0))>>)
Bad == Apply("mod", <<C(Q(1), Q(0)), I(2)>>)
NoVar == Variable("z")
Conds == {I(0), I(3), C(Q(1), Q(0)), Div0, Apply("eq", <<Variable("x"), I(2)>>), Apply("rand", <<>>),
          Apply("and", <<I(3), I(0)>>)}
Branches == {I(2), C(Q(1), Q(2)), Div0, Bad, NoVar, Apply("cond", <<I(0), Div0, I(3)>>)}

D(i) == Dummy(i)
MCVar == [x |-> complex(Q(2), Q(0)), y |-> integer(Q(-1))]
MCUdf ==
  [half |-> [n_arg |-> 1, body |-> Apply("div", <<D(0), C(Q(2), Q(0))>>)],
   twice |-> [n_arg |-> 2, body |-> Apply("plus", <<D(1), Apply("minus", <<Call("half", <<D(0)>>), D(0)>>)>>)],
   three |-> [n_arg |-> 3, body |-> Apply("cond", <<D(0), Call("twice", <<D(2), D(1)>>), D(2)>>)],
   four |-> [n_arg |-> 4, body |-> Apply("minus", <<Apply("mult", <<D(0), D(3)>>), Apply("mult", <<D(1), D(2)>>)>>)],
   fact |-> [n_arg |-> 1, body |->
      Apply("cond", <<D(0), Apply("mult", <<Call("fact", <<Apply("minus", <<D(0), I(1)>>)>>), D(0)>>), I(1)>>)],
   none |-> [n_arg |-> 1, body |-> NoBody]]

Calls == {Call("half", <<a>>) : a \in Leaves \cup {Div0, NoVar}}
    \cup {Call("half", <<Call("half", <<I(3)>>)>>), Call("none", <<I(1)>>), Call("fact", <<I(2)>>)}
    \cup {Call("three", <<a, b, I(3)>>) : a \in {I(0), I(2), C(Q(1), Q(0))}, b \in {I(-1), Div0}}
    \cup {Call("four", <<I(2), I(3), Call("twice", <<a, I(2)>>), C(Q(1), Q(2))>>) : a \in {I(0), C(<<1, 2>>, Q(0))}}

MCExprs == {Apply(op, <<a>>) : op \in (One \ {"bool"}) \cup Bessel, a \in Leaves}
      \cup {Apply(op, <<a, b>>) : op \in Two, a \in Leaves, b \in Leaves}
      \cup {Apply(op, <<a, b>>) : op \in {"and", "or"}, a \in Conds, b \in Branches}
      \cup {Apply("cond", <<a, b, c>>) : a \in Conds, b \in Branches, c \in Branches}
      \cup Calls
MCProbes == {Apply("minus", <<Variable("y"), I(2)>>), Call("half", <<I(3)>>)}

(* What is evaluated, the bodies of the functions, and their operands: the    *)
(* operands nest at most four deep.                                         *)
Operands(S) == UNION {{e.args[i] : i \in DOMAIN e.args} : e \in S}
Depth1 == MCExprs \cup MCProbes \cup ({MCUdf[f].body : f \in DOMAIN MCUdf} \ {NoBody})
Depth2 == Operands(Depth1)
Depth3 == Operands(Depth2)
Depth4 == Operands(Depth3)
MCExpr == Depth1 \cup Depth2 \cup Depth3 \cup Depth4
=============================================================================
