------------------------------- MODULE PlotCode -------------------------------
(***************************************************************************)
(* Expressions of the plotting code and how they are laid out for the stack   *)
(* machine.  The parser is not among the sources; the layout follows from     *)
(* what f_jump, f_jumpz, f_jumpnz and f_jtern (src/archive/o/internal.c)     *)
(* return and from the comments there.                                       *)
(***************************************************************************)
EXTENDS PlotValues

Seqs == INSTANCE SequencesExt

CONSTANTS Var,   \* values of the variables that have one, by name
          Udf    \* functions by name: n_arg and body, or n_arg and no body

(* Expressions are records with an op and its operands (args): const (val),   *)
(* var (name), dummy (i), call (fn), and operators.                          *)
Const(v) == [op |-> "const", val |-> v, args |-> <<>>]
Variable(x) == [op |-> "var", name |-> x, args |-> <<>>]
Dummy(i) == [op |-> "dummy", i |-> i, args |-> <<>>]
Call(f, args) == [op |-> "call", fn |-> f, args |-> args]
Apply(op, args) == [op |-> op, args |-> args]
NoBody == [op |-> "none"]

Logicals == {"lor", "land", "bor", "xor", "band"}
Two == Logicals \cup {"eq", "ne", "gt", "lt", "ge", "le", "plus", "minus", "mult", "div", "mod", "power"}
One == {"lnot", "bnot", "bool", "uminus", "factorial", "real", "imag", "arg", "conjg", "sin", "cos", "tan",
        "asin", "acos", "atan", "sinh", "cosh", "tanh", "int", "abs", "sgn", "sqrt", "exp", "log10", "log",
        "floor", "ceil", "srand"}
(* Bessel functions are made of others. *)
Bessel == {"besj0", "besj1", "besy0", "besy1"}
Leaf == {"const", "var", "dummy", "rand"}

Operations == Leaf \cup One \cup Bessel \cup Two \cup {"and", "or", "cond", "call"}
Arity(e) == CASE e.op \in Leaf -> 0
              [] e.op \in One \cup Bessel -> 1
              [] e.op \in Two \cup {"and", "or"} -> 2
              [] e.op = "cond" -> 3
              [] e.op = "call" -> Udf[e.fn].n_arg

(* The parser has checked e: the number of operands, and that the function is *)
(* one of those defined.                                                    *)
Parsed(e, Expr) == /\ e.op \in Operations
                   /\ e.op = "call" => e.fn \in DOMAIN Udf
                   /\ e.args \in Seq(Expr) /\ Len(e.args) = Arity(e)

(***************************************************************************)
(* Layout of an expression whose operands are laid out as code.  A jump adds  *)
(* j_arg to its place; the other actions go on with the next.  && and || are  *)
(* made of jumpz and jumpnz, ?: of jtern and jump.                            *)
(***************************************************************************)

Act(op) == <<[op |-> op]>>
Jump(op, j_arg) == <<[op |-> op, j_arg |-> j_arg]>>

(* The second operand of && or ||, and the arms of ?:. *)
Unless(op, c) == Jump(op, Len(c) + 1) \o c
Arms(c, d) == Jump("jtern", Len(c) + 2) \o (c \o (Jump("jump", Len(d) + 1) \o d))

Laid(e, fn, code) ==
  CASE e.op = "const" -> <<[op |-> "pushc", val |-> e.val]>>
    [] e.op = "var" -> <<[op |-> "push", name |-> e.name]>>
    [] e.op = "dummy" -> <<[op |-> "pushd", i |-> e.i, fn |-> fn]>>
    [] e.op = "call" -> Seqs!FlattenSeq(code) \o <<[op |-> "call", fn |-> e.fn]>>
    [] e.op = "and" -> (code[1] \o Unless("jumpz", code[2])) \o Act("bool")
    [] e.op = "or" -> (code[1] \o Unless("jumpnz", code[2])) \o Act("bool")
    [] e.op = "cond" -> code[1] \o Arms(code[2], code[3])
    [] OTHER -> Seqs!FlattenSeq(code) \o Act(e.op)
=============================================================================
