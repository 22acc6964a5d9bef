------------------------------ MODULE PlotExpr ------------------------------
(***************************************************************************)
(* What the stack machine of the plotting code computes.  Meaning is the      *)
(* reference: numbers are complex, whatever their type, and arguments belong  *)
(* to a call.  It claims nothing ("free") of ints that overflow and of        *)
(* values that are not followed.                                            *)
(***************************************************************************)
EXTENDS PlotStack, PlotOps

(* The machine's Code and Outcomes are Layout and Function (of PlotOps). *)
RECURSIVE Layout(_, _)
Layout(e, fn) == Laid(e, fn, [i \in 1 .. Len(e.args) |-> Layout(e.args[i], fn)])

(***************************************************************************)
(* Meaning.                                                                *)
(***************************************************************************)

Result(flag, int, re, im) == [flag |-> flag, int |-> int, re |-> re, im |-> im]
Fault(flag) == Result(flag, TRUE, Q(0), Q(0))
Free == Fault("free")
Number(int, re, im) == IF Unknown \in {re, im} \/ (int /\ Word(re) # re) THEN Free
                       ELSE Result("ok", int, re, im)
Bool(p) == Number(TRUE, Q(IF p THEN 1 ELSE 0), Q(0))
Of(v) == Number(IsInt(v), real(v), imag(v))

(* The worst fault of the operands, or r if there is none. *)
Strict(args, r) ==
  LET flags == {args[i].flag : i \in DOMAIN args}
  IN IF "free" \in flags THEN Free
     ELSE IF "int_error" \in flags THEN Fault("int_error")
     ELSE IF "undefined" \in flags THEN Fault("undefined") ELSE r

Truncated(q) == IF q \prec Q(0) THEN Neg(Floor(Neg(q))) ELSE Floor(q)
Nonzero(a) == ~IsZero(a.re) \/ ~IsZero(a.im)

Sum(a, b) == Number(a.int /\ b.int, a.re \oplus b.re, a.im \oplus b.im)
Difference(a, b) == Number(a.int /\ b.int, a.re \ominus b.re, a.im \ominus b.im)
Minus(a) == Number(a.int, Neg(a.re), Neg(a.im))
Product(a, b) == Number(a.int /\ b.int, (a.re \otimes b.re) \ominus (a.im \otimes b.im),
                        (a.re \otimes b.im) \oplus (a.im \otimes b.re))
(* The inverse is the conjugate divided by the square of the absolute value. *)
Reciprocal(b) == LET n == (b.re \otimes b.re) \oplus (b.im \otimes b.im)
              IN Number(FALSE, b.re \oslash n, Neg(b.im) \oslash n)
Quotient(a, b) == IF ~Nonzero(b) THEN Fault("undefined")
                  ELSE IF a.int /\ b.int THEN Number(TRUE, Truncated(a.re \oslash b.re), Q(0))
                  ELSE IF a.int /\ a.re = Q(-Half) THEN Free   \* -a overflows
                  ELSE Product(a, Reciprocal(b))
Power(a, b) ==
  IF ~b.int \/ ~IsZero(a.im) \/ b.re = Q(-Half) THEN Free
  ELSE LET p == Number(a.int, PowerQ(a.re, Abs(b.re)[1]), Q(0))
       IN IF ~(b.re \prec Q(0)) \/ p.flag = "free" THEN p
          ELSE IF IsZero(a.re) THEN Free ELSE Reciprocal(p)
Sine(a) == Number(FALSE, sin(a.re) \otimes cosh(a.im), cos(a.re) \otimes sinh(a.im))
Cosine(a) == Number(FALSE, cos(a.re) \otimes cosh(a.im), Neg(sin(a.re) \otimes sinh(a.im)))
StrictQuotient(a, b) == Strict(<<a, b>>, Quotient(a, b))
StrictSum(a, b) == Strict(<<a, b>>, Sum(a, b))
StrictMinus(a) == Strict(<<a>>, Minus(a))

Ints(args, r) == IF \A i \in DOMAIN args : args[i].int THEN r ELSE Fault("int_error")

Unary(op, a) ==
  CASE op = "uminus" -> Minus(a)
    [] op = "lnot" -> Ints(<<a>>, Bool(~Nonzero(a)))
    [] op = "bnot" -> Ints(<<a>>, Number(TRUE, Q(-a.re[1] - 1), Q(0)))
    [] op = "factorial" -> Ints(<<a>>, Number(FALSE, IF a.re[1] < 1 THEN Q(1) ELSE Q(Factorial(a.re[1])), Q(0)))
    [] op = "real" -> Number(FALSE, a.re, Q(0))
    [] op = "imag" -> Number(FALSE, a.im, Q(0))
    [] op = "conjg" -> Number(FALSE, a.re, Neg(a.im))
    [] op = "int" -> Number(TRUE, Truncated(a.re), Q(0))
    [] op = "abs" -> IF IsZero(a.im) THEN Number(a.int, Abs(a.re), Q(0)) ELSE Free
    [] op = "sgn" -> Number(TRUE, Q(IF a.re = Q(0) THEN 0 ELSE IF a.re \prec Q(0) THEN -1 ELSE 1), Q(0))
    [] op = "floor" -> Number(a.int, Floor(a.re), Floor(a.im))
    [] op = "ceil" -> Number(a.int, Neg(Floor(Neg(a.re))), Neg(Floor(Neg(a.im))))
    [] op = "sin" -> Sine(a)
    [] op = "cos" -> Cosine(a)
    [] op = "besj0" -> StrictQuotient(Sine(a), a)
    [] op = "besj1" -> StrictSum(StrictQuotient(Sine(a), Product(a, a)), StrictMinus(StrictQuotient(Cosine(a), a)))
    [] op = "besy0" -> StrictMinus(StrictQuotient(Cosine(a), a))
    [] op = "besy1" -> StrictSum(StrictMinus(StrictQuotient(Cosine(a), Product(a, a))),
                                    StrictMinus(StrictQuotient(Sine(a), a)))
    [] OTHER -> Free

(* Ints bit by bit. *)
ByBit(a, b, p(_, _)) ==
  LET bit(n, k) == (n \div k) % 2 = 1
      places == {2 ^ i : i \in {j \in 0 .. Half : 2 ^ j < 2 * Half}}
      on == {k \in places : p(bit(a.re[1], k), bit(b.re[1], k))}
  IN Of(integer(Q(FoldSet(+, 0, on))))

Binary(op, a, b) ==
  CASE op = "plus" -> Sum(a, b)
    [] op = "minus" -> Difference(a, b)
    [] op = "mult" -> Product(a, b)
    [] op = "div" -> Quotient(a, b)
    [] op = "mod" -> Ints(<<a, b>>, LET q == Quotient(a, b)
                                    IN Strict(<<q>>, Number(TRUE, a.re \ominus (q.re \otimes b.re), Q(0))))
    [] op = "power" -> Power(a, b)
    [] op = "eq" -> Bool(a.re = b.re /\ a.im = b.im)
    [] op = "ne" -> Bool(~(a.re = b.re /\ a.im = b.im))
    [] op = "lt" -> Bool(a.re \prec b.re)
    [] op = "gt" -> Bool(b.re \prec a.re)
    [] op = "le" -> Bool(~(b.re \prec a.re))
    [] op = "ge" -> Bool(~(a.re \prec b.re))
    [] op = "lor" -> Ints(<<a, b>>, Bool(Nonzero(a) \/ Nonzero(b)))
    [] op = "land" -> Ints(<<a, b>>, Bool(Nonzero(a) /\ Nonzero(b)))
    [] op = "bor" -> Ints(<<a, b>>, ByBit(a, b, LAMBDA p, q : p \/ q))
    [] op = "xor" -> Ints(<<a, b>>, ByBit(a, b, LAMBDA p, q : p # q))
    [] op = "band" -> Ints(<<a, b>>, ByBit(a, b, LAMBDA p, q : p /\ q))

(* && and || leave their second operand alone if the first decides, ?: one of *)
(* its branches.                                                            *)
RECURSIVE Meaning(_, _)
Meaning(e, env) ==
  LET m(i) == Meaning(e.args[i], env)
      all == [i \in DOMAIN e.args |-> m(i)]
      Then(r) == Strict(<<m(1)>>, Ints(<<m(1)>>, r))
      Second == Strict(<<m(2)>>, Ints(<<m(2)>>, Bool(Nonzero(m(2)))))
  IN CASE e.op = "const" -> Of(e.val)
       [] e.op = "var" -> IF e.name \in DOMAIN Var THEN Of(Var[e.name]) ELSE Fault("int_error")
       [] e.op = "dummy" -> env[e.i + 1]
       [] e.op = "call" -> Strict(all, IF Udf[e.fn].body = NoBody THEN Fault("int_error")
                                       ELSE Meaning(Udf[e.fn].body, all))
       [] e.op = "and" -> Then(IF Nonzero(m(1)) THEN Second ELSE Bool(FALSE))
       [] e.op = "or" -> Then(IF Nonzero(m(1)) THEN Bool(TRUE) ELSE Second)
       [] e.op = "cond" -> Then(IF Nonzero(m(1)) THEN m(2) ELSE m(3))
       [] e.op \in {"rand", "none"} -> Free
       [] OTHER -> Strict(all, IF Len(all) = 1 THEN Unary(e.op, all[1]) ELSE Binary(e.op, all[1], all[2]))

(***************************************************************************)
(* Properties.                                                             *)
(***************************************************************************)

Reference == Meaning(expr, <<>>)

(* An expression without a fault gets its value: whichever of its numbers     *)
(* are ints and which complex, through jumps, calls and the reuse of the      *)
(* stack.  Not so if a function is entered again before it is left: f_call    *)
(* saves no dummies.                                                        *)
ValueIsMeaning == status \notin {"idle", "run"} /\ ~reentered /\ Reference.flag = "ok" =>
  /\ status = "done" /\ ~undefined
  /\ real(result) = Reference.re /\ imag(result) = Reference.im /\ IsInt(result) = Reference.int

(* A division by zero whose value matters, and no other, is still known when  *)
(* the evaluation ends; a fault of types is never passed over.               *)
FaultsShow == status \notin {"idle", "run"} /\ ~reentered =>
  /\ Reference.flag = "undefined" => undefined \/ status # "done"
  /\ Reference.flag = "int_error" => status # "done"
=============================================================================
