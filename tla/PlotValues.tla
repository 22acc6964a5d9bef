------------------------------ MODULE PlotValues ------------------------------
(***************************************************************************)
(* The values of the plotting code (src/archive/o/plot.h, try.c) and what a   *)
(* function of its stack machine may do with them.                           *)
(***************************************************************************)
EXTENDS Integers, Sequences, FiniteSetsExt

CONSTANT Half   \* ints are -Half .. Half - 1

(***************************************************************************)
(* Reals: fractions <<n, d>> in lowest terms.  Unknown is a real that is not *)
(* followed; what is computed from it is not followed either.                *)
(***************************************************************************)

Unknown == <<0, 0>>
Frac(n, d) == IF d = 0 THEN Unknown
              ELSE LET s == IF d < 0 THEN -1 ELSE 1
                       g == Max({k \in 1 .. s * d : n % k = 0 /\ d % k = 0})
                   IN <<s * (n \div g), s * (d \div g)>>
Q(n) == <<n, 1>>
x \oplus y == Frac(x[1] * y[2] + y[1] * x[2], x[2] * y[2])
x \ominus y == Frac(x[1] * y[2] - y[1] * x[2], x[2] * y[2])
x \otimes y == Frac(x[1] * y[1], x[2] * y[2])
x \oslash y == Frac(x[1] * y[2], x[2] * y[1])       \* Unknown if y is zero
x \prec y == x[1] * y[2] < y[1] * x[2]
Neg(x) == <<-x[1], x[2]>>
Floor(x) == IF x = Unknown THEN x ELSE Q(x[1] \div x[2])
Abs(x) == IF x \prec Q(0) THEN Neg(x) ELSE x
IsZero(x) == x = Q(0)
MayBeZero(x) == x \in {Q(0), Unknown}

PowerQ(x, n) == LET p[k \in 0 .. n] == IF k = 0 THEN Q(1) ELSE x \otimes p[k - 1] IN p[n]
Factorial(n) == LET f[k \in 0 .. n] == IF k = 0 THEN 1 ELSE k * f[k - 1] IN f[n]

(***************************************************************************)
(* Values and outcomes.  An int that overflows wraps around.                 *)
(***************************************************************************)

Word(x) == IF x = Unknown THEN x ELSE Q(((x[1] + Half) % (2 * Half)) - Half)
integer(x) == [type |-> "INT", int |-> Word(x)]
complex(r, i) == [type |-> "CMPLX", real |-> r, imag |-> i]
IsInt(a) == a.type = "INT"

(* real() and imag() of the evaluator. *)
real(a) == IF IsInt(a) THEN a.int ELSE a.real
imag(a) == IF IsInt(a) THEN Q(0) ELSE a.imag

(* What a function may do: leave a value, leave one and set undefined, call  *)
(* int_error, or divide so that the processor traps.                         *)
Outcome(v, flag) == [val |-> v, flag |-> flag]
Ok(v) == {Outcome(v, "ok")}
Undefined(v) == {Outcome(v, "undefined")}
int_error == {Outcome(integer(Q(0)), "int_error")}
Trap == {Outcome(integer(Q(0)), "trap")}
Either(x, undef, ok) == (IF MayBeZero(x) THEN undef ELSE {}) \cup (IF IsZero(x) THEN {} ELSE ok)
=============================================================================
