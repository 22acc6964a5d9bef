------------------------------- MODULE PlotOps -------------------------------
(***************************************************************************)
(* The operators of the stack machine of the plotting code                  *)
(* (src/archive/o/internal.c and standard.c): each f_ function as what it    *)
(* makes of its operands.  Moving them from and to the stack is in PlotStack. *)
(***************************************************************************)
EXTENDS PlotValues, Bitwise

CONSTANTS sin(_), cos(_), sinh(_), cosh(_)  \* the mathematical library

(* A result by the types of two operands. *)
ByType(a, b, ii, ic, ci, cc) ==
  CASE IsInt(a) /\ IsInt(b) -> ii [] IsInt(a) /\ ~IsInt(b) -> ic
    [] ~IsInt(a) /\ IsInt(b) -> ci [] OTHER -> cc

(***************************************************************************)
(* internal.c: logical and bit operators take ints only (int_check).         *)
(***************************************************************************)

Truth(p) == integer(Q(IF p THEN 1 ELSE 0))
(* The int of an expression over ints, unknown if one of them is. *)
Known(S, v) == IF Unknown \in S THEN integer(Unknown) ELSE v
int_check(a, out) == IF IsInt(a) THEN out ELSE int_error
Bits(n) == n % (2 * Half)

f_lnot(a) == int_check(a, Ok(Known({a.int}, Truth(IsZero(a.int)))))
f_bnot(a) == int_check(a, Ok(integer(Neg(a.int) \ominus Q(1))))
f_bool(a) == int_check(a, Ok(Known({a.int}, Truth(~IsZero(a.int)))))
Logical(a, b, v) == int_check(a, int_check(b, Ok(Known({a.int, b.int}, v))))
f_lor(a, b) == Logical(a, b, Truth(~IsZero(a.int) \/ ~IsZero(b.int)))
f_land(a, b) == Logical(a, b, Truth(~IsZero(a.int) /\ ~IsZero(b.int)))
f_bor(a, b) == Logical(a, b, integer(Q(Bits(a.int[1]) | Bits(b.int[1]))))
f_xor(a, b) == Logical(a, b, integer(Q(Bits(a.int[1]) ^^ Bits(b.int[1]))))
f_band(a, b) == Logical(a, b, integer(Q(Bits(a.int[1]) & Bits(b.int[1]))))

f_uminus(a) == Ok(IF IsInt(a) THEN integer(Neg(a.int)) ELSE complex(Neg(a.real), Neg(a.imag)))

(***************************************************************************)
(* Comparisons.  The order looks at real parts only.                         *)
(***************************************************************************)

Parts(a) == IF IsInt(a) THEN {a.int} ELSE {a.real, a.imag}
Compare(a, b, p) == Ok(Known(Parts(a) \cup Parts(b), Truth(p)))

(* Mutant: the imaginary part is forgotten where an int meets a complex. *)
EqForgetsImag(a, b) ==
  Compare(a, b, ByType(a, b, a.int = b.int, a.int = b.real,
                       b.int = a.real, a.real = b.real /\ a.imag = b.imag))

f_eq(a, b) == Compare(a, b, ByType(a, b, a.int = b.int, a.int = b.real /\ IsZero(b.imag),
                                   b.int = a.real /\ IsZero(a.imag),
                                   a.real = b.real /\ a.imag = b.imag))
f_ne(a, b) == Compare(a, b, ByType(a, b, a.int # b.int, a.int # b.real \/ ~IsZero(b.imag),
                                   b.int # a.real \/ ~IsZero(a.imag),
                                   a.real # b.real \/ a.imag # b.imag))
f_gt(a, b) == Compare(a, b, ByType(a, b, b.int \prec a.int, b.real \prec a.int,
                                   b.int \prec a.real, b.real \prec a.real))
f_lt(a, b) == Compare(a, b, ByType(a, b, a.int \prec b.int, a.int \prec b.real,
                                   a.real \prec b.int, a.real \prec b.real))
f_ge(a, b) == Compare(a, b, ByType(a, b, ~(a.int \prec b.int), ~(a.int \prec b.real),
                                   ~(a.real \prec b.int), ~(a.real \prec b.real)))
f_le(a, b) == Compare(a, b, ByType(a, b, ~(b.int \prec a.int), ~(b.real \prec a.int),
                                   ~(b.int \prec a.real), ~(b.real \prec a.real)))

(***************************************************************************)
(* Arithmetic.                                                             *)
(***************************************************************************)

f_plus(a, b) ==
  Ok(ByType(a, b, integer(a.int \oplus b.int), complex(a.int \oplus b.real, b.imag),
            complex(b.int \oplus a.real, a.imag), complex(a.real \oplus b.real, a.imag \oplus b.imag)))

f_minus(a, b) ==
  Ok(ByType(a, b, integer(a.int \ominus b.int), complex(a.int \ominus b.real, Neg(b.imag)),
            complex(a.real \ominus b.int, a.imag), complex(a.real \ominus b.real, a.imag \ominus b.imag)))

f_mult(a, b) ==
  Ok(ByType(a, b, integer(a.int \otimes b.int), complex(a.int \otimes b.real, a.int \otimes b.imag),
            complex(b.int \otimes a.real, b.int \otimes a.imag),
            complex((a.real \otimes b.real) \ominus (a.imag \otimes b.imag),
                    (a.real \otimes b.imag) \oplus (a.imag \otimes b.real))))

(* / and % of ints round to zero; the least int divided by -1 traps. *)
Quo(x, y) == LET q == Frac(x[1], y[1]) IN IF q \prec Q(0) THEN Neg(Floor(Neg(q))) ELSE Floor(q)
IntDivides(x, y) == IF Unknown \in {x, y} THEN Ok(integer(Unknown)) \cup Trap
                    ELSE IF x = Q(-Half) /\ y = Q(-1) THEN Trap
                    ELSE Ok(integer(Quo(x, y)))

(* -int before it becomes a double: the least int may stay what it is. *)
Negated(x) == {Neg(x), Word(Neg(x))}
square(b) == (b.real \otimes b.real) \oplus (b.imag \otimes b.imag)
f_div(a, b) ==
  LET zero == complex(Q(0), Q(0))
  IN ByType(a, b,
       Either(b.int, Undefined(integer(Q(0))), IntDivides(a.int, b.int)),
       Either(square(b), Undefined(zero),
              UNION {Ok(complex((a.int \otimes b.real) \oslash square(b),
                                (n \otimes b.imag) \oslash square(b))) : n \in Negated(a.int)}),
       Either(b.int, Undefined(zero), Ok(complex(a.real \oslash b.int, a.imag \oslash b.int))),
       Either(square(b), Undefined(zero),
              Ok(complex(((a.real \otimes b.real) \oplus (a.imag \otimes b.imag)) \oslash square(b),
                         ((a.imag \otimes b.real) \ominus (a.real \otimes b.imag)) \oslash square(b)))))

(* Mutant: division by zero gives 0 without further notice. *)
ModForgets(a, b) == IF ~IsInt(a) \/ ~IsInt(b) THEN int_error
                    ELSE IF IsZero(b.int) THEN Ok(b) ELSE Ok(integer(a.int \ominus (Quo(a.int, b.int) \otimes b.int)))

f_mod(a, b) ==
  IF ~IsInt(a) \/ ~IsInt(b) THEN int_error
  ELSE Either(b.int, Undefined(integer(Q(0))),
              {IF o.flag = "trap" THEN o
               ELSE Outcome(integer(a.int \ominus (o.val.int \otimes b.int)), "ok") :
                  o \in IntDivides(a.int, b.int)})

(* Powers of ints are ints, powers of reals by ints are followed, and what   *)
(* pow and angle make of the rest is not; neither is 1.0 / 0.  abs of the     *)
(* least int is that int: the loop for ints is not entered, and mag is        *)
(* inverted twice.                                                         *)
f_power(a, b) ==
  LET least == b = integer(Q(-Half))
      n == Abs(b.int)[1]
      t == IF least THEN Q(1) ELSE Word(PowerQ(a.int, n))
      mag == PowerQ(a.real, n)
      inverted == b.int \prec Q(0)
  IN Ok(IF ~IsInt(b) \/ Unknown \in Parts(a) \cup Parts(b) THEN complex(Unknown, Unknown)
        ELSE IF IsInt(a) THEN IF inverted THEN complex(Q(1) \oslash t, Q(0)) ELSE integer(t)
        ELSE IF ~IsZero(a.imag) THEN complex(Unknown, Unknown)
        ELSE complex(IF inverted /\ ~least THEN Q(1) \oslash mag ELSE mag, Q(0)))

f_factorial(a) ==
  int_check(a, Ok(complex(IF a.int = Unknown THEN Unknown
                          ELSE Q(IF a.int[1] > 1 THEN Factorial(a.int[1]) ELSE 1), Q(0))))

(***************************************************************************)
(* standard.c.                                                             *)
(***************************************************************************)

f_real(a) == Ok(complex(real(a), Q(0)))
f_imag(a) == Ok(complex(imag(a), Q(0)))
f_conjg(a) == Ok(complex(real(a), Neg(imag(a))))

f_sin(a) == Ok(complex(sin(real(a)) \otimes cosh(imag(a)), cos(real(a)) \otimes sinh(imag(a))))
f_cos(a) == Ok(complex(cos(real(a)) \otimes cosh(imag(a)), Neg(sin(real(a)) \otimes sinh(imag(a)))))
f_sinh(a) == Ok(complex(sinh(real(a)) \otimes cos(imag(a)), cosh(real(a)) \otimes sin(imag(a))))
f_cosh(a) == Ok(complex(cosh(real(a)) \otimes cos(imag(a)), sinh(real(a)) \otimes sin(imag(a))))

(* The other functions of the library are not followed, only where they are  *)
(* undefined and where they are real.                                       *)
OnReals(a, out) == IF IsZero(imag(a)) THEN out ELSE Ok(complex(Unknown, Unknown))
RealUnknown == Ok(complex(Unknown, Q(0)))
f_arg(a) == RealUnknown
f_tan(a) == OnReals(a, RealUnknown) \cup Either(imag(a), {}, Undefined(a))    \* den == 0.0
f_tanh(a) == Ok(complex(Unknown, Unknown))
Outside(x) == Q(1) \prec Abs(x)
Arc(a) ==
  Either(imag(a), (IF Outside(real(a)) \/ real(a) = Unknown THEN Undefined(complex(Q(0), Q(0))) ELSE {})
                  \cup (IF Outside(real(a)) THEN {} ELSE RealUnknown),
         Ok(complex(Unknown, Unknown)))
f_asin(a) == Arc(a)
f_acos(a) == Arc(a)
f_atan(a) == OnReals(a, RealUnknown)
             \cup (IF Abs(imag(a)) \in {Q(1), Unknown}
                   THEN Either(real(a), Undefined(complex(Q(0), Q(0))), {}) ELSE {})
f_sqrt(a) == Ok(complex(Unknown, Unknown))
f_exp(a) == Ok(complex(Unknown, Unknown))
f_log10(a) == Ok(complex(Unknown, Unknown))
f_log(a) == Ok(complex(Unknown, Unknown))

f_int(a) == Ok(integer(IF real(a) \prec Q(0) THEN Neg(Floor(Neg(real(a)))) ELSE Floor(real(a))))
f_abs(a) == Ok(IF IsInt(a) THEN integer(Abs(a.int))
               ELSE complex(IF IsZero(a.imag) THEN Abs(a.real) ELSE Unknown, Q(0)))
f_sgn(a) == Ok(Known({real(a)}, integer(Q(IF Q(0) \prec real(a) THEN 1 ELSE IF real(a) \prec Q(0) THEN -1 ELSE 0))))
f_floor(a) == Ok(IF IsInt(a) THEN a ELSE complex(Floor(a.real), Floor(a.imag)))
f_ceil(a) == Ok(IF IsInt(a) THEN a ELSE complex(Neg(Floor(Neg(a.real))), Neg(Floor(Neg(a.imag)))))
f_rand == Ok(integer(Unknown))
f_srand(a) == Ok(a)      \* sets the seed of the generator

(***************************************************************************)
(* What the function of an action makes of its operands.                     *)
(***************************************************************************)

Value1(op, a) ==
  CASE op = "lnot" -> f_lnot(a) [] op = "bnot" -> f_bnot(a) [] op = "bool" -> f_bool(a)
    [] op = "uminus" -> f_uminus(a) [] op = "factorial" -> f_factorial(a)
    [] op = "real" -> f_real(a) [] op = "imag" -> f_imag(a) [] op = "arg" -> f_arg(a)
    [] op = "conjg" -> f_conjg(a) [] op = "sin" -> f_sin(a) [] op = "cos" -> f_cos(a)
    [] op = "tan" -> f_tan(a) [] op = "asin" -> f_asin(a) [] op = "acos" -> f_acos(a)
    [] op = "atan" -> f_atan(a) [] op = "sinh" -> f_sinh(a) [] op = "cosh" -> f_cosh(a)
    [] op = "tanh" -> f_tanh(a) [] op = "int" -> f_int(a) [] op = "abs" -> f_abs(a)
    [] op = "sgn" -> f_sgn(a) [] op = "sqrt" -> f_sqrt(a) [] op = "exp" -> f_exp(a)
    [] op = "log10" -> f_log10(a) [] op = "log" -> f_log(a) [] op = "floor" -> f_floor(a)
    [] op = "ceil" -> f_ceil(a) [] op = "srand" -> f_srand(a)
Value2(op, a, b) ==
  CASE op = "lor" -> f_lor(a, b) [] op = "land" -> f_land(a, b) [] op = "bor" -> f_bor(a, b)
    [] op = "xor" -> f_xor(a, b) [] op = "band" -> f_band(a, b) [] op = "eq" -> f_eq(a, b)
    [] op = "ne" -> f_ne(a, b) [] op = "gt" -> f_gt(a, b) [] op = "lt" -> f_lt(a, b)
    [] op = "ge" -> f_ge(a, b) [] op = "le" -> f_le(a, b) [] op = "plus" -> f_plus(a, b)
    [] op = "minus" -> f_minus(a, b) [] op = "mult" -> f_mult(a, b) [] op = "div" -> f_div(a, b)
    [] op = "mod" -> f_mod(a, b) [] op = "power" -> f_power(a, b)
Function(op, args) == IF args = <<>> THEN f_rand
                      ELSE IF Len(args) = 1 THEN Value1(op, args[1]) ELSE Value2(op, args[1], args[2])
=============================================================================
