------------------------------ MODULE ModArith ------------------------------
(***************************************************************************)
(* Coefficients of rational functions modulo a modulus                     *)
(* (src/archive/src/rat3f-hc.c: the C replacements of cplus, cdifference and *)
(* ctimes).  A Lisp integer is a fixnum, which fits a machine word, or a     *)
(* bignum.  The functions compute on machine words where they can; 2 * Half  *)
(* is the number of words, 2^32 in the code.                                *)
(***************************************************************************)
EXTENDS Integers

CONSTANTS Half,     \* fixnums are -Half .. Half - 1
          Moduli,   \* the values modulus is given
          Input,    \* the integers that are read as coefficients
          Reg,      \* the coefficients at hand
          MaxInt    \* bound on the coefficients when there is no modulus

Nil == 0            \* no modulus ("the modulus is guaranteed > 0")
Moduls == Moduli \cup {Nil}

ASSUME ModArithAssumption ==
  /\ Half \in Nat /\ Half > 2 /\ MaxInt \in Nat /\ Moduli \subseteq Nat \ {0} /\ Input \subseteq Int

VARIABLES modulus,  \* the modulus, for good
          coef,     \* [Reg -> Int]: the coefficients as computed
          exact,    \* [Reg -> Int]: what they stand for, reduced to 0 .. modulus - 1
          negative  \* a bignum below zero has been read

modvars == <<modulus, coef, exact, negative>>

(***************************************************************************)
(* Machine words.                                                          *)
(***************************************************************************)

Fix == -Half .. Half - 1
FIXNUMP(x) == x \in Fix
Wrap(x) == ((x + Half) % (2 * Half)) - Half                  \* an int that overflowed
CRem(x, m) == IF x >= 0 THEN x % m ELSE -((-x) % m)          \* % of C, for m > 0
CQuo(x, m) == IF x >= 0 THEN x \div m ELSE -((-x) \div m)    \* / of C
High(x) == x \div (2 * Half)                                 \* upper word of a double one

(* Mutant: >= for >, which moves the upper end of the range. *)
FixModAtHalf(x, m) == IF x >= m \div 2 THEN x - m ELSE IF x < -(m \div 2) THEN x + m ELSE x

(* FIX_MOD: from the range of a remainder to the symmetric one. *)
FIX_MOD(x, m) == IF x > m \div 2 THEN x - m ELSE IF x < -(m \div 2) THEN x + m ELSE x

(* dblrem: mulsl to a double word, divsl by m; if the quotient is no word,    *)
(* divsl leaves its operands as they are, and the upper word is returned.    *)
dblrem(a, b, m) == IF FIXNUMP(CQuo(a * b, m)) THEN CRem(a * b, m) ELSE High(a * b)

(* plusrem, subrem: the sum or difference is extended to a double word only  *)
(* if it overflows, with an upper word made from the carry.                 *)
Rem(s, m) == IF FIXNUMP(s) \/ FIXNUMP(CQuo(s, m)) THEN CRem(s, m)
             ELSE IF s > 0 THEN 0 ELSE -1
plusrem(a, b, m) == Rem(a + b, m)
subrem(a, b, m) == Rem(a - b, m)

(* ftimes: mulsl, or fixnum_times if that overflows. *)
ftimes(a, b) == a * b

(* fplus, fminus: on overflow a bignum of two digits of one bit less than a   *)
(* word is built from the sign of the second argument and the wrapped sum.   *)
bignum2(h, l) == h * Half + l
fplus(a, b) == IF FIXNUMP(a + b) THEN a + b
               ELSE bignum2(IF b > 0 THEN 1 ELSE -2, Wrap(a + b) % Half)
fminus(a, b) == IF FIXNUMP(a - b) THEN a - b
                ELSE bignum2(IF b < 0 THEN 1 ELSE -2, Wrap(a - b) % Half)

(***************************************************************************)
(* Lisp integers.                                                          *)
(***************************************************************************)

(* Mutant: without the remainder, as if one correction were enough. *)
McmodOnce(x, m) == IF m = Nil THEN x ELSE FIX_MOD(x, m)

(* mcmod: with bignums only remainders that are too large are corrected. *)
mcmod(x, m) ==
  IF m = Nil THEN x
  ELSE IF FIXNUMP(m) /\ FIXNUMP(x) THEN FIX_MOD(CRem(x, m), m)
  ELSE IF CRem(x, m) > m \div 2 THEN CRem(x, m) - m ELSE CRem(x, m)

ctimes(a, b, m) ==
  IF FIXNUMP(a) /\ FIXNUMP(b) /\ m = Nil THEN ftimes(a, b)
  ELSE IF FIXNUMP(a) /\ FIXNUMP(b) /\ FIXNUMP(m) THEN FIX_MOD(dblrem(a, b, m), m)
  ELSE mcmod(a * b, m)

(* Mutant: the digits of the sum are not put together again. *)
CplusWraps(a, b, m) == IF m = Nil THEN Wrap(a + b)
                       ELSE IF FIXNUMP(m) THEN FIX_MOD(CRem(Wrap(a + b), m), m)
                       ELSE mcmod(a + b, m)

(* cplus, cdifference: with a fixnum modulus the words are added without a   *)
(* test for overflow.                                                       *)
cplus(a, b, m) == IF m # Nil /\ FIXNUMP(m) THEN FIX_MOD(CRem(Wrap(a + b), m), m)
                  ELSE IF m = Nil THEN IF FIXNUMP(a) /\ FIXNUMP(b) THEN fplus(a, b) ELSE a + b
                  ELSE mcmod(a + b, m)
cdifference(a, b, m) ==
  IF m # Nil /\ FIXNUMP(m) THEN FIX_MOD(CRem(Wrap(a - b), m), m)
  ELSE IF m = Nil THEN IF FIXNUMP(a) /\ FIXNUMP(b) THEN fminus(a, b) ELSE a - b
  ELSE mcmod(a - b, m)

(* fmod: "in fixnum case of m and mod put it into the right range"; too      *)
(* large remainders are corrected in m instead of in res.                   *)
fmod(x, m) == LET res == CRem(x, m)
              IN IF res > m \div 2 THEN x - m ELSE IF res < -(m \div 2) THEN res + m ELSE res

(***************************************************************************)
(* A computation with coefficients: each is read, which reduces it, or is    *)
(* the sum, difference or product of two.                                   *)
(***************************************************************************)

Residue(x) == IF modulus = Nil THEN x ELSE x % modulus
Sets(t, c, e) == /\ modulus = Nil => e \in -MaxInt .. MaxInt
                 /\ coef' = [coef EXCEPT ![t] = c]
                 /\ exact' = [exact EXCEPT ![t] = Residue(e)]
                 /\ UNCHANGED modulus

ModInit == /\ modulus \in Moduls
           /\ coef = [r \in Reg |-> 0] /\ exact = [r \in Reg |-> 0] /\ negative = FALSE

ReadIn(t, x) == /\ Sets(t, mcmod(x, modulus), x)
                /\ negative' = (negative \/ x < -Half)
Plus(t, r, s) == /\ Sets(t, cplus(coef[r], coef[s], modulus), exact[r] + exact[s])
                 /\ UNCHANGED negative
Minus(t, r, s) == /\ Sets(t, cdifference(coef[r], coef[s], modulus), exact[r] - exact[s])
                  /\ UNCHANGED negative
Times(t, r, s) == /\ Sets(t, ctimes(coef[r], coef[s], modulus), exact[r] * exact[s])
                  /\ UNCHANGED negative

ModNext == \E t \in Reg : \/ \E x \in Input : ReadIn(t, x)
                          \/ \E r, s \in Reg : Plus(t, r, s) \/ Minus(t, r, s) \/ Times(t, r, s)

ModSpec == ModInit /\ [][ModNext]_modvars

(***************************************************************************)
(* Properties.                                                             *)
(***************************************************************************)

ModTypeOK == /\ modulus \in Moduls /\ negative \in BOOLEAN
             /\ coef \in [Reg -> Int] /\ exact \in [Reg -> Int]

(* A modulus so large that two remainders may overflow when they are added. *)
Risky == 2 * (modulus - 1) > Half /\ FIXNUMP(modulus)

(* Without a modulus the coefficients are exact, however the words overflow; *)
(* with one they are right modulo it.  The exception: mcmod leaves a         *)
(* negative bignum unreduced, and cplus and cdifference may then overflow,   *)
(* but only if the modulus is Risky.                                        *)
CoefExact == (negative /\ Risky) \/ (\A r \in Reg : Residue(coef[r]) = exact[r])

(* With a fixnum modulus, coefficients are in the symmetric range, up to     *)
(* those that come from negative bignums.                                   *)
CoefReduced == modulus # Nil /\ FIXNUMP(modulus) =>
  \A r \in Reg : /\ coef[r] \in -(modulus - 1) .. modulus \div 2
                 /\ ~negative => coef[r] >= -(modulus \div 2)

(* The tests polynomial arithmetic rests on.  A coefficient is 0 exactly if  *)
(* it stands for 0 (or leading terms would not vanish); two are equal        *)
(* exactly if they stand for the same, but only for an odd modulus: m / 2    *)
(* and -m / 2 are both in the range of an even one.                         *)
TestsDecide == ~negative /\ (modulus = Nil \/ FIXNUMP(modulus)) =>
  \A r, s \in Reg : /\ coef[r] = 0 <=> exact[r] = 0
                    /\ modulus % 2 = 1 => (coef[r] = coef[s] <=> exact[r] = exact[s])
=============================================================================
