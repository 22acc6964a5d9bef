----------------------------- MODULE MCModArith -----------------------------
(***************************************************************************)
(* ModArith with words of five bits, every fixnum modulus, one bignum        *)
(* modulus and none; coefficients are read from both sides of the range of   *)
(* words.                                                                  *)
(***************************************************************************)
EXTENDS ModArith

Every == 1 .. 17
Read == {-33, -19, -17, -16, -5, 1, 9, 15, 16, 40}
=============================================================================
