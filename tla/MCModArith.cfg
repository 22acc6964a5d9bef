SPECIFICATION ModSpec
CONSTANTS
  Half = 16
  Moduli <- Every
  Input <- Read
  Reg = {r1, r2}
  MaxInt = 60
INVARIANTS CoefExact CoefReduced TestsDecide
