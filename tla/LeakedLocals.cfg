SPECIFICATION EvalSpec
CONSTANTS
  x = x
  y = y
  Var = {x}
  Val = {a}
  Unbound = Unbound
  Fun = {f}
  Def = {d}
  Undefined = Undefined
  VarLists <- One
  Irregular = {"earlyExit"}
  MaxFrames = 2
  MaxLoclist = 3
  MaxSaved = 2
CONSTRAINT Bounded
INVARIANT SavedPropsRestored
