SPECIFICATION EvalSpec
CONSTANTS
  x = x
  y = y
  Var = {x}
  Val = {a}
  Unbound = Unbound
  Fun = {f, g}
  Def = {d}
  Undefined = Undefined
  VarLists <- One
  Irregular = {}
  MaxFrames = 2
  MaxLoclist = 3
  MaxSaved = 2
CONSTRAINT Bounded
INVARIANTS SavedPropsRestored
PROPERTIES LocalsAreScoped
