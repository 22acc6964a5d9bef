SPECIFICATION EvalSpec
CONSTANTS
  x = x
  y = y
  Var = {x, y}
  Val = {a}
  Unbound = Unbound
  Fun = {}
  Def = {}
  Undefined = Undefined
  VarLists <- Two
  Irregular = {"earlyExit", "astray", "badLocal"}
  MaxFrames = 2
  MaxLoclist = 3
  MaxSaved = 0
CONSTRAINT Bounded
INVARIANTS EvalTypeOK NoIllegalReturn LoclistAboveMarks CallStackExact FramesOwnBindings
PROPERTIES SavedValuesUntouched ImplementsShallowBinding EvaluationResumes
