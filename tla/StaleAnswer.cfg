SPECIFICATION AskSpec
CONSTANTS
  a = a
  t = t
  Global = Global
  Initial = Initial
  Ctx = {Global, Initial, a, t}
  Fact <- Stored
  Composite <- Stored
  NoCtx = NoCtx
  NoMark = NoMark
  KillParents = FALSE
  Temp = {t}
  MaxFact = 3
  MaxFrames = 2
  Irregular = {}
INVARIANTS AnswersRemoved
