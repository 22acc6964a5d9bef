SPECIFICATION DbSpec
CONSTANTS
  a = a
  b = b
  Global = Global
  Initial = Initial
  Ctx = {Global, Initial, a, b}
  Fact <- Facts
  Composite <- OfExpressions
  NoCtx = NoCtx
  NoMark = NoMark
  KillParents = FALSE
CONSTRAINT UntilUntidy
PROPERTY ActiveNotKilled
