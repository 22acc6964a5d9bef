SPECIFICATION DbgSpec
CONSTANTS
  x = x
  Var = {x}
  Val = {a, b}
  Unbound = Unbound
  Stale = Stale
  VarLists <- OneVar
  MaxForms = 3
  MaxLevels = 2
  MaxMixed = 4
CONSTRAINT Nested
INVARIANTS ValuesListExact ListsFollowStack RestoredAsRemoved ReturnsStayLegal FrameShown
PROPERTIES ImplementsDynamicScope AlwaysBack
