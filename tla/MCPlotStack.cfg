SPECIFICATION PlotSpec
CONSTANTS
  Half = 4
  sin <- MCsin
  cos <- MCcos
  sinh <- MCsinh
  cosh <- MCcosh
  Var <- MCVar
  Udf <- MCUdf
  Expr <- MCExpr
  Exprs <- MCExprs
  Probes <- MCProbes
  Code <- Layout
  Outcomes <- Function
INVARIANTS ValueIsMeaning FaultsShow StackBalanced CallSeesArguments
