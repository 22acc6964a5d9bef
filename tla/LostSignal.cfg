SPECIFICATION WinSpec
CONSTANTS
  p1 = p1
  Pid = {p1}
  Winkill = {w1}
  Command <- Commands
  TclCommand <- TclCommands
  MaxInterps = 0
PROPERTY SignalsNotLost
