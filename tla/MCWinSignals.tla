---------------------------- MODULE MCWinSignals ----------------------------
(***************************************************************************)
(* WinSignals with one pid, which successive Maximas of both kinds use, one  *)
(* winkill.exe at a time and the Tcl command: with the monitor, three        *)
(* parties that update the word.                                            *)
(***************************************************************************)
EXTENDS WinSignals

CONSTANTS p1

ToSignal(text) == [opt |-> "-signal", val |-> text]
ToPid(p) == [opt |-> "-pid", val |-> p]

Commands == {"-INT", "-TERM"}
TclCommands == {<<ToPid(p1)>>, <<ToPid(p1), ToSignal("-TERM"), ToSignal("-INT")>>}
=============================================================================
