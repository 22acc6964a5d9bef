----------------------------- MODULE WinKillArgs -----------------------------
(***************************************************************************)
(* How the two senders of signals on MS Windows read their command line     *)
(* (src/interfaces/xmaxima/win32: main of winkill.c, Tcl_WinKillCmd of       *)
(* tclwinkill.c).  A word of a command line is one of the few Texts; what    *)
(* C does with it (skip a character, sscanf, strcmp) is a table.            *)
(***************************************************************************)
EXTENDS Integers, Sequences, SequencesExt

NoSig == -1

(* sigNames: the names the signal.h of a Windows build defines, in the order *)
(* of the table.                                                            *)
sigNames == << [signumber |-> 2,  name |-> "INT"],  [signumber |-> 4,  name |-> "ILL"],
               [signumber |-> 22, name |-> "ABRT"], [signumber |-> 8,  name |-> "FPE"],
               [signumber |-> 11, name |-> "SEGV"], [signumber |-> 15, name |-> "TERM"] >>
Sentinel == Len(sigNames) + 1

Sig == {sigNames[i].signumber : i \in DOMAIN sigNames}

(* &arg[1]: the text without its first character. *)
skip1 == [t \in {"-INT", "-TERM", "-15", "-HUP", "INT", "TERM", "15"} |->
            CASE t = "-INT" -> "INT" [] t = "-TERM" -> "TERM" [] t = "-15" -> "15"
              [] t = "-HUP" -> "HUP" [] t = "INT" -> "NT" [] t = "TERM" -> "ERM"
              [] t = "15" -> "5"]
Texts == DOMAIN skip1

(* What sscanf(in, "%d", &sig) stores; sig is left alone if it finds no number. *)
IsNumber(in) == in \in {"15", "5"}
scanned(in) == IF in = "15" THEN 15 ELSE 5

(* The search of sigNames from sigNamePtr on: it stops at the name or at the *)
(* sentinel.                                                                *)
Search(in, from) ==
  LET hits == {i \in from .. Len(sigNames) : sigNames[i].name = in}
  IN IF hits = {} THEN Sentinel ELSE CHOOSE i \in hits : \A j \in hits : i <= j

(* One signal word: sig and sigNamePtr live on from the word before. *)
Read(st, in) ==
  IF IsNumber(in) THEN [st EXCEPT !.sig = scanned(in)]
  ELSE LET i == Search(in, st.ptr)
       IN [st EXCEPT !.ptr = i,
                     !.sig = IF i = Sentinel THEN @ ELSE sigNames[i].signumber]

Start == [sig |-> NoSig, ptr |-> 1]

(* winkill -SIGNAL pid: the signal, or NoSig for the usage message. *)
WinkillSig(text) == IF text \in {"INT", "TERM", "15"} THEN NoSig   \* argv[1][0] != '-'
                    ELSE Read(Start, skip1[text]).sig

(* The options of the Tcl command, a sequence of [opt, val]: the signals to  *)
(* set and the process, or ok = FALSE after the goto USAGE.                  *)
Option(st, o) ==
  CASE ~st.ok -> st
    [] st.ok /\ o.opt = "-signal" ->
         LET r == Read([sig |-> st.sig, ptr |-> st.ptr], skip1[o.val])
         IN [st EXCEPT !.sig = r.sig, !.ptr = r.ptr, !.ok = r.sig >= 0,
                       !.value = IF r.sig >= 0 THEN @ \cup {r.sig} ELSE @]
    [] st.ok /\ o.opt = "-pid" -> [st EXCEPT !.pid = <<o.val>>]
    [] OTHER -> [st EXCEPT !.ok = FALSE]

TclOptions(opts) ==
  FoldLeft(Option, [sig |-> NoSig, ptr |-> 1, value |-> {}, pid |-> <<>>, ok |-> TRUE], opts)
=============================================================================
