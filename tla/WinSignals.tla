----------------------------- MODULE WinSignals -----------------------------
(***************************************************************************)
(* Interrupting Maxima on MS Windows (src/interfaces/xmaxima/win32).         *)
(*                                                                         *)
(* A Maxima process shares a word of memory under a name made of its pid     *)
(* (winkill_lib.c); a bit of the word is a pending signal.  The program      *)
(* winkill (winkill.c), started once per signal by the GUI, and the Tcl      *)
(* command winkill in the GUI itself (tclwinkill.c) open the memory by name  *)
(* and set bits.  A monitor thread of Maxima (win_signals.lisp) polls the    *)
(* word, clears the bit it saw and interrupts the main thread.               *)
(*                                                                         *)
(* Memory lives as long as somebody has it open, whoever created it; a       *)
(* process that creates memory under a name in use gets the existing memory, *)
(* contents and all.  GCL's own shared memory is outside this repository:    *)
(* its receiver is taken to be the one winkill_lib was copied from, so the   *)
(* two kinds of Maxima differ only in the name they use.                     *)
(*                                                                         *)
(* *at |= value and *at &= ~mask compile to a load and a store, or to one    *)
(* instruction; indivisible says that nothing can come between the two.      *)
(***************************************************************************)
EXTENDS WinKillArgs, FiniteSets

CONSTANTS Pid,          \* process ids; they are used again
          Winkill,      \* the winkill.exe processes that may run at a time
          Command,      \* first arguments of winkill.exe
          TclCommand,   \* option lists of the Tcl command
          MaxInterps    \* bound on the Tcl interpreters that load the command

ASSUME WinAssumption ==
  /\ Pid # {} /\ Pid \cap Winkill = {} /\ "wish" \notin Pid \cup Winkill /\ MaxInterps \in Nat
  /\ \A text \in Command : WinkillSig(text) # NoSig => WinkillSig(text) \in 0 .. 31
  /\ \A opts \in TclCommand :
       /\ TclOptions(opts).value \subseteq 0 .. 31                  \* bits of an int
       /\ TclOptions(opts).pid # <<>> => TclOptions(opts).pid[1] \in Pid

VARIABLES indivisible, \* see above: decided by compiler and machine, once
          proc,        \* [Pid -> Kind \cup {"none"}]: the Maxima that runs under a pid
          initialised, \* [Pid -> BOOLEAN]: its is_shared_memory_initialised
          monitor,     \* [Pid -> ...]: where its monitor thread is, and its register
          word,        \* [Kind -> [Pid -> ...]]: the memory of that name, or Gone
          open,        \* [Kind -> [Pid -> set of those who have it open]]
          winkill,     \* [Winkill -> ...]: where each winkill.exe is
          wish,        \* the GUI: refcount, sharedMemoryPtr list, the command it runs
          sent         \* [Kind -> [Pid -> signals sent since the memory exists]]

winvars == <<indivisible, proc, initialised, monitor, word, open, winkill, wish, sent>>

Kind == {"gcl", "maxima"}
SIGINT == 2
SIGTERM == 15
Gone == {NoSig}         \* no memory of that name
Bits == 0 .. 31
Register == SUBSET Bits

MonitorAt == {"off", "sigint", "resetInt", "storeInt", "sigterm", "resetTerm", "storeTerm"}
IdleWinkill == [at |-> "idle", value |-> {}, kind |-> "gcl", pid |-> CHOOSE p \in Pid : TRUE,
                reg |-> {}]
NewWish == [refcount |-> 0, list |-> <<>>, leaked |-> {}, at |-> "idle", value |-> {},
            pid |-> CHOOSE p \in Pid : TRUE, reg |-> {}]

WinInit == /\ indivisible \in BOOLEAN
           /\ proc = [p \in Pid |-> "none"] /\ initialised = [p \in Pid |-> FALSE]
           /\ monitor = [p \in Pid |-> [at |-> "off", reg |-> {}]]
           /\ word = [k \in Kind |-> [p \in Pid |-> Gone]]
           /\ sent = [k \in Kind |-> [p \in Pid |-> {}]]
           /\ open = [k \in Kind |-> [p \in Pid |-> {}]]
           /\ winkill = [w \in Winkill |-> IdleWinkill]
           /\ wish = NewWish

(***************************************************************************)
(* Memory: OpenFileMapping, CreateFileMapping, CloseHandle.                  *)
(***************************************************************************)

Exists(k, p) == open[k][p] # {}
Opened(k, p, h) == /\ open' = [open EXCEPT ![k][p] = @ \cup {h}]
                   /\ UNCHANGED <<word, sent>>
Created(k, p, h) == /\ open' = [open EXCEPT ![k][p] = @ \cup {h}]
                    /\ word' = [word EXCEPT ![k][p] = IF Exists(k, p) THEN @ ELSE {}]
                    /\ sent' = [sent EXCEPT ![k][p] = IF Exists(k, p) THEN @ ELSE {}]
(* Mutant: the memory outlives those who have it open. *)
ClosedKept(k, P, h) ==
  /\ open' = [open EXCEPT ![k] = [p \in Pid |-> IF p \in P THEN @[p] \ {h} ELSE @[p]]]
  /\ UNCHANGED <<word, sent>>
(* h closes what it has open of kind k under the pids of P. *)
Closed(k, P, h) ==
  /\ open' = [open EXCEPT ![k] = [p \in Pid |-> IF p \in P THEN @[p] \ {h} ELSE @[p]]]
  /\ word' = [word EXCEPT ![k] = [p \in Pid |-> IF p \in P /\ open[k][p] \subseteq {h}
                                                THEN Gone ELSE @[p]]]
  /\ sent' = [sent EXCEPT ![k] = [p \in Pid |-> IF p \in P /\ open[k][p] \subseteq {h}
                                                THEN {} ELSE @[p]]]
memory == <<word, open, sent>>

(***************************************************************************)
(* Maxima: winkill_lib.c and the monitor thread.                             *)
(***************************************************************************)

(* init_shared_memory, before the monitor starts: the mapping may fail, or    *)
(* its view; then the flag goes back to FALSE, but the handle stays open.    *)
InitSharedMemory(p, k) ==
  /\ proc[p] = "none"
  /\ proc' = [proc EXCEPT ![p] = k]
  /\ monitor' = [monitor EXCEPT ![p] = [at |-> "sigint", reg |-> {}]]
  /\ \/ Created(k, p, p) /\ initialised' = [initialised EXCEPT ![p] = TRUE]
     \/ Created(k, p, p) /\ UNCHANGED initialised
     \/ UNCHANGED <<memory, initialised>>
  /\ UNCHANGED <<indivisible, winkill, wish>>

(* The process ends, by $quit or by itself at any time: close_shared_memory. *)
MaximaExit(p) ==
  /\ proc[p] # "none"
  /\ Closed(proc[p], {p}, p)
  /\ proc' = [proc EXCEPT ![p] = "none"]
  /\ initialised' = [initialised EXCEPT ![p] = FALSE]
  /\ monitor' = [monitor EXCEPT ![p] = [at |-> "off", reg |-> {}]]
  /\ UNCHANGED <<indivisible, winkill, wish>>

MonitorGoes(p, from, to) == /\ monitor[p].at = from
                            /\ monitor' = [monitor EXCEPT ![p] = [at |-> to, reg |-> {}]]
Own(p) == word[proc[p]][p]
SetOwn(p, S) == word' = [word EXCEPT ![proc[p]][p] = S]

(* read_sm_sigint, read_sm_sigterm: 1 if the bit is set in memory that is mapped. *)
ReadSm(p, from, sig, hit, miss) ==
  /\ MonitorGoes(p, from, IF initialised[p] /\ sig \in Own(p) THEN hit ELSE miss)
  /\ UNCHANGED <<indivisible, proc, initialised, memory, winkill, wish>>

(* Mutant: the reset of reset_shared_memory, which clears the whole word. *)
ResetSmAll(p, from, sig, store, to) ==
  /\ MonitorGoes(p, from, to) /\ SetOwn(p, {})
  /\ UNCHANGED <<indivisible, proc, initialised, open, sent, winkill, wish>>
(* reset_sm_sigint, reset_sm_sigterm: *at &= ~mask, then the interrupt. *)
ResetSm(p, from, sig, store, to) ==
  /\ IF indivisible
     THEN MonitorGoes(p, from, to) /\ SetOwn(p, Own(p) \ {sig})
     ELSE /\ monitor[p].at = from
          /\ monitor' = [monitor EXCEPT ![p] = [at |-> store, reg |-> Own(p) \ {sig}]]
          /\ UNCHANGED word
  /\ UNCHANGED <<indivisible, proc, initialised, open, sent, winkill, wish>>
StoreSm(p, from, to) ==
  /\ MonitorGoes(p, from, to) /\ SetOwn(p, monitor[p].reg)
  /\ UNCHANGED <<indivisible, proc, initialised, open, sent, winkill, wish>>

(* Mutant: as long as it sees no SIGINT, the monitor sleeps at once. *)
MonitorStepIntFirst(p) ==
  \/ ReadSm(p, "sigint", SIGINT, "resetInt", "sigint")
  \/ ResetSm(p, "resetInt", SIGINT, "storeInt", "sigterm")
  \/ StoreSm(p, "storeInt", "sigterm")
  \/ ReadSm(p, "sigterm", SIGTERM, "resetTerm", "sigint")
  \/ ResetSm(p, "resetTerm", SIGTERM, "storeTerm", "sigint")
  \/ StoreSm(p, "storeTerm", "sigint")
(* One pass of the loop of monitor-shared-memory.  It goes on after it has     *)
(* interrupted the main thread, for $quit too: MaximaExit may come later.     *)
MonitorStep(p) ==
  \/ ReadSm(p, "sigint", SIGINT, "resetInt", "sigterm")
  \/ ResetSm(p, "resetInt", SIGINT, "storeInt", "sigterm")
  \/ StoreSm(p, "storeInt", "sigterm")
  \/ ReadSm(p, "sigterm", SIGTERM, "resetTerm", "sigint")
  \/ ResetSm(p, "resetTerm", SIGTERM, "storeTerm", "sigint")
  \/ StoreSm(p, "storeTerm", "sigint")

(***************************************************************************)
(* winkill.exe: one process per signal.                                    *)
(***************************************************************************)

Goes(w, r) == winkill' = [winkill EXCEPT ![w] = r]
HasOpen(w) == winkill[w].at \in {"mapped", "loaded", "stored"}

(* The command line; a bad one prints the usage and exits. *)
WinkillStart(w, text, p) ==
  /\ winkill[w].at = "idle" /\ WinkillSig(text) # NoSig
  /\ Goes(w, [IdleWinkill EXCEPT !.at = "tryGcl", !.value = {WinkillSig(text)}, !.pid = p])
  /\ UNCHANGED <<indivisible, proc, initialised, monitor, memory, wish>>

(* First the memory of GCL, then that of the other Lisps; if that fails, or  *)
(* the view cannot be mapped, ErrorHandler exits.                           *)
WinkillOpen(w) ==
  LET k == IF winkill[w].at = "tryGcl" THEN "gcl" ELSE "maxima"
      p == winkill[w].pid
  IN /\ winkill[w].at \in {"tryGcl", "tryMaxima"}
     /\ \/ /\ Exists(k, p) /\ Opened(k, p, w)
           /\ Goes(w, [winkill[w] EXCEPT !.at = "mapped", !.kind = k])
        \/ /\ Exists(k, p) /\ Goes(w, IdleWinkill) /\ UNCHANGED memory
        \/ /\ ~Exists(k, p) /\ UNCHANGED memory
           /\ Goes(w, IF k = "gcl" THEN [winkill[w] EXCEPT !.at = "tryMaxima"] ELSE IdleWinkill)
     /\ UNCHANGED <<indivisible, proc, initialised, monitor, wish>>

Sends(k, p, S) == sent' = [sent EXCEPT ![k][p] = @ \cup S]

(* Mutant: the view is closed before the new value is stored.  What is sent   *)
(* is recorded as in WinkillLoad.                                             *)
WinkillLoadAndClose(w) ==
  LET r == winkill[w] IN
  /\ r.at = "mapped" /\ Sends(r.kind, r.pid, r.value)
  /\ Goes(w, [r EXCEPT !.at = "loaded", !.value = {}, !.reg = word[r.kind][r.pid] \cup r.value])
  /\ open' = [open EXCEPT ![r.kind][r.pid] = @ \ {w}]
  /\ word' = [word EXCEPT ![r.kind][r.pid] = IF open[r.kind][r.pid] = {w} THEN Gone ELSE @]
  /\ UNCHANGED <<indivisible, proc, initialised, monitor, wish>>

(* *at |= value. *)
WinkillLoad(w) ==
  LET r == winkill[w] IN
  /\ r.at = "mapped" /\ Sends(r.kind, r.pid, r.value)
  /\ IF indivisible
     THEN /\ word' = [word EXCEPT ![r.kind][r.pid] = @ \cup r.value]
          /\ Goes(w, [r EXCEPT !.at = "stored", !.value = {}])
     ELSE /\ Goes(w, [r EXCEPT !.at = "loaded", !.value = {},
                               !.reg = word[r.kind][r.pid] \cup r.value])
          /\ UNCHANGED word
  /\ UNCHANGED <<indivisible, proc, initialised, monitor, open, wish>>
WinkillStore(w) ==
  LET r == winkill[w] IN
  /\ r.at = "loaded"
  /\ word' = [word EXCEPT ![r.kind][r.pid] = r.reg]
  /\ Goes(w, [r EXCEPT !.at = "stored", !.reg = {}])
  /\ UNCHANGED <<indivisible, proc, initialised, monitor, open, sent, wish>>

(* close_shared_memory of winkill.c, and exit. *)
WinkillExit(w) ==
  /\ winkill[w].at = "stored"
  /\ Closed(winkill[w].kind, {winkill[w].pid}, w)
  /\ Goes(w, IdleWinkill)
  /\ UNCHANGED <<indivisible, proc, initialised, monitor, wish>>

WinkillStep(w) == WinkillOpen(w) \/ WinkillLoad(w) \/ WinkillStore(w) \/ WinkillExit(w)

(***************************************************************************)
(* The Tcl command: one thread, so a command ends before another begins.    *)
(***************************************************************************)

Listed == Range(wish.list)

(* Tclwinkill_Init, once per interpreter. *)
TclwinkillInit ==
  /\ wish.at = "idle" /\ wish.refcount < MaxInterps
  /\ wish' = [wish EXCEPT !.refcount = @ + 1]
  /\ UNCHANGED <<indivisible, proc, initialised, monitor, memory, winkill>>

(* Mutant: sharedMemoryPtr is not reset. *)
TclCloseKeepsList ==
  /\ wish.at = "idle" /\ wish.refcount > 0
  /\ wish' = [wish EXCEPT !.refcount = @ - 1]
  /\ IF wish.refcount = 1 THEN Closed("gcl", Listed \ wish.leaked, "wish") ELSE UNCHANGED memory
  /\ UNCHANGED <<indivisible, proc, initialised, monitor, winkill>>
(* The command is deleted with its interpreter: the list is freed with the   *)
(* last one, but sharedMemoryPtr is reset every time.                        *)
TclClose ==
  /\ wish.at = "idle" /\ wish.refcount > 0
  /\ IF wish.refcount = 1
     THEN /\ Closed("gcl", Listed \ wish.leaked, "wish")
          /\ wish' = [wish EXCEPT !.refcount = 0, !.list = <<>>]
     ELSE /\ wish' = [wish EXCEPT !.refcount = @ - 1, !.list = <<>>,
                                  !.leaked = @ \cup Listed]
          /\ UNCHANGED memory
  /\ UNCHANGED <<indivisible, proc, initialised, monitor, winkill>>

(* close_shared_memory1 at exit; the system closes what was forgotten. *)
TclExit ==
  /\ wish.at = "idle"
  /\ Closed("gcl", Listed \cup wish.leaked, "wish")
  /\ wish' = NewWish
  /\ UNCHANGED <<indivisible, proc, initialised, monitor, winkill>>

(* A command of Tcl_WinKillCmd that gets to its signal word through an entry  *)
(* of the list.                                                             *)
TclFound(opts) ==
  LET o == TclOptions(opts) IN
  /\ wish.at = "idle" /\ wish.refcount > 0
  /\ o.ok /\ o.pid # <<>> /\ o.pid[1] \in Listed
  /\ wish' = [wish EXCEPT !.at = "mapped", !.pid = o.pid[1], !.value = o.value]
  /\ UNCHANGED <<indivisible, proc, initialised, monitor, memory, winkill>>

(* No entry: getSharedMemoryPtr opens GCL's memory.  A failure to map leaks  *)
(* the handle.  After success the function ends without a return: the caller *)
(* may get the new entry, NULL (an error message), or a wild pointer, on     *)
(* which the GUI dies.                                                      *)
TclOpen(opts) ==
  LET o == TclOptions(opts)
      p == o.pid[1]
  IN /\ wish.at = "idle" /\ wish.refcount > 0
     /\ o.ok /\ o.pid # <<>> /\ p \notin Listed /\ Exists("gcl", p)
     /\ \/ /\ Opened("gcl", p, "wish")
           /\ \/ wish' = [wish EXCEPT !.leaked = @ \cup {p}]
              \/ wish' = [wish EXCEPT !.list = <<p>> \o @]
              \/ wish' = [wish EXCEPT !.list = <<p>> \o @, !.at = "mapped", !.pid = p,
                                      !.value = o.value]
        \/ Closed("gcl", Listed \cup wish.leaked, "wish") /\ wish' = NewWish
     /\ UNCHANGED <<indivisible, proc, initialised, monitor, winkill>>

TclLoad ==
  /\ wish.at = "mapped" /\ Sends("gcl", wish.pid, wish.value)
  /\ IF indivisible
     THEN /\ word' = [word EXCEPT !["gcl"][wish.pid] = @ \cup wish.value]
          /\ wish' = [wish EXCEPT !.at = "idle", !.value = {}]
     ELSE /\ wish' = [wish EXCEPT !.at = "loaded", !.value = {},
                                  !.reg = word["gcl"][wish.pid] \cup wish.value]
          /\ UNCHANGED word
  /\ UNCHANGED <<indivisible, proc, initialised, monitor, open, winkill>>
TclStore ==
  /\ wish.at = "loaded"
  /\ word' = [word EXCEPT !["gcl"][wish.pid] = wish.reg]
  /\ wish' = [wish EXCEPT !.at = "idle", !.reg = {}]
  /\ UNCHANGED <<indivisible, proc, initialised, monitor, open, sent, winkill>>

TclStep == TclLoad \/ TclStore

WinNext == \/ \E p \in Pid : \/ \E k \in Kind : InitSharedMemory(p, k)
                             \/ MaximaExit(p)
                             \/ MonitorStep(p)
           \/ \E w \in Winkill : \/ \E text \in Command, p \in Pid : WinkillStart(w, text, p)
                                 \/ WinkillStep(w)
           \/ TclwinkillInit \/ TclClose \/ TclExit
           \/ \E opts \in TclCommand : TclFound(opts) \/ TclOpen(opts)
           \/ TclStep

(* The monitor thread is never stopped, and a sender that has begun runs on; *)
(* nobody has to start a Maxima or send a signal.                            *)
WinFairness == /\ \A p \in Pid : WF_winvars(MonitorStep(p))
               /\ \A w \in Winkill : WF_winvars(WinkillStep(w))
               /\ WF_winvars(TclStep)
WinSpec == WinInit /\ [][WinNext]_winvars /\ WinFairness

(***************************************************************************)
(* Properties.                                                             *)
(***************************************************************************)

Sender == [at : {"idle", "tryGcl", "tryMaxima", "mapped", "loaded", "stored"},
           value : Register, kind : Kind, pid : Pid, reg : Register]

(* The types of the variables; memory exists exactly while somebody has it   *)
(* open.                                                                    *)
WinTypeOK ==
  /\ indivisible \in BOOLEAN
  /\ proc \in [Pid -> Kind \cup {"none"}] /\ initialised \in [Pid -> BOOLEAN]
  /\ monitor \in [Pid -> [at : MonitorAt, reg : Register]]
  /\ word \in [Kind -> [Pid -> Register \cup {Gone}]]
  /\ sent \in [Kind -> [Pid -> Register]]
  /\ open \in [Kind -> [Pid -> SUBSET (Pid \cup Winkill \cup {"wish"})]]
  /\ \A k \in Kind, p \in Pid : Exists(k, p) <=> word[k][p] # Gone
  /\ winkill \in [Winkill -> Sender]
  /\ wish \in [refcount : 0 .. MaxInterps, list : Seq(Pid), leaked : SUBSET Pid,
               at : {"idle", "mapped", "loaded"}, value : Register, pid : Pid, reg : Register]

(* A bit in the word, or in the register of somebody who is about to store   *)
(* it, stands for a signal sent to this very memory: read-modify-write       *)
(* cycles that overlap, processes that die and names that come back may      *)
(* lose or repeat a signal, but never make one up.                          *)
NoSignalFromNowhere ==
  /\ \A k \in Kind, p \in Pid : Exists(k, p) => word[k][p] \subseteq sent[k][p]
  /\ \A p \in Pid : initialised[p] => monitor[p].reg \subseteq sent[proc[p]][p]
  /\ \A w \in Winkill : winkill[w].reg \subseteq sent[winkill[w].kind][winkill[w].pid]
  /\ wish.reg \subseteq sent["gcl"][wish.pid]

(* Whoever uses memory has it open: the mapping of the monitor, of a         *)
(* winkill.exe about to store and of each entry in the list of the GUI is    *)
(* valid, no entry is there twice, and none outlives the last interpreter.   *)
ViewsAreOpen ==
  /\ \A p \in Pid : initialised[p] => p \in open[proc[p]][p]
  /\ \A w \in Winkill : HasOpen(w) => w \in open[winkill[w].kind][winkill[w].pid]
  /\ \A p \in Listed : "wish" \in open["gcl"][p]
  /\ wish.at # "idle" => wish.pid \in Listed
  /\ Cardinality(Listed) = Len(wish.list)
  /\ wish.list # <<>> => wish.refcount > 0

Clearing(p, s) == \/ s = SIGINT /\ monitor[p].at \in {"resetInt", "storeInt"}
                  \/ s = SIGTERM /\ monitor[p].at \in {"resetTerm", "storeTerm"}
(* The step in which the monitor of p takes s: after it comes the interrupt. *)
Takes(p, s) == Clearing(p, s) /\ ~Clearing(p, s)'

OnlyTaken(k, p) == word'[k][p] # Gone =>
  \A s \in word[k][p] \ (word'[k][p] \cup Gone) : proc[p] = k /\ Takes(p, s)
OnlySent(k, p) == word'[k][p] # Gone =>
  \A s \in word'[k][p] \ word[k][p] :
    \/ \E w \in Winkill : winkill[w].at = "mapped" /\ winkill'[w].at = "stored" /\ s \in winkill[w].value
    \/ wish.at = "mapped" /\ wish'.at = "idle" /\ s \in wish.value

(* If updates of the word are indivisible, a signal leaves the word only     *)
(* when the monitor takes it and enters it only when it is sent: none is     *)
(* lost, and none is delivered twice.                                       *)
EachSignalOnce == [][indivisible => \A k \in Kind, p \in Pid : OnlyTaken(k, p) /\ OnlySent(k, p)]_winvars

(* "Meant to resemble kill under unix ... we write into it the flag of the   *)
(* signal we want to send.  That process has to frequently check that memory *)
(* location" (winkill.c): for the Maximas that use winkill_lib, no signal    *)
(* leaves the word unless the monitor takes it, however updates compile.     *)
SignalsNotLost == [][\A p \in Pid : OnlyTaken("maxima", p)]_winvars

Targets(w, p, s) == /\ winkill[w].at = "mapped" /\ s \in winkill[w].value
                    /\ winkill[w].pid = p /\ winkill[w].kind = proc[p] /\ initialised[p]

(* If updates are indivisible, a SIGINT or SIGTERM whose winkill.exe has     *)
(* opened the memory of a running Maxima makes the monitor clear its bit and  *)
(* interrupt the main thread, unless that Maxima ends first.                 *)
SignalReachesMaxima ==
  \A w \in Winkill, p \in Pid, s \in {SIGINT, SIGTERM} :
    indivisible /\ Targets(w, p, s) ~> Clearing(p, s) \/ proc[p] = "none"
=============================================================================
