------------------------------ MODULE Debugger ------------------------------
(***************************************************************************)
(* The debugger's break loop over the bindings (src/mdebug.lisp:             *)
(* break-dbm-loop, break-frame, frame-info, remove-bindings,                 *)
(* restore-bindings, break-quit), with debugmode on.                        *)
(*                                                                         *)
(* To show an outer frame the debugger takes bindings off bindlist down to   *)
(* the tail that the frame had when it called the next one, and puts them     *)
(* back before it shows another frame or leaves.  Putting them back makes    *)
(* new conses, and a tail is recognised by eq: whoever keeps the old tail     *)
(* (the call stack, a block that waits for a return) does not find it again. *)
(*                                                                         *)
(* A pointer to a tail of bindlist is the length of the tail, and Stale once  *)
(* its first cons has been dropped; the empty tail is always the same.       *)
(***************************************************************************)
EXTENDS ShallowBinding

CONSTANTS VarLists,   \* the parameter lists of the functions, the local variables of blocks
          Stale

ASSUME DebuggerAssumption == /\ VarLists \subseteq Seq(Var) \ {<<>>}
                             /\ Stale \notin Int

VARIABLES stack,    \* the Lisp stack: calls, blocks and break loops, the innermost last
          exit,     \* the stack position of the break loop a throw is bound for,
                    \* 0 for the tag macsyma-quit, -1 if nothing is thrown
          looks     \* history: how often an outer frame has been selected, up to 2

dvars == <<bvars, stack, exit, looks>>

None == -1
MacsymaQuit == 0

DbgInit == BindInit /\ stack = <<>> /\ exit = None /\ looks = 0

(* A call of a function whose body is a block, which has a record on the call  *)
(* stack, or a block with local variables, which has none.  below is bindlist  *)
(* as the record has it, inside what the block compares at a return; names is  *)
(* history, the names on bindlist at the entry.                             *)
Form(kind, vs) == [kind |-> kind, phase |-> "bind", vars |-> vs, todo |-> vs,
                   below |-> Len(bindlist), inside |-> Stale, names |-> bindlist]

(* A break loop, entered at a break-point or by an error; after an error it    *)
(* begins with break-frame 0.  names and had are history: the names on bindlist  *)
(* when it was entered, and those that were to be removed, with their contents. *)
Level(at) == [kind |-> at, phase |-> IF at = "error" THEN "restore" ELSE "prompt",
              next |-> "frame", frame |-> 0, target |-> 0,
              diffvars |-> <<>>, diffvals |-> <<>>, had |-> <<>>, names |-> bindlist]

Top == Last(stack)
Replaced(e) == Append(Front(stack), e)

IsForm(e) == e.kind \in {"call", "block"}
TopIs(form, phase) == stack # <<>> /\ IsForm(Top) = form /\ Top.phase = phase
InBody == exit = None /\ TopIs(TRUE, "body")
AtPrompt == exit = None /\ TopIs(FALSE, "prompt")
Evaluating == InBody \/ AtPrompt \/ (exit = None /\ stack = <<>>)

(* The pointers when the first n - 1 conses are all that is left. *)
Dropped(n) ==
  LET left(p) == IF p # Stale /\ p >= n THEN Stale ELSE p
  IN  [i \in DOMAIN stack |->
         IF IsForm(stack[i])
         THEN [stack[i] EXCEPT !.below = left(@), !.inside = left(@)]
         ELSE stack[i]]

(***************************************************************************)
(* The program, and what the user evaluates at a prompt.                   *)
(***************************************************************************)

Assign(v, x) == Evaluating /\ Mset(v, x) /\ UNCHANGED <<stack, exit, looks>>

(* Of variables that are not bound: of a bound one without a value the        *)
(* debugger could not read the value.                                       *)
RemvalueGlobal(v) == /\ Evaluating /\ v \notin Range(bindlist)
                     /\ Remvalue(v)
                     /\ UNCHANGED <<stack, exit, looks>>

(* mlambda and mprog, up to mbind. *)
Mlambda(vs) == /\ Evaluating
               /\ stack' = Append(stack, Form("call", vs))
               /\ UNCHANGED <<bvars, exit, looks>>

Mprog(vs) == /\ Evaluating
             /\ stack' = Append(stack, Form("block", vs))
             /\ UNCHANGED <<bvars, exit, looks>>

Mbind(x) ==
  /\ TopIs(TRUE, "bind")
  /\ MbindOne(Head(Top.todo), x)
  /\ stack' = Replaced(IF Len(Top.todo) = 1
                       THEN [Top EXCEPT !.phase = "body", !.todo = <<>>, !.inside = Len(bindlist) + 1]
                       ELSE [Top EXCEPT !.todo = Tail(@)])
  /\ UNCHANGED <<exit, looks>>

(* A call or a block ends, at its last expression or by a legal return. *)
Finish == /\ InBody
          /\ stack' = Replaced([Top EXCEPT !.phase = "unbind", !.todo = Reverse(Top.vars)])
          /\ UNCHANGED <<bvars, exit, looks>>

(* (not (eq bindl bindlist)): the return is an error. *)
IllegalReturn == /\ InBody /\ Top.inside # Len(bindlist)
                 /\ stack' = Append(stack, Level("error"))
                 /\ UNCHANGED <<bvars, exit, looks>>

UnbindOne ==
  /\ TopIs(TRUE, "unbind")
  /\ Munbind(Head(Top.todo))
  /\ LET rest == Dropped(Len(bindlist)) IN
     stack' = IF Len(Top.todo) = 1 THEN Front(rest)
              ELSE Append(Front(rest), [Last(rest) EXCEPT !.todo = Tail(@)])
  /\ UNCHANGED <<exit, looks>>

Positions(kinds) == {i \in DOMAIN stack : stack[i].kind \in kinds}
Calls == Positions({"call"})

(* In the body of a function, where the break-points are: a call is above the  *)
(* last break loop.                                                         *)
BreakPoint == /\ InBody
              /\ \E i \in Calls : \A j \in i .. Len(stack) : IsForm(stack[j])
              /\ stack' = Append(stack, Level("break"))
              /\ UNCHANGED <<bvars, exit, looks>>

(* merror enters the debugger wherever it is called, also at its prompt. *)
Merror == /\ Evaluating
          /\ stack' = Append(stack, Level("error"))
          /\ UNCHANGED <<bvars, exit, looks>>

(***************************************************************************)
(* The commands.                                                           *)
(***************************************************************************)

(* The n-th of a set of positions from above. *)
FromAbove(P, n) == CHOOSE i \in P : Cardinality({j \in P : j >= i}) = n

(* Mutant: the tail below the frame itself. *)
BdlistOfFrameBelow(n) == IF n >= Cardinality(Calls) THEN 0 ELSE stack[FromAbove(Calls, n + 1)].below

(* frame-info: bindlist as frame n had it when it called frame n - 1; nil if  *)
(* there is no frame n, which also goes for frame 0 outside every call.        *)
BdlistOf(n) == IF n >= Cardinality(Calls) THEN 0
               ELSE IF n = 0 THEN Len(bindlist) ELSE stack[FromAbove(Calls, n)].below

(* Every command begins with restore-bindings. *)
Command(next, n) ==
  /\ AtPrompt
  /\ stack' = Replaced([Top EXCEPT !.phase = "restore", !.next = next, !.frame = n])
  /\ UNCHANGED <<bvars, exit, looks>>

BreakFrame(n) == Command("frame", n)    \* :frame n
Resume == Command("resume", 0)          \* :resume, also after an error
ThrowTop == Command("top", 0)           \* :top
BreakQuit == Command("quit", 0)         \* :quit

(* Mutant: the last one removed first. *)
RestoreOneBackwards ==
  /\ TopIs(FALSE, "restore") /\ Top.diffvars # <<>>
  /\ MbindOne(Last(Top.diffvars), Last(Top.diffvals))
  /\ stack' = Replaced([Top EXCEPT !.diffvars = Front(@), !.diffvals = Front(@)])
  /\ UNCHANGED <<exit, looks>>

(* restore-bindings is mbind of the two lists. *)
RestoreOne ==
  /\ TopIs(FALSE, "restore") /\ Top.diffvars # <<>>
  /\ MbindOne(Head(Top.diffvars), Head(Top.diffvals))
  /\ stack' = Replaced([Top EXCEPT !.diffvars = Tail(@), !.diffvals = Tail(@)])
  /\ UNCHANGED <<exit, looks>>

Restored == TopIs(FALSE, "restore") /\ Top.diffvars = <<>>

(* The bindings beyond the tail p, with their contents. *)
Beyond(p) == LET n == IF p = Stale THEN 0 ELSE p
             IN  [i \in 1 .. Len(bindlist) - n |-> <<bindlist[n + i], ValueAt(bindlist[n + i], n + i)>>]

ShowFrame == LET p == BdlistOf(Top.frame) IN
  /\ Restored /\ Top.next = "frame"
  /\ stack' = Replaced([Top EXCEPT !.phase = "remove", !.target = p, !.had = Beyond(p)])
  /\ looks' = IF Top.frame > 0 THEN Min({looks + 1, 2}) ELSE looks
  /\ UNCHANGED <<bvars, exit>>

(* Mutant: the value is read when the variable is unbound. *)
RemoveOneReadsLate ==
  /\ TopIs(FALSE, "remove") /\ bindlist # <<>> /\ Top.target # Len(bindlist)
  /\ Munbind(Last(bindlist))
  /\ LET rest == Dropped(Len(bindlist)) IN
     stack' = Append(Front(rest), [Top EXCEPT !.diffvars = <<Last(bindlist)>> \o @,
                                              !.diffvals = <<value'[Last(bindlist)]>> \o @])
  /\ UNCHANGED <<exit, looks>>

(* One turn of the loop of remove-bindings. *)
RemoveOne ==
  /\ TopIs(FALSE, "remove") /\ bindlist # <<>> /\ Top.target # Len(bindlist)
  /\ Munbind(Last(bindlist))
  /\ LET rest == Dropped(Len(bindlist)) IN
     stack' = Append(Front(rest), [Top EXCEPT !.diffvars = <<Last(bindlist)>> \o @,
                                              !.diffvals = <<value[Last(bindlist)]>> \o @])
  /\ UNCHANGED <<exit, looks>>

(* Mutant: the end of the list does not end the loop. *)
RemoveDoneAtTail ==
  /\ TopIs(FALSE, "remove") /\ Top.target = Len(bindlist)
  /\ stack' = Replaced([Top EXCEPT !.phase = "prompt"])
  /\ UNCHANGED <<bvars, exit, looks>>

RemoveDone ==
  /\ TopIs(FALSE, "remove") /\ (bindlist = <<>> \/ Top.target = Len(bindlist))
  /\ stack' = Replaced([Top EXCEPT !.phase = "prompt"])
  /\ UNCHANGED <<bvars, exit, looks>>

(* The tag break-quit finds: *quit-tags* has an entry for every break loop,   *)
(* *break-level* only for those at break-points.                            *)
QuitTag ==
  LET errors == Cardinality(Positions({"error"})) IN
  IF Positions({"break"}) = {} \/ errors = 0 THEN MacsymaQuit
  ELSE CHOOSE i \in Positions({"break", "error"}) :
         Cardinality({j \in Positions({"break", "error"}) : j <= i}) = errors

(* The break loop is left.  To resume is to return from it, whether it was    *)
(* entered at a break-point or by an error.                                 *)
LeaveLevel ==
  /\ Restored /\ Top.next # "frame"
  /\ stack' = Front(stack)
  /\ exit' = CASE Top.next = "resume" -> None
               [] Top.next = "top" -> MacsymaQuit
               [] Top.next = "quit" -> QuitTag
               [] Top.next = "unwind" -> IF exit = Len(stack) THEN None ELSE exit
  /\ UNCHANGED <<bvars, looks>>

(* Mutant: restore-bindings is no cleanup form. *)
UnwindLevelUnprotected ==
  /\ exit > MacsymaQuit /\ TopIs(FALSE, "prompt")
  /\ stack' = Front(stack)
  /\ exit' = IF exit = Len(stack) THEN None ELSE exit
  /\ UNCHANGED <<bvars, looks>>

(* A throw passes a break loop, whose evaluation it leaves, ... *)
UnwindLevel ==
  /\ exit > MacsymaQuit /\ TopIs(FALSE, "prompt")
  /\ stack' = Replaced([Top EXCEPT !.phase = "restore", !.next = "unwind"])
  /\ UNCHANGED <<bvars, exit, looks>>

(* ... or a call or a block, ... *)
UnwindForm ==
  /\ exit # None /\ TopIs(TRUE, "body")
  /\ stack' = Replaced([Top EXCEPT !.phase = "unbind", !.todo = Reverse(Top.vars)])
  /\ UNCHANGED <<bvars, exit, looks>>

(* ... and macsyma-quit is caught by the next break loop, which goes on, or   *)
(* at top level.                                                            *)
CatchQuit == /\ exit = MacsymaQuit /\ (stack = <<>> \/ TopIs(FALSE, "prompt"))
             /\ exit' = None
             /\ UNCHANGED <<bvars, stack, looks>>

DebuggerSteps == \/ RestoreOne \/ ShowFrame \/ RemoveOne \/ RemoveDone \/ LeaveLevel
                 \/ UnwindLevel \/ UnwindForm \/ CatchQuit \/ UnbindOne
                 \/ \E x \in Val : Mbind(x)

DbgNext == \/ DebuggerSteps
           \/ \E v \in Var : RemvalueGlobal(v) \/ \E x \in Val : Assign(v, x)
           \/ \E vs \in VarLists : Mlambda(vs) \/ Mprog(vs)
           \/ Finish \/ IllegalReturn \/ BreakPoint \/ Merror
           \/ \E n \in 0 .. Cardinality(Calls) : BreakFrame(n)
           \/ Resume \/ ThrowTop \/ BreakQuit

DbgSpec == DbgInit /\ [][DbgNext]_dvars /\ WF_dvars(DebuggerSteps)

(***************************************************************************)
(* Properties.                                                             *)
(***************************************************************************)

(* The names on bindlist when entry i of the stack was entered, and now.     *)
NamesAt(i) == IF i \in DOMAIN stack THEN stack[i].names ELSE bindlist

(* What bindlist has become since an entry of the stack was entered: a call or *)
(* a block has bound its variables as far as it is, a break loop has taken the  *)
(* names on *diff-bindlist* off.                                            *)
BoundBy(e) == CASE e.phase = "bind" -> Len(e.vars) - Len(e.todo)
                [] e.phase = "body" -> Len(e.vars)
                [] e.phase = "unbind" -> Len(e.todo)

Follows(e, after) == IF IsForm(e) THEN after = e.names \o SubSeq(e.vars, 1, BoundBy(e))
                     ELSE e.names = after \o e.diffvars

(* However break loops and forms are nested, and at every step of a command or *)
(* a throw, bindlist is what the forms below have bound less what the break    *)
(* loops below have taken off: every munbind pops its own variable, and no     *)
(* exit from a break loop leaves a binding taken off (the unwind-protect of    *)
(* break-dbm-loop, mdebug.lisp:386).                                         *)
ListsFollowStack == /\ NamesAt(1) = <<>>
                    /\ \A i \in DOMAIN stack : Follows(stack[i], NamesAt(i + 1))

(* When a break loop has put the bindings back, to show another frame, to      *)
(* resume or as a throw passes it, they are the ones it took off, in their     *)
(* order and with the values they had, whatever was assigned, called and       *)
(* debugged at its prompt in between (restore-bindings, mdebug.lisp:710).      *)
RestoredAsRemoved ==
  Restored => LET n == Len(bindlist) - Len(Top.had)
              IN  /\ n >= 0
                  /\ \A i \in DOMAIN Top.had :
                       Top.had[i] = <<bindlist[n + i], ValueAt(bindlist[n + i], n + i)>>

(* As long as nobody selects an outer frame, the bindlist that a function's    *)
(* body, or a block anywhere inside a call, compares at a return is found again *)
(* after every break loop, and no legal return there is taken for an illegal one *)
(* (mlisp.lisp:2321).                                                       *)
ReturnsStayLegal == looks = 0 /\ InBody /\ Calls # {} => Top.inside = Len(bindlist)

(* What the manual says of return and of :resume: who only resumes may then    *)
(* return from the current block.  Not outside every call, where break-frame 0  *)
(* takes all bindings off (mdebug.lisp:38, 389).                             *)
ResumedReturnsLegal == looks = 0 /\ InBody => Top.inside = Len(bindlist)

(* The debugger always comes back to the evaluation of something: the loops   *)
(* over the bindings end, also on a tail that is not there any more, and every  *)
(* throw is caught.                                                         *)
AlwaysBack == []<>Evaluating

(* The comment on the call stack: to get to the current values in a frame,     *)
(* unbind bindlist down to the tail that is kept there (mdebug.lisp:21-22).    *)
(* The first outer frame that is selected sees the bindings made before it     *)
(* called the next one, no more and no less, also when that call, or the       *)
(* evaluation at the prompt of another break loop, has bound more since.  The   *)
(* second one may not: the first may have left its tail Stale.               *)
FrameShown ==
  looks = 1 /\ AtPrompt /\ 0 < Top.frame /\ Top.frame < Cardinality(Calls)
    => Len(bindlist) = Len(stack[FromAbove(Calls, Top.frame)].names)
=============================================================================
