----------------------------- MODULE EvalFrames -----------------------------
(***************************************************************************)
(* Blocks, function calls, loops and the non-local exits through them       *)
(* (src/mlisp.lisp: mprog, mlambda, mdo, mdoin, $ev, mbind, $local, mlocal,  *)
(* munlocal, mreturn, mgo; src/suprv1.lisp: $errcatch, $catch, $throw, errlfun1;       *)
(* src/merror.lisp: merror; src/macsys.lisp: macsyma-top-level).             *)
(*                                                                         *)
(* The evaluator is recursive; its Lisp stack is the sequence stack, one    *)
(* frame per live form that binds something or catches an exit.  What an    *)
(* expression computes is left open: while a frame evaluates, any variable  *)
(* may be assigned, any form entered and any exit raised.  An exit unwinds  *)
(* the frames one by one, each running the cleanup its unwind-protect has   *)
(* reached, until one of them catches it.                                   *)
(*                                                                         *)
(* local() saves the properties of its symbols on mproplist and leaves      *)
(* their names in the head of loclist, where munlocal finds them.           *)
(***************************************************************************)
EXTENDS ShallowBinding

CONSTANTS Fun,        \* symbols with properties: names of functions
          Def,        \* what a property can hold
          Undefined,  \* no property
          VarLists,   \* the variable lists of blocks and functions
          Irregular   \* which of the awkward inputs below may happen

(* "earlyExit": a call or an ev is left after it has pushed its frame on     *)
(*              loclist and before an unwind-protect would pop it            *)
(* "astray":    local() when the head of loclist is not the frame of the     *)
(*              block or the function it belongs to                          *)
(* "badLocal":  local() of something that is no symbol, after some symbols   *)
ASSUME EvalAssumption == /\ Undefined \notin Def
                         /\ VarLists \subseteq Seq(Var)
                         /\ Irregular \subseteq {"earlyExit", "astray", "badLocal"}

VARIABLES prop,       \* [Fun -> Def \cup {Undefined}], the mprops properties
          loclist,    \* the names made local, one sequence per frame, head last
          mproplist,  \* the properties they had, head last
          inLocal,    \* a call of local() is under way ...
          saving,     \* ... and has gone through these symbols
          calls,      \* the height of *mlambda-call-stack*
          stack,      \* the frames, innermost last
          exit        \* the exit under way, or "none"

lvars == <<prop, loclist, mproplist, inLocal, saving>>
vars == <<bvars, lvars, calls, stack, exit>>

Props == Def \cup {Undefined}

Exits == {"error", "return", "go", "throw"}
Kinds == {"block", "call", "do", "ev", "errcatch", "catch"}

(* Where a frame evaluates expressions of the program; ev does so twice, the *)
(* first time with its variables bound to themselves.                       *)
Evaluates == {"args", "test", "body", "next", "mlocal", "pre"}
(* Where it works for itself: mbind, its undoing, munbind, munlocal, errlfun1 *)
Works == {"bind", "rebind", "undo", "retract", "unbind", "unlocal", "restore"}

Frame == [kind : Kinds, phase : Evaluates \cup Works,
          vars : Seq(Var),   \* what it binds
          bound : Nat,       \* how many of them are bound
          bindl : Nat,       \* the length of bindlist when it was entered
          locl : Nat,        \* the length of loclist when it was entered
          mlocp : BOOLEAN]   \* local() may be called

Top == Last(stack)
Live == 1..Len(stack)

SetPhase(ph) == [stack EXCEPT ![Len(stack)].phase = ph]

EvalInit == /\ BindInit
            /\ prop \in [Fun -> Props]
            /\ loclist = <<>> /\ mproplist = <<>>
            /\ inLocal = FALSE /\ saving = <<>>
            /\ calls = 0 /\ stack = <<>> /\ exit = "none"

(* The frame f catches the exit e. *)
Catches(e, f) == \/ e \in {"return", "go"} /\ f.kind \in {"block", "do"} /\ f.phase = "body"
                 \/ e = "throw" /\ f.kind = "catch"
                 \/ e = "error" /\ f.kind = "errcatch"

(* Expressions are being evaluated, by the innermost frame or at top level. *)
Evaluating == /\ exit = "none" /\ ~inLocal
              /\ stack # <<>> => Top.phase \in Evaluates

(* The frames on loclist that f has pushed and not popped. *)
OwnLoc(f) == IF \/ f.kind = "call" /\ f.phase # "unbind"
                \/ f.kind = "block" /\ f.phase # "args"
                \/ f.kind = "ev" /\ f.phase \notin {"args", "bind", "undo"}
             THEN 1 ELSE 0

(* f has a frame on loclist and no unwind-protect yet that would pop it. *)
Leaky(f) == \/ f.kind = "call" /\ f.phase = "args"
            \/ f.kind = "ev" /\ f.phase \in {"mlocal", "pre"}

(* The exit e leaves no such frame.  Any go may turn out to be an error where *)
(* it is caught.                                                            *)
Regular(e) == \/ "earlyExit" \in Irregular
              \/ \A i \in Live : Leaky(stack[i]) =>
                    e # "go" /\ \E j \in (i + 1)..Len(stack) : Catches(e, stack[j])

(***************************************************************************)
(* Entering a form.                                                        *)
(***************************************************************************)

Push(k, ph, vs) ==
  /\ Evaluating
  /\ stack' = Append(stack, [kind |-> k, phase |-> ph, vars |-> vs, bound |-> 0,
                             bindl |-> Len(bindlist), locl |-> Len(loclist),
                             mlocp |-> k \in {"block", "call"}])
  /\ UNCHANGED <<bvars, prop, mproplist, inLocal, saving, calls, exit>>

(* mprog lets local() be called before it has a frame on loclist. *)
MprogEnter(vs) == Push("block", "args", vs) /\ UNCHANGED loclist

(* Mutant: mlambda runs munlocal without a frame of its own on loclist. *)
MlambdaEnterNoFrame(vs) == Push("call", "args", vs) /\ UNCHANGED loclist

(* mlambda pushes its frame on loclist first and then evaluates arguments.   *)
MlambdaEnter(vs) == Push("call", "args", vs) /\ loclist' = Append(loclist, <<>>)

MdoEnter(v) == Push("do", "args", <<v>>) /\ UNCHANGED loclist

(* The variables of ev are the options and equations among its arguments. *)
EvEnter(vs) == Push("ev", "args", vs) /\ UNCHANGED loclist

ErrcatchEnter == Push("errcatch", "body", <<>>) /\ UNCHANGED loclist

CatchEnter == Push("catch", "body", <<>>) /\ UNCHANGED loclist

(* The arguments or initial values are there: mprog pushes its frame on     *)
(* loclist, mlambda its record on the call stack, and mbind begins.         *)
ArgsDone ==
  /\ Evaluating /\ stack # <<>> /\ Top.phase = "args"
  /\ stack' = SetPhase("bind")
  /\ loclist' = IF Top.kind = "block" THEN Append(loclist, <<>>) ELSE loclist
  /\ calls' = IF Top.kind = "call" THEN calls + 1 ELSE calls
  /\ UNCHANGED <<bvars, prop, mproplist, inLocal, saving, exit>>

BindOne(x) ==
  /\ stack # <<>> /\ Top.phase \in {"bind", "rebind"} /\ Top.bound < Len(Top.vars)
  /\ MbindOne(Top.vars[Top.bound + 1], x)
  /\ stack' = [stack EXCEPT ![Len(stack)].bound = @ + 1]
  /\ UNCHANGED <<lvars, calls, exit>>

BindDone ==
  /\ stack # <<>> /\ Top.bound = Len(Top.vars)
  /\ Top.phase = "rebind" \/ (Top.phase = "bind" /\ Top.kind # "ev")
  /\ stack' = SetPhase(IF Top.kind = "do" THEN "test" ELSE "body")
  /\ UNCHANGED <<bvars, lvars, calls, exit>>

(* mlocal pushes a frame for the names that ev makes local and calls $local. *)
Mlocal ==
  /\ stack # <<>> /\ Top.bound = Len(Top.vars)
  /\ Top.phase = "bind" /\ Top.kind = "ev"
  /\ stack' = SetPhase("mlocal")
  /\ loclist' = Append(loclist, <<>>)
  /\ inLocal' = TRUE /\ saving' = <<>>
  /\ UNCHANGED <<bvars, prop, mproplist, calls, exit>>

(* Mutant: all variables of the frame are unbound, not those bound so far. *)
BindFailUndoesAll ==
  /\ stack # <<>> /\ Top.phase = "bind" /\ exit = "none"
  /\ Top.kind = "call" => "earlyExit" \in Irregular
  /\ Regular("error")
  /\ exit' = "error"
  /\ stack' = [stack EXCEPT ![Len(stack)].phase = "undo",
                            ![Len(stack)].bound = Len(Top.vars)]
  /\ UNCHANGED <<bvars, lvars, calls>>

(* Too few or too many arguments, or a variable that cannot be assigned: the *)
(* unwind-protect of mbind undoes the bindings made so far.                  *)
BindFail ==
  /\ stack # <<>> /\ Top.phase \in {"bind", "rebind"} /\ exit = "none"
  /\ Top.kind = "call" => "earlyExit" \in Irregular
  /\ Regular("error")
  /\ exit' = "error"
  /\ stack' = SetPhase(IF Top.phase = "bind" THEN "undo" ELSE "unbind")
  /\ UNCHANGED <<bvars, lvars, calls>>

(***************************************************************************)
(* Evaluating.                                                             *)
(***************************************************************************)

AssignVar == /\ Evaluating
             /\ \E v \in Var : Remvalue(v) \/ \E x \in Val : Mset(v, x)
             /\ UNCHANGED <<lvars, calls, stack, exit>>

(* f(x) := ... *)
Define(f, d) == /\ Evaluating
                /\ prop' = [prop EXCEPT ![f] = d]
                /\ UNCHANGED <<bvars, loclist, mproplist, inLocal, saving, calls, stack, exit>>

(* The innermost frame that binds mlocp. *)
Binder(i) == /\ i \in Live /\ stack[i].kind \in {"block", "call"}
             /\ \A j \in (i + 1)..Len(stack) : stack[j].kind \notin {"block", "call"}

(* The head of loclist is not the frame of the i-th form. *)
Astray(i) == \/ OwnLoc(stack[i]) = 0
             \/ \E j \in (i + 1)..Len(stack) : OwnLoc(stack[j]) = 1

LocalBegin ==
  /\ Evaluating
  /\ \E i \in Live : /\ Binder(i) /\ stack[i].mlocp
                     /\ Astray(i) => "astray" \in Irregular
  /\ inLocal' = TRUE /\ saving' = <<>>
  /\ UNCHANGED <<bvars, prop, loclist, mproplist, calls, stack, exit>>

(* One turn of the loop of $local. *)
LocalOne(f) == /\ inLocal
               /\ mproplist' = Append(mproplist, prop[f])
               /\ prop' = [prop EXCEPT ![f] = Undefined]
               /\ saving' = Append(saving, f)
               /\ UNCHANGED <<bvars, loclist, inLocal, calls, stack, exit>>

(* The next argument is not a symbol. *)
LocalFail == /\ inLocal /\ "badLocal" \in Irregular /\ Regular("error")
             /\ exit' = "error" /\ inLocal' = FALSE /\ saving' = <<>>
             /\ UNCHANGED <<bvars, prop, loclist, mproplist, calls, stack>>

(* The names replace the head of loclist, whosever frame that is; without   *)
(* any frame the rplaca fails.  mlocal has an mlocp of its own.             *)
LocalDone ==
  /\ inLocal /\ inLocal' = FALSE /\ saving' = <<>>
  /\ \/ /\ loclist # <<>>
        /\ loclist' = [loclist EXCEPT ![Len(loclist)] = saving]
        /\ IF Top.phase = "mlocal"
             THEN stack' = SetPhase("pre")
             ELSE stack' = [i \in Live |-> IF Binder(i) THEN [stack[i] EXCEPT !.mlocp = FALSE]
                                                      ELSE stack[i]]
        /\ UNCHANGED exit
     \/ /\ loclist = <<>> /\ exit' = "error"
        /\ UNCHANGED <<loclist, stack>>
  /\ UNCHANGED <<bvars, prop, mproplist, calls>>

(* merror, return, go and throw, from wherever the program evaluates.  A    *)
(* return needs a live catch for mprog, a go one of a block, a throw a live  *)
(* catch; without it they are errors.  A go to a tag nobody has becomes an   *)
(* error later.                                                             *)
Raise(e) ==
  /\ Evaluating /\ stack # <<>>
  /\ e # "error" => \E i \in Live : /\ Catches(e, stack[i])
                                  /\ e = "go" => stack[i].kind = "block"
  /\ Regular(e)
  /\ exit' = e
  /\ UNCHANGED <<bvars, lvars, calls, stack>>

(***************************************************************************)
(* Leaving a form.                                                         *)
(***************************************************************************)

(* What the cleanup of a frame does first once its body has been entered.   *)
CleanupPhase == IF Top.kind = "call" THEN "unlocal"
                ELSE IF Top.phase \in {"mlocal", "pre"} THEN "retract" ELSE "unbind"

(* The cleanup of mlambda takes its record off the call stack first.        *)
StartCleanup == /\ stack' = SetPhase(CleanupPhase)
                /\ calls' = IF Top.kind = "call" THEN calls - 1 ELSE calls

(* The body of a block or a function is done, the test of a loop says so, or *)
(* one of the two evaluations of ev.                                        *)
BodyDone ==
  /\ Evaluating /\ stack # <<>>
  /\ \/ Top.phase = "body" /\ Top.kind \in {"block", "call", "ev"}
     \/ Top.phase \in {"test", "pre"}
  /\ StartCleanup
  /\ UNCHANGED <<bvars, lvars, exit>>

(* The loop goes on. *)
TestDone == /\ Evaluating /\ stack # <<>> /\ Top.phase = "test"
            /\ stack' = SetPhase("body")
            /\ UNCHANGED <<bvars, lvars, calls, exit>>

DoBodyDone == /\ Evaluating /\ stack # <<>> /\ Top.kind = "do" /\ Top.phase = "body"
              /\ stack' = SetPhase("next")
              /\ UNCHANGED <<bvars, lvars, calls, exit>>

(* The loop variable gets its next value, unless mdoin has run out of them.  *)
NextDone ==
  /\ Evaluating /\ stack # <<>> /\ Top.phase = "next"
  /\ \/ (\E x \in Val : Mset(Top.vars[1], x)) /\ stack' = SetPhase("test")
     \/ UNCHANGED bvars /\ stack' = SetPhase("unbind")
  /\ UNCHANGED <<lvars, calls, exit>>

(* The list mdoin goes through is empty: nothing is bound. *)
MdoinEmpty == /\ Evaluating /\ stack # <<>> /\ Top.kind = "do" /\ Top.phase = "args"
              /\ stack' = Front(stack)
              /\ UNCHANGED <<bvars, lvars, calls, exit>>

(* A catch runs errlfun1 even if nothing was thrown, an errcatch does not.  *)
HandlerDone ==
  /\ Evaluating /\ stack # <<>> /\ Top.kind \in {"errcatch", "catch"}
  /\ stack' = IF Top.kind = "catch" THEN SetPhase("restore") ELSE Front(stack)
  /\ UNCHANGED <<bvars, lvars, calls, exit>>

(***************************************************************************)
(* Cleaning up.                                                            *)
(***************************************************************************)

Unbinds == {"undo", "retract", "unbind"}

(* Mutant: from first to last. *)
UnbindOneFirstToLast ==
  /\ stack # <<>> /\ Top.phase \in Unbinds /\ Top.bound > 0
  /\ Munbind(Top.vars[Len(Top.vars) + 1 - Top.bound])
  /\ stack' = [stack EXCEPT ![Len(stack)].bound = @ - 1]
  /\ UNCHANGED <<lvars, calls, exit>>

(* One turn of munbind, over the variables of the frame from last to first. *)
UnbindOne ==
  /\ stack # <<>> /\ Top.phase \in Unbinds /\ Top.bound > 0
  /\ Munbind(Top.vars[Top.bound])
  /\ stack' = [stack EXCEPT ![Len(stack)].bound = @ - 1]
  /\ UNCHANGED <<lvars, calls, exit>>

(* What comes after: mprog has its munlocal to run, whether mbind succeeded  *)
(* or not, and ev once its second mbinding has begun; ev goes on after the   *)
(* first if nothing is wrong; a call whose mbind failed, or an ev left in    *)
(* the first, leaves its frame on loclist.                                  *)
AfterUnbind ==
  IF Top.kind = "block" \/ (Top.kind = "ev" /\ Top.phase = "unbind") THEN SetPhase("unlocal")
  ELSE IF Top.phase = "retract" /\ exit = "none" THEN SetPhase("rebind")
  ELSE Front(stack)

(* Mutant: mbind forgets the call stack when it fails. *)
UnbindDoneKeepsCall ==
  /\ stack # <<>> /\ Top.phase \in Unbinds /\ Top.bound = 0
  /\ stack' = AfterUnbind
  /\ UNCHANGED <<bvars, lvars, calls, exit>>

(* Mutant: mprog without unwind-protect around its munlocal. *)
UnbindDoneUnprotected ==
  /\ stack # <<>> /\ Top.phase \in Unbinds /\ Top.bound = 0
  /\ stack' = IF exit = "none" THEN AfterUnbind ELSE Front(stack)
  /\ calls' = IF Top.kind = "call" /\ Top.phase = "undo" THEN calls - 1 ELSE calls
  /\ UNCHANGED <<bvars, lvars, exit>>

UnbindDone ==
  /\ stack # <<>> /\ Top.phase \in Unbinds /\ Top.bound = 0
  /\ stack' = AfterUnbind
  /\ calls' = IF Top.kind = "call" /\ Top.phase = "undo" THEN calls - 1 ELSE calls
  /\ UNCHANGED <<bvars, lvars, exit>>

(* The car of mproplist; that of an empty list is no property. *)
SavedProp == IF mproplist = <<>> THEN Undefined ELSE Last(mproplist)

(* Mutant: $local left its names in the order in which it saved them. *)
MunlocalNameFirst ==
  /\ loclist # <<>> /\ Last(loclist) # <<>>
  /\ prop' = [prop EXCEPT ![Head(Last(loclist))] = SavedProp]
  /\ mproplist' = Front(mproplist)
  /\ loclist' = [loclist EXCEPT ![Len(loclist)] = Tail(@)]

(* One turn of the loop of munlocal over the names in the head of loclist,   *)
(* which lose their last member to show how far the loop is.                *)
MunlocalName ==
  /\ loclist # <<>> /\ Last(loclist) # <<>>
  /\ prop' = [prop EXCEPT ![Last(Last(loclist))] = SavedProp]
  /\ mproplist' = Front(mproplist)
  /\ loclist' = [loclist EXCEPT ![Len(loclist)] = Front(@)]

(* Mutant: two frames go at once. *)
MunlocalPopTwo == /\ loclist # <<>> => Last(loclist) = <<>>
                  /\ loclist' = IF Len(loclist) <= 1 THEN <<>> ELSE Front(Front(loclist))
                  /\ UNCHANGED <<prop, mproplist>>

(* Its end; the rest of an empty list is the empty list. *)
MunlocalPop == /\ loclist # <<>> => Last(loclist) = <<>>
               /\ loclist' = IF loclist = <<>> THEN <<>> ELSE Front(loclist)
               /\ UNCHANGED <<prop, mproplist>>

Unlocal ==
  /\ stack # <<>> /\ Top.phase = "unlocal"
  /\ \/ MunlocalName /\ UNCHANGED stack
     \/ /\ MunlocalPop
        /\ stack' = IF Top.kind = "call" THEN SetPhase("unbind") ELSE Front(stack)
  /\ UNCHANGED <<bvars, inLocal, saving, calls, exit>>

(* errlfun1: unbind down to the saved bindlist, then munlocal until loclist  *)
(* is the saved one.                                                        *)
Errlfun1 ==
  /\ stack # <<>> /\ Top.phase = "restore"
  /\ IF Len(bindlist) # Top.bindl THEN MunbindLast ELSE UNCHANGED bvars
  /\ IF Len(bindlist) = Top.bindl /\ Len(loclist) # Top.locl
       THEN MunlocalName \/ MunlocalPop
       ELSE UNCHANGED <<prop, loclist, mproplist>>
  /\ stack' = IF Len(bindlist) = Top.bindl /\ Len(loclist) = Top.locl
                THEN Front(stack) ELSE stack
  /\ UNCHANGED <<inLocal, saving, calls, exit>>

(***************************************************************************)
(* An exit under way.                                                      *)
(***************************************************************************)

Exiting == exit # "none" /\ stack # <<>> /\ Top.phase \in Evaluates

(* Mutant: a loop keeps its binding when an exit passes through it. *)
UnwindLoopKeepsBinding ==
  /\ Exiting /\ ~Catches(exit, Top)
  /\ IF Top.phase = "args" \/ Top.kind \in {"errcatch", "catch", "do"}
       THEN stack' = Front(stack) /\ UNCHANGED calls
       ELSE StartCleanup
  /\ UNCHANGED <<bvars, lvars, exit>>

(* A frame that does not catch it starts the cleanup it owes, if any.        *)
Unwind ==
  /\ Exiting /\ ~Catches(exit, Top)
  /\ IF Top.phase = "args" \/ Top.kind \in {"errcatch", "catch"}
       THEN stack' = Front(stack) /\ UNCHANGED calls
       ELSE StartCleanup
  /\ UNCHANGED <<bvars, lvars, exit>>

(* The bindlist the body of a block or a loop was started with. *)
BodyBindl == Top.bindl + Len(Top.vars)

(* A return or go reaches the body of a block or a loop.  If bindlist is not *)
(* the one the body started with it is illegal; a go needs a tag.            *)
CatchReturn ==
  /\ Exiting /\ exit \in {"return", "go"} /\ Catches(exit, Top)
  /\ IF Len(bindlist) # BodyBindl \/ (exit = "go" /\ Top.kind = "do")
       THEN exit' = "error" /\ UNCHANGED stack
       ELSE \/ exit = "return" /\ exit' = "none" /\ stack' = SetPhase("unbind")
            \/ exit = "go" /\ exit' \in {"none", "error"} /\ UNCHANGED stack
  /\ UNCHANGED <<bvars, lvars, calls>>

(* An error reaches an errcatch, or a throw a catch: errlfun1 is next.       *)
CatchExit == /\ Exiting /\ exit \in {"error", "throw"} /\ Catches(exit, Top)
             /\ exit' = "none"
             /\ stack' = SetPhase("restore")
             /\ UNCHANGED <<bvars, lvars, calls>>

(* The catch for macsyma-quit at top level cleans up nothing. *)
MacsymaQuit == /\ exit # "none" /\ stack = <<>>
               /\ exit' = "none"
               /\ UNCHANGED <<bvars, lvars, calls, stack>>

(***************************************************************************)
(* The specification.                                                      *)
(***************************************************************************)

EvalSteps == \/ \E vs \in VarLists : MprogEnter(vs) \/ MlambdaEnter(vs) \/ EvEnter(vs)
             \/ \E v \in Var : MdoEnter(v)
             \/ ErrcatchEnter \/ CatchEnter
             \/ AssignVar
             \/ \E f \in Fun, d \in Def : Define(f, d)
             \/ LocalBegin
             \/ \E f \in Fun : LocalOne(f)
             \/ LocalFail
             \/ \E e \in Exits : Raise(e)
             \/ ArgsDone \/ BodyDone \/ TestDone \/ DoBodyDone \/ NextDone \/ HandlerDone
             \/ MdoinEmpty \/ BindFail

(* What the evaluator does without evaluating anything of the program.       *)
OwnSteps == \/ \E x \in Val : BindOne(x)
            \/ BindDone \/ Mlocal \/ UnbindOne \/ UnbindDone \/ Unlocal \/ Errlfun1
            \/ Unwind \/ CatchReturn \/ CatchExit \/ MacsymaQuit

EvalNext == EvalSteps \/ LocalDone \/ OwnSteps

(* The Lisp process goes on with what it is doing; whether an expression of  *)
(* the program is ever done is the program's affair.                        *)
EvalSpec == /\ EvalInit /\ [][EvalNext]_vars
            /\ WF_vars(OwnSteps) /\ WF_vars(LocalDone)

(***************************************************************************)
(* Properties.                                                             *)
(***************************************************************************)

(* The state is what the declarations of mlisp.lisp and maxmac.lisp say.     *)
EvalTypeOK ==
  /\ BindTypeOK
  /\ prop \in [Fun -> Props]
  /\ loclist \in Seq(Seq(Fun)) /\ mproplist \in Seq(Props)
  /\ inLocal \in BOOLEAN /\ saving \in Seq(Fun)
  /\ calls \in Int
  /\ stack \in Seq(Frame)
  /\ exit \in Exits \cup {"none"}

(* Where what the i-th frame has pushed on bindlist and loclist ends. *)
BindEnd(i) == IF i = Len(stack) THEN Len(bindlist) ELSE stack[i + 1].bindl
LocEnd(i) == IF i = Len(stack) THEN Len(loclist) ELSE stack[i + 1].locl

(* Every entry of bindlist belongs to exactly one live frame, in the order  *)
(* of the frames, and names the variables that frame will hand to munbind:   *)
(* munbind takes the names from its caller and the values from mspeclist,    *)
(* so a frame that left one entry behind would restore other frames' values. *)
FramesOwnBindings ==
  /\ stack = <<>> => bindlist = <<>>
  /\ stack # <<>> => stack[1].bindl = 0
  /\ \A i \in Live : /\ BindEnd(i) = stack[i].bindl + stack[i].bound
                     /\ \A k \in 1..stack[i].bound :
                           bindlist[stack[i].bindl + k] = stack[i].vars[k]

(* A return or go always finds the bindlist the block or the loop started   *)
(* with, so that "illegal return" (mprog, mdo, mdoin) cannot happen while    *)
(* the debugger is not involved.                                            *)
NoIllegalReturn == Exiting /\ exit \in {"return", "go"} /\ Catches(exit, Top)
                     => Len(bindlist) = BodyBindl

(* loclist never falls below what a live frame saw when it was entered, plus *)
(* the frame it has pushed itself: otherwise errlfun1, which loops until     *)
(* loclist is the saved list, would never end.                              *)
LoclistAboveMarks == \A i \in Live : stack[i].locl + OwnLoc(stack[i]) <= LocEnd(i)

(* *mlambda-call-stack* has a record for each call that has bound or is     *)
(* binding its parameters, however the calls before were left.              *)
CallStackExact ==
  calls = Cardinality({i \in Live : /\ stack[i].kind = "call"
                                    /\ stack[i].phase \in {"bind", "undo", "body"}})

(* No step touches what was saved before a frame that is live before and    *)
(* after it was entered: inner forms, whatever exits they take, cannot       *)
(* change what an outer form will restore.                                   *)
SavedValuesUntouched ==
  [][\A i \in 1..Min({Len(stack), Len(stack')}) :
       \A k \in 1..stack[i].bindl : /\ k <= Len(bindlist') /\ k <= Len(bindlist)
                                    /\ bindlist'[k] = bindlist[k]
                                    /\ mspeclist'[k] = mspeclist[k]]_vars

(* The evaluator gets back to evaluating after every call, exit and cleanup: *)
(* no unwinding and no loop of errlfun1, munbind or munlocal goes on forever. *)
EvaluationResumes == []<>Evaluating

(* The frames drive the binding lists as ShallowBinding allows. *)
ImplementsShallowBinding == BindSpec

(***************************************************************************)
(* The local properties, seen as scopes of names.                           *)
(***************************************************************************)

LocalNames == FlattenSeq(loclist) \o saving

LocalValueAt(f, i) == ScopeValue(prop, LocalNames, mproplist, f, i)

LocalDeep == INSTANCE DynamicScope WITH
               Name <- Fun, Content <- Props,
               global <- [f \in Fun |-> LocalValueAt(f, 0)],
               cells <- [i \in 1..Len(LocalNames) |->
                           [name |-> LocalNames[i], content |-> LocalValueAt(LocalNames[i], i)]]

(* local() makes the properties of its symbols local as block does variables *)
(* (doc/info/Function.texi, entry "local").                                  *)
LocalsAreScoped == LocalDeep!DSpec

(* "restores any saved properties on exit from the block or other compound   *)
(* expression in which local appears": at top level nothing is left saved.   *)
SavedPropsRestored == stack = <<>> /\ exit = "none" => mproplist = <<>>

=============================================================================
