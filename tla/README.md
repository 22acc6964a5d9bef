# A model of the core of Maxima

Maxima (`src/src/`, Common Lisp) is a computer algebra system: a reader, an
evaluator, a simplifier, a display and some two hundred files of algebraic and
numerical algorithms that the evaluator calls.  The Lisp process is
single-threaded.  What makes its core hard is not concurrency but *global state
under non-local exits*: local variables, local function properties, contexts of
facts, answers to questions and what the debugger has taken off all live in
global lists and property lists, and errors, `return`, `go` and `throw` leave
forms in the middle.  Whether the lists still fit together afterwards depends
on the order in which some dozens of lines save, set, restore and pop; that is
what most of this project models.

Beside it stand three pieces of C.  The processes that interrupt Maxima on MS
Windows share a word of memory and are as concurrent as anything can be; the
coefficient arithmetic of GCL works on machine words; the compiled plotting
functions are a stack machine.

## Contents

| File | What it is |
| --- | --- |
| `DynamicScope.tla` | the abstract specification: scopes of names, as the manual explains `block` |
| `ShallowBinding.tla` | `mset`, `mbind-doit`, `munbind`, `remvalue`: value cells, `bindlist`, `mspeclist`, `$values` |
| `ShallowBinding_proof.tla` | type correctness, exactness of `$values`, and that ShallowBinding implements DynamicScope |
| `EvalFrames.tla` | blocks, calls, loops, `errcatch`, `catch`, `local` and the exits through them, over ShallowBinding |
| `EvalFrames_proof.tla` | the inductive invariant of the frames, the safety and refinement theorems that follow, the call stack; local properties are scoped, and none stays saved at top level |
| `Debugger.tla` | break loops that take bindings off and put them back, over ShallowBinding |
| `Debugger_proof.tla` | the inductive invariant of the break loops, and every safety property of the run |
| `DbContexts.tla` | contexts of facts and the marks that say which are in force |
| `DbContexts_proof.tla` | the inductive invariant of the contexts, and every property of the run |
| `AskSign.tla` | answers to questions and facts that last for a part of an evaluation, over DbContexts |
| `AskSign_proof.tla` | the inductive invariant of the answers and assumptions, and every property of the run |
| `WinKillArgs.tla`, `WinSignals.tla` | the command lines and the processes that signal Maxima on MS Windows |
| `WinSignals_proof.tla` | the safety properties of the signals |
| `ModArith.tla`, `ModArith_proof.tla` | coefficients modulo a modulus in machine words, and proofs for every word size |
| `PlotValues.tla`, `PlotOps.tla` | the values of the plotting code and the operators on them |
| `PlotCode.tla`, `PlotStack.tla` | expressions as the parser lays them out, and the stack machine that runs them |
| `PlotStack_proof.tla` | the height of the stack at every place of every layout, and what follows for the machine |
| `PlotExpr.tla` | what expressions mean, and the properties that compare the machine with it |
| `MC*.tla`, `*.cfg` | the instances TLC checks |
| `PROJECT.json` | components, runs, the map from definitions to source lines, hazards, findings, theorems |

## Inventory

Components that keep state or have control worth modelling; the rest of the
system is listed in `PROJECT.json` with the reason it is left out.

**Variable bindings** (`mlisp.lisp`: `mset`, `mbind`, `mbind-doit`, `munbind`;
`suprv1.lisp`: `remvalue`).  State: the value cell of every symbol, `bindlist`
(the bound symbols, innermost first), `mspeclist` (their old values, the marker
`munbound` for none), `$values` (the symbols that have a value).  The two lists
are parallel but are never paired: `munbind` takes the names from its caller
and the values from `mspeclist`, and pops `bindlist` blindly.  Hard: a symbol
bound several times, assigned and unbound in between; a failure after some of
the variables of a frame are bound.  Correct when saving and restoring one cell
per symbol is dynamic scoping, and `$values` is exact.

**Evaluation frames** (`mlisp.lisp`: `mprog`, `mlambda`, `mdo`, `mdoin`,
`mreturn`, `mgo`, `$ev`; `suprv1.lisp`: `$errcatch`, `$catch`, `$throw`,
`errlfun1`; `merror.lisp`; `macsys.lisp`: the loop at top level).  State: the
Lisp stack, `*mlambda-call-stack*`, the specials `mprogp`, `mdop`, `mlocp`,
`mcatch`, `errcatch`.  Four kinds of exit cross the frames; every frame has its
own cleanup, in its own order, protected from its own point on.  Correct when
every exit leaves the lists as the catching frame expects them, a legal
`return` is never called illegal, the call stack matches the live calls, and
the loops of `errlfun1` and `munbind` end.

**Local properties** (`mlisp.lisp`: `$local`, `mlocal`, `munlocal`).  State:
`loclist` (one list of names per frame), `mproplist` and `factlist` (the saved
properties).  Driven by the frames above.  Correct when properties made local
are scoped like variables and nothing stays saved.

**Contexts** (`compar.lisp`: `$activate`, `$deactivate`, `asscontext`,
`$newcontext`, `$supcontext`, `killcontext`, `killallcontexts`; `db.lisp`:
`activate`, `deactivate`, `contextmark`, `cmark`, `cunmrk`, `cntp`, `killc`).
State: `$contexts`, `$activecontexts`, `contexts`, `context`, `current`, and
per context its facts, its subcontext and the count `cmark`; per node (a symbol,
a number, or an expression in `dobjects`) the facts about it.  The marks of the
selected context are moved lazily, at the next deduction.  Correct when the
counts are exact whatever the order of selecting, activating, killing and
deducing, so that a deduction sees the facts that are in force, and no others
but those that `remov` leaves behind (see the findings).

**Signs and questions** (`compar.lisp`: `asksign1`, `ensure-sign`, `tdpos`,
`clearsign`, `assume`, `forget`, `asksign-p-or-n`; `rpart.lisp`: `absarg1`;
`maxmac.lisp`: `with-new-context`).  State: the facts, each on two lists, and
`*local-signs*`.  Answers are facts in `initial` until the end of an
evaluation; the evaluator also makes contexts and assumptions of its own and
takes them back, under the same user who assumes, forgets and kills.  Correct
when an answer holds as long as the evaluation, nothing of it stays, and
nothing of the user's goes.

**Debugger** (`mdebug.lisp`: `break-dbm-loop`, `break-frame`, `frame-info`,
`remove-bindings`, `restore-bindings`, `break-quit`; `merror.lisp`).  State:
per break loop `*diff-bindlist*` and `*diff-mspeclist*`.  It takes bindings off
to look at an outer frame and puts them back; break loops nest, and exits pass
through them.  Correct when what was taken off comes back, in order and with
its values, on every way out.

**Windows signals** (`interfaces/xmaxima/win32`).  State: a shared word per
process id, the lists of open memory of the monitor thread of Maxima, of
`winkill.exe` and of the Tcl command in the GUI.  Hard: everything is
concurrent, processes die, process ids come back.  Correct when no signal is
made up, none is delivered twice, each reaches a Maxima that goes on running,
and whoever is about to write has the memory open.

**Modular coefficients** (`archive/src/rat3f-hc.c`).  No state but the modulus:
sums, differences, products and remainders of words.  Hard: overflow, the ends
of the symmetric range, even moduli, the border between words and bignums.

**Plotting functions** (`archive/o/internal.c`, `standard.c`).  State: a stack
of typed values, a flag, the arguments of the functions.  Hard: jumps that pop
on one path only, evaluations given up in the middle, calls in arguments.

**Deduction** (`db.lisp`: `clear`, `beg`, `nodelab`, ...), **labels of the
read-eval-print loop**, **tracing** and the algebra: not modelled, see the end.

How they interact: the loop at top level calls the evaluator; forms bind
through ShallowBinding's two lists; assume, sign and `is` reach the contexts;
contexts are selected by *assigning* the variable `context`; errors reach the
debugger if `debugmode` is set, else `errcatch`, else the top level; a signal
interrupts the Lisp process.

## The modules

### DynamicScope

A global content per name and a stack of cells.  `Enter` pushes a cell, `Leave`
pops one, `Assign` changes the innermost cell of a name, or the global content
if it has none.  It is instantiated twice: for variables (by ShallowBinding,
`Deep`) and for local properties (by EvalFrames, `LocalDeep`).

### ShallowBinding

One action per turn of a loop: `Mset` (an assignment), `Remvalue`, `MbindOne`
(a turn of `mbind-doit`), `Munbind(v)` (a turn of `munbind` for the name its
caller gave).  `bindlist` and `mspeclist` are sequences whose *last* element is
the head of the Lisp list.  Symbols with an `assign` property, options and
constants are not among `Var`.  The refinement mapping computes what each live
scope holds: the value a later binding of the same name saved, or the cell.

### EvalFrames

The evaluator is recursive; its Lisp stack is the variable `stack`.  A frame
has a kind, a phase, the variables it binds, how many of them it has bound, and
the lengths of `bindlist` and `loclist` at its entry (what `errcatch` keeps as
`(cons bindlist loclist)`).

| kind | code | phases |
| --- | --- | --- |
| `block` | `mprog` | args → bind → body → unbind → unlocal |
| `call` | `mlambda` | args → bind → body → unlocal → unbind |
| `do` | `mdo`, `mdoin` | args → bind → test → body → next → test ... → unbind |
| `ev` | `$ev` | args → bind → mlocal → pre → retract → rebind → body → unbind → unlocal |
| `errcatch` | `$errcatch` | body → restore, if an error came |
| `catch` | `$catch` | body → restore |

`bind` that fails goes to `undo`.  `ev` binds its variables twice: first to
themselves, while it calls `mlocal` and evaluates the atoms of the expression
(`pre`), then to their values.  In `args`, `test`, `body`, `next` and `pre` the
frame evaluates expressions of the program, and what these do is left open:
any variable may be assigned, any form entered, `local` called and any exit
raised.  An exit sets the variable `exit`, and from then on the frames unwind
one at a time: `Unwind` starts the cleanup that the innermost frame's
`unwind-protect` has reached, or drops the frame if it has reached none, until
`CatchReturn` or `CatchExit` applies or the stack is empty (`MacsymaQuit`).

`$local` is four actions, because its loop can fail in the middle:
`LocalBegin` (for `ev`, `Mlocal`), `LocalOne` per symbol, then `LocalDone` or `LocalFail`.
`munlocal` is one `MunlocalName` per name and a `MunlocalPop`.

Abstractions: `mprops` stands for `mprops` and `data`, which are saved and
restored together; a `return` value, the tag of a `go` and the message of an
error are not kept; whether a tag exists is a choice; `mdebug` is off; variables
are symbols that can be assigned (a variable that cannot is one of the reasons
of `BindFail`).  A return, go or throw that no live form catches is an error in
the code and so is `Raise("error")` here.

The constant `Irregular` says which of three awkward inputs may occur: an exit
from an argument of a call or from the first evaluation of `ev` (`earlyExit`),
`local` evaluated where the head of `loclist` is another form's frame
(`astray`), and `local` of something that is no symbol (`badLocal`).  They
are real programs, and for the binding invariants all of them are allowed; the
properties of `local` fail under each of them (see the findings), so these are
checked without them, and each violation is a run of its own.

### Debugger

The stack holds forms and break loops.  A form is a call (`mlambda`, whose body
is a block that may return) or a block with local variables of its own (`mprog`):
bind → body → unbind.  Only a call has a record on the call stack, and that
matters: a break loop entered by an error begins with `break-frame 0`, which
asks the call stack for frame 0 and, where there is none, takes *all* bindings
off.  A break loop goes prompt → restore → remove → prompt, or is left; after an
error it begins at `restore`.  A program, and a user at a prompt, may assign,
enter forms, fail (`Merror` opens a break loop, `debugmode` being on), return
and, inside a function, reach a break-point.  `Command` is the beginning of every command, `restore-bindings`;
`RestoreOne` and `RemoveOne` are single turns of the loops, so that everything
that reads the lists is seen against every state in between.  A pointer to a
tail of `bindlist`, which Lisp compares by `eq`, is the length of the tail, and
becomes `Stale` when its first cons is dropped (`Dropped`): putting bindings
back makes new conses.  `had`, `names` (the names on `bindlist` when a form or
a break loop was entered) and `looks` are history, for the properties.
`ListsFollowStack` says what became of `names` by the time the next entry of
the stack was entered.  `QuitTag` follows `break-quit` through `*quit-tags*` and
`*break-level*`, which do not grow alike.  `RemvalueGlobal` leaves out
remvalue of a *bound* variable at a prompt: remove-bindings then fails on
`symbol-value`.

### DbContexts

Each Maxima function is one action with all it calls.  `Chain(c)` is the set of
contexts the recursion of `cmark` walks: `c`, its subcontext, and so on.
`MarkedFor(con)` is `contextmark` when `con` is selected, `Deactivated` is
`deactivate` of `db.lisp`, `MarksAfterKill` follows the calls that killcontext
and `killc` make in their order.  `KillParents` is a toggle: when it is FALSE, the
user does not kill a context while another one has it as its subcontext.
A fact is on the data list of its context (`data`) and on those of the nodes it
is about (`nodes`), and deductions follow the nodes.  `Composite` are the facts
about an expression that is neither a symbol nor a number.  `Emptied` is what
becomes of the facts of a killed context: `remov` takes them off symbols and
numbers, but of a node of `dobjects` it visits the parts and leaves the fact on
the node itself, where only `forget` and the reset of `dobjects` at the end of
`kill(all)` reach it.
`killallcontexts`, that end of `kill(all)`, is a sequence of steps over the list
it started with (`killing`), each a kill, a refusal or an error, and then the
reset (`KillallcontextsReset`).  `tidy` is history: it becomes FALSE when the
reset leaves a context activated, and the properties that the reset breaks in
that case are stated under it.

### AskSign

The sign of one expression: a symbol if `Composite` is empty, and else, with all
facts in `Composite`, any other expression.  What DbContexts calls a fact is
here a stored one: a number (the newer the greater), what it says, the context
it was stored in, and who stored it (history).  `nodes` is then the data list of
the expression.  `Forgotten` is `mkill`: from each of the two
lists it deletes the *first that says the same*.  `frames` are the
`unwind-protect`s of the evaluator that are open: `with-new-context`
(`EnterContext`, `LeaveContext`; names from `Temp`) and the assumption that an
expression is not zero (`EnterNonzero`, `LeaveNonzero`).  `Ask` is `asksign1`
when the sign is not known: the user answers, or has answered before in this
evaluation (`*local-signs*`); the fact goes to `initial` either way.
`EvaluationEnds` and `Clearsign` are the cleanup of `meval*`.  An error is an
early `Leave...`: cleanups run in the same order, so exits need no action.

The rules by which a sign follows from facts are three lines (`Implies`,
`Contradicts`); of what a rule can use the contexts decide (`Visible`).

`Irregular` names four things a program may do that the code does not provide
for; the passing run does without them, the list says what then happens:

* `known`: the evaluator's assumption that something is not zero is one the
  user has made already.  It forgets the user's (run `lost_assumption`).
* `elsewhere`: the user assumes or forgets what another context holds too.
  forget takes the newest off the node, whichever context that is of, so that
  the lists of node and context differ afterwards.
* `midway`: the user forgets, or kills `initial`, while there are answers.
  clearsign then forgets in their place what says the same elsewhere.
* `root`: `with-new-context` while `global` is selected.  killcontext then
  selects `initial`, and a fact assumed before is not found again by its forget.

### WinKillArgs and WinSignals

`indivisible` is chosen once: whether `*at |= value` is one instruction.  If
not, every update is a load and a store, with everybody else's in between.  A
Maxima starts, dies and starts again under the same process id, in two kinds
that use different names; `word` is the memory of a name, which exists as long
as anybody has it open (`open`) and is handed to a new creator as it is.  The
monitor polls the two bits in turn.  The Tcl command keeps a list of opened
memory across commands and interpreters.  What getSharedMemoryPtr returns at the
end that lacks a return is a choice.  `WinKillArgs` is how the two programs read
their arguments, as a table over a few words.

### ModArith

Words are `-Half .. Half - 1`.  `plusrem`, `subrem`, `dblrem` and `ftimes` are
the word algorithms with wrapping and carry; `cplus`, `cdifference`, `ctimes`
and `mcmod` the coefficient operations over them.  The state machine reads and
combines coefficients in registers; a register also keeps the exact integer.

### PlotValues, PlotOps, PlotCode, PlotStack, PlotExpr

`PlotValues` has typed values (ints that wrap, reals and complex numbers as
exact fractions, `Unknown` where a library function decides), `PlotOps` every
`f_` function on them, `PlotCode` expressions and the actions they are laid out
as (`Laid`, from the layouts of the operands), `PlotStack` the machine: actions,
jumps, calls, evaluations that int_error gives up, and the next evaluation on
the stack they leave.  `PlotExpr` adds `Layout`, which goes down an expression,
and the reference, `Meaning`.

Two constants of `PlotStack` let it be reasoned about for every expression.
`Code` is the layout of an expression, of which `PlotCodeAssumption` says that it
is `Laid` from those of the operands; the run takes `Layout` for it.
`Outcomes(op, args)` is what an `f_` function may make of its operands: *any* set
of values and faults for the proofs, and `Function` of `PlotOps` in the run.

## What the runs check

| Run | Question | Result |
| --- | --- | --- |
| `debugger` | do break loops put back what they take off, through every command, nesting and exit; is all of it dynamic scoping; is a return inside a call legal until an outer frame is selected; does the first outer frame that is selected show its bindings; does the debugger always come back? | holds |
| `eval_frames` | with every exit and every irregular input: are legal returns legal, is `loclist` never popped below a live frame, is the call stack exact, are saved values left alone, does every frame unbind exactly what it bound, as ShallowBinding says, does every cleanup end? | holds |
| `eval_locals` | are local properties scoped, is nothing left saved at top level, when inputs are regular? | holds |
| `leaked_locals` | the same when an argument of a call, or the first evaluation of `ev`, exits | violated |
| `db_contexts` | are the marks exact, do deductions see the facts in force, and which others, do the five lists agree, does every chain end at global, does kill(all) leave nothing? | holds, without `KillParents` |
| `killed_active` | is an active context never killed? | violated |
| `asksign` | is an answer known until the end of its evaluation, is nothing left then, are the user's facts left alone, do the two lists of facts agree? | holds of a symbol, with `Irregular = {}` |
| `lost_assumption` | are the user's facts left alone, when the evaluator assumes what is known? | violated |
| `win_signals` | is no signal made up or delivered twice, does each reach Maxima, has whoever writes the memory open? | holds |
| `lost_signal` | is a signal never lost, whether updates are indivisible or not? | violated |
| `mod_arith` | are coefficients right, in range and decisive, for every modulus? | holds, up to what negative bignums and even moduli do |
| `plot_stack` | does the machine compute what expressions mean, show faults and keep its stack? | holds |

Every property of a passing run has a mutant in `PROJECT.json`: a plausible
bug in one definition (the old value read after the cell is set, a loop that
does not unbind on an exit, one frame too many popped, marks not taken back...)
for which TLC finds the property violated.

Four more instances are kept for a reader who wants to see the traces; the first
three are violations, explained under the findings:

| Configuration | Module | Result |
| --- | --- | --- |
| `IllegalReturn.cfg` | `MCDebugger` | `ResumedReturnsLegal` is violated: the return of a block outside every call |
| `StaleFact.cfg` | `MCDbContexts` | `KilledNotSeen` is violated: a fact is deduced after its context was killed |
| `StaleAnswer.cfg` | `MCAskSign` | `AnswersRemoved` is violated: an answer is deduced after its evaluation |
| `MCAskComposite.cfg` | `MCAskSign` | `AnswerKnown` and `FactsRetained` hold of an expression that is no symbol (ids up to 2; up to 3 they hold too, with seven times the states) |

### Bounds

* `debugger`: one variable with two values, every function having it as its
  parameter and every block as its local variable (the same cell is hidden again
  and again, the hardest case for values); three forms, so that there are two
  outer frames to select and a call made while another is shown; two break
  loops, so that one takes bindings off while the other has some off.  A stack
  with a block on it is four entries high at most (`MaxMixed`), which leaves
  every order of a block and a call with two break loops; without blocks it may
  have five.  Lists of several variables are in `eval_frames`.
* `eval_frames`: `MaxFrames` = 2 with two variables per form, so that a failing
  `mbind` has bound none, one or both, and the order of unbinding shows;
  `local` without names, which is what the shape of `loclist` depends on (`Fun`
  is empty).  `MaxLoclist` = 3 includes frames left behind by calls.  The
  theorems cover every depth.  The constraint cuts behaviours where a form
  would be entered too deep and, by `MaxLoclist`, where a call, a block (when its
  initial values are evaluated) or `mlocal` of `ev` would push a frame on a
  `loclist` full of frames left behind.  Of these only `Mlocal` is one of
  `OwnSteps`, and none is a step of a cleanup, which pops frames: it hides no
  cleanup that goes on forever.
* `eval_locals`: two function names, two frames, at most two saved properties:
  two names in one frame, or one in each of two frames.
* `db_contexts`: `global`, `initial` and two contexts of the user, `a` and `b`.
  Four facts, one per context: about expressions in `a` and `initial`, about
  symbols in `b` and `global`, so that an operation meets both kinds in contexts
  of the user and in those that are never deleted.  Chains up to four long; both user contexts can be activated,
  selected, built on each other, killed and made anew.  The constraint
  `UntilUntidy` ends a session when a killallcontexts has left a context
  activated.  The theorems cover any number of contexts and facts.
* `asksign`: a symbol; one context of the user and one of the evaluator beside `global`
  and `initial`; two frames open at a time; ids up to 3 (`MaxFact`), so that at
  most three facts are stored at a time: one of the user's, one of the
  evaluator's and an answer, or an answer stored three times.
* `win_signals`: one process id, which Maximas of both kinds use in succession,
  one `winkill.exe` at a time and the Tcl command with up to two interpreters
  (none for `lost_signal`): with the monitor, three parties that update a word.
  The theorems cover any number.
* `mod_arith`: words of five bits (`Half` = 16), every modulus of a word, a
  bignum modulus and none; two registers; integers up to `MaxInt`.
* `plot_stack`: ints of three bits (`Half` = 4), so that every operator
  overflows; tables with the right symmetries in place of sin, cos, sinh, cosh.

### Fairness

`EvalSpec` assumes weak fairness of `OwnSteps` and of `LocalDone`.  These are
what the Lisp process does without evaluating an expression of the program:
binding, unbinding, `munlocal`, `errlfun1`, unwinding.  The process is
sequential and goes on as long as it runs.  Nothing is assumed of the program:
an argument, a body or a test may be evaluated forever, so `EvaluationResumes`
says only that the evaluator always gets back to evaluating.  Weak fairness is
enough because nothing else is enabled while a cleanup is under way.

`DbgSpec` assumes the same of `DebuggerSteps`, the turns of the debugger's own
loops, its exits and the binding and unbinding of calls: `AlwaysBack` says that
one is always back at a prompt or in the program, though a loop over bindings
looks for a tail that may be gone.

`WinFairness`: each monitor thread, each `winkill.exe` and the Tcl command go
on when they can, separately, as processes of an operating system do.  No
fairness of users, of deaths or of starts: `SignalReachesMaxima` says that the
monitor notices a signal or its Maxima is gone.

The other specifications assume none and claim no liveness.

## Findings

Disagreements between the code and its documentation, each the violation of
the run named:

1. `leaked_locals`: `mlambda` pushes its frame on `loclist` before it evaluates
   the arguments and pops it only if `mbind` succeeded.  After a `return` from
   within an argument, or a call with a wrong number of arguments inside an
   `errcatch`ed block, the next `munlocal` takes the wrong frame and the
   block's local functions stay defined.  `ev` has the same gap between
   `mlocal` and its `unwind-protect`, in spite of the comment there.
2. `killed_active`: the test in `killcontext` uses the value of `contextmark`,
   which is nil when the marks are already in place; the refusal the manual
   promises depends on whether a deduction has happened.
3. `lost_assumption`: `asksign-p-or-n` and `absarg1` forget what they assumed,
   also when it was redundant because the user had assumed it.
4. `lost_signal`: the updates of the shared word are not atomic.

Three more, with their configurations beside the runs:

5. `StaleFact.cfg`: killing a context does not forget its facts about
   expressions.  `assume(sin(x) > 0)` puts the fact on the node of `sin(x)`
   (`addf`, `compar.lisp:2300`); `killcontext(initial)` calls `remov`, and
   `remov4` (`db.lisp:580-597`) goes into the parts of the node, `x`, and leaves
   the node alone.  The mark of `initial` stays positive: `facts()` is empty and
   the sign of `sin(x)` still known.  A context of the user that is killed takes
   its mark along; once a context of that name is made and in force again its old
   facts are back.  The manual says that facts are "destroyed as a whole by
   calling `kill`" (`Database.texi:1341`) and that killing `initial` creates "a
   new, empty `initial` context" (`Database.texi:1505`).  kill(all) drops the
   nodes and so has no such effect; it also drops those of the facts of `global`,
   which it keeps: `facts(global)` lists a fact about an expression and no
   deduction uses it (`FactsInForce` says both).
6. `StaleAnswer.cfg`: the same for answers to questions.  An assumption of the
   evaluator in a context that it has killed stays on the node of an expression.
   It is newer than an answer that says the same, so that clearsign's `mkill`
   takes it off the node in the place of the answer (`compar.lisp:975`: "These
   facts are removed by clearsign after finishing the evaluation phase").
7. `IllegalReturn.cfg`: an error inside `block([x : 1], ...)` at top level.  The
   debugger calls `break-frame 0`; there is no call, `frame-info` returns nil
   (`mdebug.lisp:38`) and `(remove-bindings nil)` takes every binding off,
   before the user has typed anything: `x` looks unbound at the prompt.
   `:resume` puts the bindings back on new conses, `(eq bindl bindlist)` is
   false (`mlisp.lisp:2323`), and the block's next `return` is an "illegal
   return", which the manual's "continues with execution"
   (`Debugging.texi:28`) does not let one expect.

Consequences of the same code that need no run of their own but can be seen by
changing a constant or a condition:

* With `KillParents = TRUE`, `RootIsGlobal` fails: `killc` does not look for
  contexts built on the killed one.  Making the dead context anew on top of the
  survivor gives a cycle on which `cmark` does not end.
* `LeakedLocals.cfg` with `Irregular = {"badLocal"}`: `local` removes properties
  one by one but records the names only at the end; a non-symbol in between
  loses them.  With `"astray"`: `local` in an initial value, an argument or the
  expression of `ev` replaces the names of whatever frame is on top of `loclist`.
* `FrameShown` without `looks = 1`: the second outer frame that is selected
  shows the wrong bindings, because its tail is not `eq` to anything on
  `bindlist` after the first.  `ReturnsStayLegal` without `looks = 0`: inside a
  call too, after a look at an outer frame and `:resume`, `return` is an
  "illegal return"; a `throw` through `errlfun1` would look for its tail forever.

Met on the way:

* Debugger: `:frame n` for a frame that does not exist takes off all bindings.
  `:top` in a nested break loop goes up one level.  `:quit` in an error entered
  below a break-point can leave for the level above instead of its own.  After
  `:resume` from an error `merror` returns to code that does not expect it.  A
  nested `meval*` at a prompt clears the answers of the evaluation outside.
* Contexts: `killcontext` of a context never marked compares nil with 0
  (`KillcontextFails`).  `killallcontexts` resets two marks to 1 but not
  `contexts` or `activecontexts`: after `activate(initial)` and `kill(all)` the
  marks no longer count anything.
* Windows: a signal sent to a Maxima that dies before it sees it reaches the
  next one under that process id, if a sender kept the memory alive.
  `NoSignalFromNowhere` counts it as sent to that memory.  Of the missing return
  in getSharedMemoryPtr a wild pointer is modelled as the end of the GUI, so that
  nothing is said of where it would write.  `-signal INT` skips the first letter of its word, so that the
  example in `tclwinkill.c:5` fails and 15 reads as 5; getSharedMemoryPtr ends
  without a return; the list of memory is forgotten while interpreters use it.
* Coefficients: `fmod` corrects the wrong variable and misses the range its
  comment promises (`FmodMissesRange`); `mcmod` leaves negative bignums
  unreduced; for an even modulus a residue has two representations.
* Plotting: `f_call` saves no arguments, so recursion overwrites them; the least
  int divided by -1 traps; the stack has no limit; `execute_fun` is unfinished.

## What is proved

`ShallowBinding_proof`, for every `Var` and `Val` and for any nesting, assuming
only that `Unbound` is not a value:

* `BindInvariant`: the type invariant and `ValuesListExact`.  The two are
  inductive together: that a name is added to `$values` only when the cell was
  unbound needs exactness, and exactness needs the types of what is restored.
* `ShallowBindingIsDynamicScope`: `BindSpec => ImplementsDynamicScope`.  The
  argument: `OneMore` relates two states that differ by one binding;
  `BindingKeepsScopes` shows that such states agree on the value of every scope
  they share, so `mbind-doit` is `Enter` and `munbind`, read backwards, is
  `Leave`; `SetChangesInnermost` shows that setting a cell changes the value of
  exactly those scopes that no later binding of the same name hides, and
  `GreatestNatural` picks the innermost of them for `Assign`.

`EvalFrames_proof`, for every set of variables, values, functions and variable
lists, every depth of nesting, and with all three irregular inputs allowed:

* `EvalInvariant`: the inductive invariant `EInv`, and with it the type
  invariant.  `FramesOwnBindings` and `LoclistAboveMarks` are not inductive:
  they do not say what the *phase* of a frame implies.  `EInv` adds `FrameOK`
  (a frame in its body has bound all its variables, one in `args` none, a
  handler none ever, which phases each kind goes through), `Below` (a frame is
  entered only while the one below evaluates, and begins where that one's part
  of the lists ends), `Names` (what its part of `bindlist` says) and
  `ExitPhases` (no exit is under way while `mbind` or `errlfun1` works).  Every
  action replaces, pushes or pops the innermost frame; `ReplaceTop`,
  `PushFrame` and `PopFrame` say when that keeps the frames fitting, and there
  is one lemma per action (`...Kept`) that reduces it to one of them.
* `FramesOwnTheirBindings`, `LoclistStaysAboveMarks`, `ReturnsAreLegal` follow
  from `EInv` in any state.
* `FramesImplementShallowBinding`: the key is `UnbindsLast`.  A frame unbinds
  the variables of its own list; because its part of `bindlist` is the last
  part and names them in order, that is always the variable bound last, which
  is all that ShallowBinding allows.
* `EvaluatorIsDynamicallyScoped` composes it with
  `ShallowBindingIsDynamicScope`: whatever forms are nested and whatever exits
  pass through them, variables are dynamically scoped.
* `OuterValuesAreSafe`: an action property, from the invariant before and after
  a step and from `MarksKept` (a frame keeps the mark it was entered with).

* `CallStackIsExact`, by counting: the set of frames that have a record gains,
  loses or keeps exactly one member in each step.

Its second part is about local properties, under the hypothesis
`Irregular = {}`: both properties of `eval_locals`.  Without the hypothesis they
are false (`leaked_locals`); it leaves every exit, from every depth, that the
code provides for.  The invariant `LInv` joins `EInv`:

* `Shares`: `loclist` is made of the frames' own parts and nothing else (`EInv`
  has only an inequality, since irregular inputs leave parts behind), and a
  frame for which `local` may still be called has an empty part.
* `Caught`: an exit under way is caught before it reaches a call that evaluates
  its arguments or an `ev` in its first evaluation.
* `LocalTurn`: while `local` saves properties, the head of `loclist` is the
  empty part of the frame it works for.
* `Parallel`: there are as many names on `loclist`, with those being saved, as
  saved properties.

`SavedPropsAreRestored` follows at once.  `LocalMove` lists what a step can do
to names and properties: nothing, one assignment, one more name saved, or the
last one given back; there is a lemma per action (`...Local`).  To say so about
`FlattenSeq(loclist)` takes `FlattenAppend` and the `Names...` lemmas, proved
from its definition with least counterexamples, as induction is not at hand.
`LocalPropertiesAreScoped`: each of the four moves is a stutter, `Assign`,
`Enter` or `Leave` of DynamicScope by the lemmas of `ShallowBinding_proof`,
which the module instantiates with symbols for variables and properties for
values.

`Debugger_proof`, for all variables, values and parameter lists, any depth of
forms and break loops and every throw: every property of `debugger` but the
liveness.  The invariant `DInv` has one part per question.  `ChainOK` is
`ListsFollowStack` element by element; the other properties are not inductive
without it, nor is it without `StackOK`, which says how far each call and each
loop of the debugger is (what is left of its list is the right part of the list
it began with).  `InPlace` says of the break loop on top that what it has not
taken off yet, or has put back, is on `bindlist` with the values noted in
`had`; it carries `RestoredAsRemoved` through both loops.  `BoundHaveValues` is
why `symbol-value` never fails there.  `UnlookedOK` (what pointers and frames
are as long as no outer frame was selected) gives `ReturnsStayLegal`, and at the
first selection establishes `ShownOK`, which is `FrameShown` for all break loops
of the stack.  `Keeps` says what all actions have in common: the entries below
the top stay as they are but for pointers that become `Stale`; one lemma per
part of the invariant and one per action.  `DebuggerImplementsBindings` uses
`UnbindsOwn` (the variable a form unbinds is the one bound last), and
`DebuggerIsDynamicScope` composes it with `ShallowBindingIsDynamicScope`.

`DbContexts_proof`, for every set of contexts and facts, under the hypothesis
`~KillParents`: every property of `db_contexts`, from one inductive invariant,
`DbInv == DbOrder /\ DbMarked /\ DbData`.  `DbOrder` says that chains have no
cycle, stay among existing contexts and end in `global`, and where the lists
are while a killallcontexts is under way (a context may then be dead and still
below a living one); `DbMarked` is `MarksExact`, which needs `DbOrder`, since a
mark counts chains; `DbData` says that dead names have no facts.  `DbNodes`
(theorem `NodesInvariant`) relates nodes to contexts: equal for symbols and
numbers, and for other expressions at least what the contexts but `global` list;
`FactsSeen` (`FactsInForce`) and `KillAllDone` rest on it.  The marks are
the hard part: each operation changes them by walking one chain, and lemmas say
that `Mark` and `Unmark` add and take one root from the count.

`AskSign_proof`, for every set of contexts, of temporary contexts and facts, under
`Irregular = {}`: every property of `asksign`.  The difficulty is `mkill`: it
deletes by what a fact says, so one has to know that the newest fact that says
it is the one that is meant.  There are two layers:

* `AskInvariant` holds of every expression, a symbol or not.  No fact of the user
  that says the same as an answer is newer, and there are on the node as many
  that say it as `clearsign` will take (`AskAnswers`); while "not zero" is
  assumed it is in force, so that the sign is known not to be zero and nobody
  stores the same again (`AskNonzero`); the frames nest, each temporary context
  below what was selected when it was made (`AskFrames`, `AskTemps`).
  `AnswerIsKnown` and `FactsAreRetained` follow, also where facts of killed
  contexts are still on the node.
* `SymbolInvariant` adds, for a symbol, what finding 5 makes false for other
  expressions: the two lists agree, the answers stored are those to be taken
  back, and what the evaluator stored belongs to an open frame (`AskOwned`).
  `NodesAreExact` and `NothingIsLeft` follow.

`WinSignals_proof`, for any number of processes and any command lines:
`WinTypesOK`, `NoneMadeUp`, `ViewsOpen` and `DeliveredOnce`.  The invariant
`WinIInv` is one conjunct per party (memory, monitors, `winkill.exe`s, the
GUI), each saying what it has open and what it holds in its register at each
point of its program, and that nobody is between a load and a store if updates
are indivisible, from which `DeliveredOnce` follows action by action.

`ModArith_proof`, for every word size, modulus and sequence of operations:
`ModCoefExact`, `ModCoefReduced`, `ModTestsDecide` (from `ModIInv`, which says
of each register what `EachGood` says of one), `CarryRemainders` (the remainder
of a sum that overflowed is right) and `FmodMissesRange`.

`PlotStack_proof`, for every set of expressions, of any size, every set of
functions with one to four arguments, calls of any depth, recursive or not, and
whatever values and faults the operators produce:

* `LayoutsAreBalanced`: each place of a layout has a height, how many values an
  execution has on the stack when it reaches the place by whatever jumps
  (`Lifts`).  It is 0 at the first place and 1 behind the last one; every action
  finds at its place what it takes, and each place where it may go on, within
  the layout, has the height of what it leaves (`Fits`).  That is where `&&`,
  `||` and `?:` could go wrong, as their jumps pop on one path only.  Layouts
  that follow each other have heights that follow each other (`ConcatLifts`); a
  jump before a piece fits if its distance is the length of what it skips
  (`BeforeLifts`).  That *every* layout is balanced is an induction over
  expressions, made on the length of the layout: operands have shorter layouts,
  and a layout of least length that is not balanced cannot exist.
* `StackInvariant`: the stack is as high as the places of all executions say
  (`Heaped`): an execution has its own values above what was there when it
  began, and the next one begins above these, without its arguments, whose
  place its value will take.  An action replaces the upper values by others
  (`Replaces`), whether it is a function that leaves a value, one of the Bessel
  functions, which run several others on the stack (`ComposedLeaves`), or a
  jump; `Step` says that the stack then has the height of the next place,
  `PushFrame` and `PopFrame` the same of calls and returns.
* `EvaluationsBalance` (`StackBalanced`) and `NeverUnderflows` follow: check_stack
  never warns, and `pop`, which tests for an underflow only if `DEBUG` is
  defined, needs no test.
* `CallsSeeTheirArguments`: together with the invariant of the stack, which says
  that the arguments a call pops are its own.

The assumptions are those of the modules: `Unbound` is no value, `Undefined` no
definition, variable lists are sequences of variables, and so on.  Those of
`PlotStack` say what the parser of the evaluator has checked (the number of
operands, and that the functions called are defined) and, since it is not among
the sources, that layouts are put together from those of the operands, as the
jump functions and their comments have it; TLC evaluates them on the run, for
all its expressions.

Only model-checked: liveness (`EvaluationResumes`, `AlwaysBack`,
`SignalReachesMaxima`; outside the prover's reach), and what the plotting code
computes (`ValueIsMeaning`, `FaultsShow`): the meaning of an expression is
RECURSIVE, the bit operations are those of Bitwise, and fractions are reduced by
a search, none of which the prover can expand.

## Not modelled

* The algebraic and numerical algorithms, series, integration, solving: no
  state; their correctness is mathematics over unbounded expressions.
* Deduction by label propagation: nothing but the code says what it should
  deduce, and the one limit (the bits of a fixnum) is beyond small instances.
* Labels and `linenum`, tracing, arrays, rules: little interplay between their
  parts, and no document that says what an error in the middle should leave.
* Questions to `askinteger`: kept and cleared in the same way as signs.
* In the evaluator: `errset`, and the options `ev` binds beside its variables.
  In the debugger: stepping and the table of break-points, which only decide
  when a break loop is entered; in the model it may be entered at any time.
* Reader, display, files, translation to Lisp, plotting commands, the text
  protocol of the front end, start-up: formatting and input/output.
* Of the C sources: the generated initialisation of the GCL image, the driver
  of the plotting experiment (it does not run a body to its end), and two
  helpers without control.  `PROJECT.json` gives the reason for each.
