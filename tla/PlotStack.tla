------------------------------ MODULE PlotStack ------------------------------
(***************************************************************************)
(* The stack machine of the plotting code (src/archive/o/internal.c and      *)
(* standard.c).  Expressions are evaluated one after the other, as for the    *)
(* points of a curve.  What runs the actions of an expression, calls          *)
(* reset_stack before and check_stack after an evaluation and takes control   *)
(* when int_error gives one up is not among the sources.  The stack has no    *)
(* limit: push and pop test none (unless DEBUG is defined).                  *)
(***************************************************************************)
EXTENDS PlotCode

CONSTANTS Expr,            \* all expressions, with their operands
          Exprs,           \* what is evaluated first
          Probes,          \* what is evaluated then
          Code(_, _),      \* an expression laid out, as part of a function
          Outcomes(_, _)   \* what a function may make of its operands

ASSUME PlotStackAssumption ==
  /\ Half \in Nat \ {0}
  /\ \A f \in DOMAIN Udf : Udf[f].n_arg \in 1 .. 4 /\ Udf[f].body \in Expr \cup {NoBody}
  /\ Exprs \cup Probes \subseteq Expr
  /\ \A e \in Expr : Parsed(e, Expr)

(* The layout of an expression is made of those of its operands. *)
ASSUME PlotCodeAssumption ==
  \A e \in Expr, fn \in DOMAIN Udf \cup {"main"} :
    /\ Code(e, fn) \in Seq(Seqs!ToSet(Code(e, fn)))
    /\ Code(e, fn) = Laid(e, fn, [i \in 1 .. Len(e.args) |-> Code(e.args[i], fn)])

VARIABLES expr,       \* the expression
          status,     \* "idle", "run", "done", or how it ended: "int_error", "trap"
          frames,     \* the executions of actions, the last one on top
          stack,      \* stack[0 .. s_p]
          undefined,  \* the flag
          dummy,      \* dummy_value, dummy_value1, 2 and 3 of each function
          result,     \* the value of the evaluation
          reentered   \* a function was called while a call of it was active

plotvars == <<expr, status, frames, stack, undefined, dummy, result, reentered>>

(***************************************************************************)
(* The f_ functions on the stack: what may become of the machine             *)
(* m = [stack, undefined, status].                                         *)
(***************************************************************************)

Machine(s, u, st) == [stack |-> s, undefined |-> u, status |-> st]

Top(s) == s[Len(s)]
Under(s, n) == SubSeq(s, 1, Len(s) - n)
Upper(s, n) == SubSeq(s, Len(s) - n + 1, Len(s))

(* How many operands a function or action takes from the stack. *)
Takes(op) == IF op \in Two THEN 2 ELSE IF op \in One \cup Bessel THEN 1 ELSE 0

(* What is left when int_error is called: bool does not pop, and the logical  *)
(* operators test the second operand before they pop the first.              *)
Left(op, s) == IF op = "bool" THEN s
               ELSE IF op \in Two /\ ~(op \in Logicals /\ ~IsInt(Top(s))) THEN Under(s, 2) ELSE Under(s, 1)

Becomes(op, m, o) ==
  IF o.flag \in {"int_error", "trap"} THEN Machine(Left(op, m.stack), m.undefined, o.flag)
  ELSE Machine(Append(Under(m.stack, Takes(op)), o.val), m.undefined \/ o.flag = "undefined", m.status)

Operator(op, m) == {Becomes(op, m, o) : o \in Outcomes(op, Upper(m.stack, Takes(op)))}

(* Bessel functions call others and push their argument a again:             *)
(* x = [a, of], of the machines reached so far.                             *)
Pushed(m, a) == Machine(Append(m.stack, a), m.undefined, m.status)
AndThen(x, op) == [a |-> x.a,
                   of |-> {m \in x.of : m.status # "run"}
                          \cup UNION {IF op = "push" THEN {Pushed(m, x.a)} ELSE Operator(op, m) :
                                     m \in {n \in x.of : n.status = "run"}}]
x ++ op == AndThen(x, op)

f_besj0(x) == x ++ "sin" ++ "push" ++ "div"
f_besj1(x) == x ++ "sin" ++ "push" ++ "push" ++ "mult" ++ "div" ++ "push" ++ "cos" ++ "push" ++ "div" ++ "minus"
f_besy0(x) == x ++ "cos" ++ "push" ++ "div" ++ "uminus"
f_besy1(x) == x ++ "cos" ++ "push" ++ "push" ++ "mult" ++ "div" ++ "push" ++ "sin" ++ "push" ++ "div" ++ "plus"
                ++ "uminus"

Composed(op, m) ==
  LET x == [a |-> Top(m.stack), of |-> {m}]
  IN CASE op = "besj0" -> f_besj0(x).of [] op = "besj1" -> f_besj1(x).of
       [] op = "besy0" -> f_besy0(x).of [] op = "besy1" -> f_besy1(x).of

(***************************************************************************)
(* Jumps: what is left on the stack, and how far to go.                      *)
(***************************************************************************)

Goes(s, go) == {[stack |-> s, go |-> go]}
f_jump(s, j_arg) == Goes(s, j_arg)
f_jumpz(s, j_arg) == Either(Top(s).int, Goes(s, j_arg), Goes(Under(s, 1), 1))
f_jumpnz(s, j_arg) == Either(Top(s).int, Goes(Under(s, 1), 1), Goes(s, j_arg))
f_jtern(s, j_arg) == Either(Top(s).int, Goes(Under(s, 1), j_arg), Goes(Under(s, 1), 1))

JumpOps == {"jump", "jumpz", "jumpnz", "jtern"}
JumpTo(op, s, j_arg) ==
  CASE op = "jump" -> f_jump(s, j_arg) [] op = "jumpz" -> f_jumpz(s, j_arg)
    [] op = "jumpnz" -> f_jumpnz(s, j_arg) [] op = "jtern" -> f_jtern(s, j_arg)

(***************************************************************************)
(* Evaluation.                                                             *)
(***************************************************************************)

(* Mutant: what an evaluation that was given up left stays on the stack. *)
KeepsStack(s) == s

reset_stack(s) == <<>>

Execution(fn, e, args, below) ==
  [fn |-> fn, code |-> Code(e, fn), pc |-> 1, args |-> args, below |-> below]

Evaluate(e) ==
  /\ status # "run"
  /\ expr' = e /\ status' = "run" /\ undefined' = FALSE /\ reentered' = FALSE
  /\ stack' = reset_stack(stack)
  /\ frames' = <<Execution("main", e, <<>>, stack')>>
  /\ UNCHANGED <<dummy, result>>

PlotInit ==
  /\ expr = NoBody /\ status = "idle" /\ frames = <<>> /\ stack = <<>> /\ undefined = FALSE
  /\ dummy = [f \in DOMAIN Udf |-> [k \in 1 .. 4 |-> integer(Q(0))]]
  /\ result = integer(Q(0)) /\ reentered = FALSE

Here == frames[Len(frames)]
Action == Here.code[Here.pc]
Doing(ops) == status = "run" /\ Here.pc <= Len(Here.code) /\ Action.op \in ops
Skip(n) == [frames EXCEPT ![Len(frames)].pc = @ + n]
GivesUp == status' = "int_error" /\ UNCHANGED <<frames, undefined>>
Pushes(v) == stack' = Append(stack, v) /\ frames' = Skip(1) /\ UNCHANGED <<status, undefined>>
Keeps == UNCHANGED <<expr, dummy, result, reentered>>

Operate ==
  /\ Doing(One \cup Two \cup Bessel \cup {"rand"})
  /\ LET m == Machine(stack, undefined, status)
     IN \E n \in IF Action.op \in Bessel THEN Composed(Action.op, m) ELSE Operator(Action.op, m) :
          stack' = n.stack /\ undefined' = n.undefined /\ status' = n.status
  /\ frames' = Skip(1) /\ Keeps

f_push == /\ Doing({"push"}) /\ Keeps
          /\ \/ Action.name \in DOMAIN Var /\ Pushes(Var[Action.name])
             \/ Action.name \notin DOMAIN Var /\ GivesUp /\ UNCHANGED stack
f_pushc == Doing({"pushc"}) /\ Pushes(Action.val) /\ Keeps
f_pushd == Doing({"pushd"}) /\ Pushes(dummy[Action.fn][Action.i + 1]) /\ Keeps

(* Mutant: the arguments are popped into the dummies first to last. *)
PoppedInOrder(old, s, n) == [k \in 1 .. 4 |-> IF k <= n THEN s[Len(s) - k + 1] ELSE old[k]]

Popped(old, s, n) == [k \in 1 .. 4 |-> IF k <= n THEN s[Len(s) - n + k] ELSE old[k]]

f_call ==
  /\ Doing({"call"}) /\ UNCHANGED <<expr, result>>
  /\ LET fn == Action.fn  n == Udf[fn].n_arg
     IN \/ /\ Udf[fn].body = NoBody
           /\ GivesUp /\ UNCHANGED <<stack, dummy, reentered>>
        \/ /\ Udf[fn].body # NoBody
           /\ dummy' = [dummy EXCEPT ![fn] = Popped(@, stack, n)]
           /\ stack' = Under(stack, n)
           /\ frames' = Append(Skip(1), Execution(fn, Udf[fn].body, Upper(stack, n), stack'))
           /\ reentered' = (reentered \/ \E i \in DOMAIN frames : frames[i].fn = fn)
           /\ UNCHANGED <<status, undefined>>

Jumps ==
  /\ Doing(JumpOps) /\ Keeps
  /\ LET op == Action.op
     IN \/ /\ op # "jump" /\ ~IsInt(Top(stack))
           /\ GivesUp /\ stack' = IF op = "jtern" THEN Under(stack, 1) ELSE stack
        \/ /\ op = "jump" \/ IsInt(Top(stack))
           /\ \E g \in JumpTo(op, stack, Action.j_arg) : stack' = g.stack /\ frames' = Skip(g.go)
           /\ UNCHANGED <<status, undefined>>

(* The end of the actions: of a function, or of the expression, whose value   *)
(* is popped.                                                               *)
Return == /\ status = "run" /\ Here.pc > Len(Here.code) /\ Len(frames) > 1
          /\ frames' = Seqs!Front(frames)
          /\ Keeps /\ UNCHANGED <<status, stack, undefined>>
Finish == /\ status = "run" /\ Here.pc > Len(Here.code) /\ Len(frames) = 1
          /\ result' = Top(stack) /\ stack' = Under(stack, 1)
          /\ status' = "done" /\ frames' = <<>>
          /\ UNCHANGED <<expr, undefined, dummy, reentered>>

PlotNext == \/ \E e \in (IF status = "idle" THEN Exprs ELSE Probes) : Evaluate(e)
            \/ Operate \/ f_push \/ f_pushc \/ f_pushd \/ f_call \/ Jumps \/ Return \/ Finish

PlotSpec == PlotInit /\ [][PlotNext]_plotvars

(***************************************************************************)
(* Properties.                                                             *)
(***************************************************************************)

(* Each execution leaves what is below its arguments alone and one value     *)
(* above; check_stack never warns, even after an evaluation that was given up. *)
StackBalanced ==
  /\ status = "done" => stack = <<>>
  /\ status = "run" => \A i \in DOMAIN frames :
       /\ Seqs!IsPrefix(frames[i].below, stack)
       /\ i = Len(frames) /\ frames[i].pc > Len(frames[i].code) => Len(stack) = Len(frames[i].below) + 1

(* Without recursion a function sees the arguments of its own call until it   *)
(* is left, whatever is called in between.                                  *)
CallSeesArguments == status = "run" /\ ~reentered =>
  \A i \in DOMAIN frames \ {1} : \A k \in 1 .. Udf[frames[i].fn].n_arg :
    dummy[frames[i].fn][k] = frames[i].args[k]
=============================================================================
