------------------------------ MODULE AskSign ------------------------------
(***************************************************************************)
(* Questions about a sign and facts that last for a part of an evaluation,   *)
(* over the contexts (src/compar.lisp: assume, forget, asksign-p-or-n,       *)
(* asksign1, ensure-sign, match-sign, clearsign, tdpos, tdneg, mdata;         *)
(* src/rpart.lisp: absarg1; src/maxmac.lisp: with-new-context; src/db.lisp:   *)
(* cntxt, kcntxt, addf, maxima-remf, remov; src/suprv1.lisp: the evaluation   *)
(* of one expression).                                                      *)
(*                                                                         *)
(* A new fact goes to the head of the data list of its context and of that of *)
(* the node it is about.  To forget one is to delete the first that says the   *)
(* same from each of the two lists: from that of the node it may be the fact  *)
(* of another context.                                                     *)
(*                                                                         *)
(* Everything here is about the sign of one expression, which is a symbol if   *)
(* Composite is empty.  What DbContexts calls a fact is a stored one; the      *)
(* greater its id, the newer it is.                                         *)
(***************************************************************************)
EXTENDS DbContexts

CONSTANTS Temp,        \* the names that with-new-context makes up
          MaxFact,     \* bound on the ids
          MaxFrames,   \* bound on the nesting of frames
          Irregular    \* what the user's program may do that upsets the
                       \* evaluator: "known", "elsewhere", "midway", "root"

Sign == {"pos", "neg"}
Pred == Sign \cup {"ne"}
Stored == [id : 1 .. MaxFact, pred : Pred, con : Ctx, by : {"user", "evaluator", "answer"}]

ASSUME AskAssumption == /\ Fact = Stored /\ Composite \in {{}, Stored}
                        /\ Temp \subseteq Ctx \ {Global, Initial}
                        /\ MaxFact \in Nat /\ MaxFrames \in Nat
                        /\ Irregular \subseteq {"known", "elsewhere", "midway", "root"}

VARIABLES localSigns,   \* *local-signs*, the answers of this evaluation
          frames,       \* the unwind-protects that are open, the innermost last
          clearing      \* the evaluation is over, clearsign is running

askvars == <<dbvars, localSigns, frames, clearing>>

AskInit == DbInit /\ localSigns = <<>> /\ frames = <<>> /\ clearing = FALSE

(***************************************************************************)
(* Facts.                                                                  *)
(***************************************************************************)

Implies(q, p) == q = p \/ (q \in Sign /\ p = "ne")
Contradicts(q, p) == q # p /\ {q, p} = Sign

(* What a deduction can use when it has called contextmark. *)
Visible == LET marks == MarkedFor(context) IN {d \in nodes : Positive(marks[d.con])}
Holds(p) == \E d \in Visible : Implies(d.pred, p)
Refuted(p) == \E d \in Visible : Contradicts(d.pred, p)

AllFacts == nodes \cup UNION {data[c] : c \in Ctx}
NewFact(p, con, by) ==
  [id |-> 1 + Max({0} \cup {d.id : d \in AllFacts}), pred |-> p, con |-> con, by |-> by]

(* The head of those on a list that say p. *)
FirstOf(list, p) == {d \in list : d.pred = p /\ \A e \in list : e.pred = p => e.id <= d.id}

(* Mutant: only the context's list is searched, the node's is not. *)
ForgottenInContext(p, con) == /\ data' = [data EXCEPT ![con] = @ \ FirstOf(@, p)]
                              /\ UNCHANGED nodes
(* Mutant: a new fact goes to the end of the lists. *)
OldestOf(list, p) == {d \in list : d.pred = p /\ \A e \in list : e.pred = p => e.id >= d.id}
ForgottenOldest(p, con) == /\ data' = [data EXCEPT ![con] = @ \ OldestOf(@, p)]
                           /\ nodes' = nodes \ OldestOf(nodes, p)
(* mkill: fdel on the list of the context and on that of the node. *)
Forgotten(p, con) == /\ data' = [data EXCEPT ![con] = @ \ FirstOf(@, p)]
                     /\ nodes' = nodes \ FirstOf(nodes, p)

(* assume: a fact is stored unless it is redundant or inconsistent. *)
AssumeBy(p, by) ==
  IF Holds(p) \/ Refuted(p) THEN Deduce
  ELSE LET d == NewFact(p, context, by) IN d \in Fact /\ Assume(d)

(***************************************************************************)
(* The user's program, between the evaluator's own frames.                 *)
(***************************************************************************)

InProgram == frames = <<>> /\ ~clearing
UserName == Ctx \ Temp

(* Where another context holds the same. *)
Alone(p) == (\E d \in nodes : d.pred = p /\ d.con # context) => "elsewhere" \in Irregular
(* While there are answers. *)
NotMidway == localSigns # <<>> => "midway" \in Irregular

UserAssume(p) == /\ InProgram /\ Alone(p)
                 /\ AssumeBy(p, "user")
                 /\ UNCHANGED <<killing, tidy, localSigns, frames, clearing>>

UserForget(p) == /\ InProgram /\ Alone(p) /\ NotMidway
                 /\ Forgotten(p, context)
                 /\ UNCHANGED <<lists, context, current, subc, cmark>>
                 /\ UNCHANGED <<killing, tidy, localSigns, frames, clearing>>

UserContext ==
  /\ InProgram
  /\ \/ \E c \in UserName : \/ Select(c) \/ Newcontext(c) \/ Activate(c) \/ Deactivate(c)
                            \/ KillcontextRefused(c) \/ KillcontextFails(c)
                            \/ \E sub \in UserName : Supcontext(c, sub)
                            \/ (\A d \in Known : subc[d] # c) /\ Killcontext(c)
     \/ NotMidway /\ KillcontextInitial
  /\ UNCHANGED <<killing, tidy, localSigns, frames, clearing>>

(***************************************************************************)
(* The evaluator.                                                          *)
(***************************************************************************)

(* asksign1, when the sign is known. *)
SignKnown == /\ ~clearing
             /\ \E s \in Sign : Holds(s)
             /\ Deduce
             /\ UNCHANGED <<killing, tidy, localSigns, frames, clearing>>

(* Mutant: the answer goes to the selected context. *)
AskHere(s) ==
  /\ ~clearing /\ ~ \E q \in Sign : Holds(q)
  /\ localSigns # <<>> => s = Last(localSigns)
  /\ LET d == NewFact(s, context, "answer") IN
     /\ d \in Fact
     /\ data' = [data EXCEPT ![context] = @ \cup {d}]
     /\ nodes' = nodes \cup {d}
  /\ Clear
  /\ localSigns' = Append(localSigns, s)
  /\ UNCHANGED <<killing, tidy, frames, clearing>>

(* asksign1, when it is not: the user is asked, or has been asked in this      *)
(* evaluation already; the answer is stored in initial, not in the selected   *)
(* context, also if it has been stored before.                              *)
Ask(s) ==
  /\ ~clearing /\ ~ \E q \in Sign : Holds(q)
  /\ localSigns # <<>> => s = Last(localSigns)
  /\ LET d == NewFact(s, Initial, "answer") IN
     /\ d \in Fact
     /\ data' = [data EXCEPT ![Initial] = @ \cup {d}]
     /\ nodes' = nodes \cup {d}
  /\ Clear
  /\ localSigns' = Append(localSigns, s)
  /\ UNCHANGED <<killing, tidy, frames, clearing>>

(* with-new-context: a context of its own on top of the selected one, with a   *)
(* name that nothing has, ...  When the selected one is global, killcontext    *)
(* will select initial in its place.                                        *)
EnterContext(c) ==
  /\ ~clearing /\ Len(frames) < MaxFrames
  /\ context = Global => "root" \in Irregular
  /\ c \in Temp /\ (\A d \in nodes : d.con # c) /\ Supcontext(c, context)
  /\ frames' = Append(frames, [kind |-> "context", name |-> c, before |-> context])
  /\ UNCHANGED <<killing, tidy, localSigns, clearing>>

(* ... where the evaluator assumes what it needs, ... *)
LocalAssume(p) ==
  /\ ~clearing /\ frames # <<>> /\ Last(frames).kind = "context"
  /\ AssumeBy(p, "evaluator")
  /\ UNCHANGED <<killing, tidy, localSigns, frames, clearing>>

(* ... and which is killed in the end, also by an error.  It is the selected   *)
(* context, so killcontext does not refuse.                                 *)
LeaveContext ==
  /\ ~clearing /\ frames # <<>> /\ Last(frames).kind = "context"
  /\ Killcontext(Last(frames).name)
  /\ frames' = Front(frames)
  /\ UNCHANGED <<killing, tidy, localSigns, clearing>>

(* asksign-p-or-n and absarg1 assume that the expression is not zero, in the  *)
(* selected context, and do not look whether that is redundant, ...          *)
EnterNonzero ==
  /\ ~clearing /\ Len(frames) < MaxFrames
  /\ Holds("ne") /\ (\E d \in nodes : d.pred = "ne") => "known" \in Irregular
  /\ AssumeBy("ne", "evaluator")
  /\ frames' = Append(frames, [kind |-> "nonzero", name |-> context, before |-> context])
  /\ UNCHANGED <<killing, tidy, localSigns, clearing>>

(* ... and forget it in the end, also after an error. *)
LeaveNonzero ==
  /\ ~clearing /\ frames # <<>> /\ Last(frames).kind = "nonzero"
  /\ Forgotten("ne", context)
  /\ frames' = Front(frames)
  /\ UNCHANGED <<lists, context, current, subc, cmark>>
  /\ UNCHANGED <<killing, tidy, localSigns, clearing>>

(* The evaluator has evaluated its expression, or an error has ended it. *)
EvaluationEnds == /\ InProgram /\ localSigns # <<>>
                  /\ clearing' = TRUE
                  /\ UNCHANGED <<dbvars, localSigns, frames>>

(* Mutant: what the answers were is forgotten with the first of them. *)
ClearsignFirst ==
  /\ clearing
  /\ Forgotten(Last(localSigns), Initial)
  /\ localSigns' = <<>> /\ clearing' = FALSE
  /\ UNCHANGED <<lists, context, current, subc, cmark>>
  /\ UNCHANGED <<killing, tidy, frames>>

(* One turn of the loop of clearsign. *)
Clearsign ==
  /\ clearing
  /\ Forgotten(Last(localSigns), Initial)
  /\ localSigns' = Front(localSigns) /\ clearing' = (Len(localSigns) > 1)
  /\ UNCHANGED <<lists, context, current, subc, cmark>>
  /\ UNCHANGED <<killing, tidy, frames>>

AskNext == \/ \E p \in Pred : UserAssume(p) \/ UserForget(p) \/ LocalAssume(p)
           \/ UserContext
           \/ SignKnown \/ \E s \in Sign : Ask(s)
           \/ \E c \in Temp : EnterContext(c)
           \/ LeaveContext \/ EnterNonzero \/ LeaveNonzero
           \/ EvaluationEnds \/ Clearsign

AskSpec == AskInit /\ [][AskNext]_askvars

(***************************************************************************)
(* Properties.                                                             *)
(***************************************************************************)

(* The two places where a fact about a symbol is kept agree: deductions follow *)
(* exactly the facts that facts() lists and killcontext will find, although    *)
(* mkill searches each list by itself (fdel, db.lisp:455).  Of an expression   *)
(* that is no symbol the node keeps the facts of a killed context.           *)
NodesExact == /\ nodes = UNION {data[c] : c \in Ctx}
              /\ \A c \in Ctx : \A d \in data[c] : d.con = c

(* "These facts are removed by clearsign after finishing the evaluation"      *)
(* (compar.lisp:976): when an evaluation is over none of its answers and      *)
(* none of the evaluator's own assumptions is left, however often the same     *)
(* answer was stored, whatever was selected, activated and killed meanwhile.  *)
(* So if the expression is a symbol.                                        *)
NothingLeft == /\ localSigns = <<>> => \A d \in AllFacts : d.by # "answer"
               /\ frames = <<>> => \A d \in AllFacts : d.by # "evaluator"

(* The same of an expression that is no symbol: what a deduction sees are     *)
(* never the answers of an evaluation that is over.  Not true if an assumption *)
(* that the evaluator has killed in the meantime is newer than the answer and  *)
(* still on the node (db.lisp:588): clearsign takes that one.                *)
AnswersRemoved == localSigns = <<>> => \A d \in Visible : d.by # "answer"

(* "The user's answer is recorded in the data base for the duration of the    *)
(* current computation" (Database.texi:1053): as long as initial is in force   *)
(* an answer is known, also in and after the contexts made on the way.       *)
AnswerKnown ==
  localSigns # <<>> /\ ~clearing /\ Initial \in InForce => Holds(Last(localSigns))

(* "The facts contained in that context will be retained in storage until     *)
(* destroyed one by one by calling forget or destroyed as a whole by calling   *)
(* kill" (Database.texi:1339): what the evaluator forgets and kills at the     *)
(* end of its own assumptions and of an evaluation are never the user's facts. *)
UserFacts == {d \in nodes : d.by = "user"}
FactsRetained == [][frames # <<>> \/ clearing => UserFacts \subseteq UserFacts']_askvars
=============================================================================
