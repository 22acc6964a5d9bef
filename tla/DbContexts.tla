----------------------------- MODULE DbContexts -----------------------------
(***************************************************************************)
(* The contexts of the assume database (src/compar.lisp: $activate,         *)
(* $deactivate, asscontext, $newcontext, $supcontext, killcontext,           *)
(* killallcontexts, which is the last step of kill(all);                    *)
(* src/db.lisp: activate, deactivate, cntxt, kcntxt, cntp, contextmark,     *)
(* cmark, cunmrk, killc, remov).                                            *)
(*                                                                         *)
(* A context names a set of facts and has one subcontext, whose facts are   *)
(* in force with its own; global has none.  A fact is used in a deduction   *)
(* if the mark of its context is positive.  A mark counts: a context is     *)
(* marked once by the current context, if that is itself or lies above it,  *)
(* and once by each activated context of that kind.  The current context    *)
(* moves its marks lazily: context is what the user selected, current is    *)
(* the one that is marked, and contextmark, called at the start of every    *)
(* deduction, lets current catch up.                                        *)
(*                                                                         *)
(* A fact is kept twice: on the data list of its context, which facts() and  *)
(* killcontext read, and on those of the nodes it is about, which deductions *)
(* follow.  The node of a symbol or a number is the symbol or the number;    *)
(* that of any other expression is an entry of dobjects, and remov, by which *)
(* a context is killed, does not take the fact off that one.                 *)
(***************************************************************************)
EXTENDS Integers, FiniteSets, SequencesExt

CONSTANTS Ctx,          \* the symbols that name contexts
          Global, Initial,
          Fact,         \* the facts; no two of them say the same
          Composite,    \* those about an expression that is no symbol and no number
          NoCtx,        \* an empty or missing subc property
          NoMark,       \* a missing cmark property
          KillParents   \* killcontext is also used on subcontexts of other contexts

ASSUME CtxAssumption == /\ Global \in Ctx /\ Initial \in Ctx /\ Global # Initial
                        /\ \A f \in Fact : f.con \in Ctx
                        /\ Composite \subseteq Fact
                        /\ NoCtx \notin Ctx /\ NoMark \notin Int
                        /\ KillParents \in BOOLEAN

VARIABLES userContexts,    \* $contexts, the newest first
          activecontexts,  \* $activecontexts
          contexts,        \* the activated contexts as db.lisp knows them
          context,         \* the selected context ($context and context)
          current,         \* the context whose marks are in place
          subc,            \* [Ctx -> Ctx \cup {NoCtx}]
          cmark,           \* [Ctx -> Int \cup {NoMark}]
          data,            \* [Ctx -> SUBSET Fact], the facts of a context
          nodes,           \* the facts on the data lists of the nodes they are about
          killing,         \* the contexts killallcontexts has still to kill
          tidy             \* history: every killallcontexts left no context activated

lists == <<userContexts, activecontexts, contexts>>
dbvars == <<userContexts, activecontexts, contexts, context, current, subc, cmark, data,
            nodes, killing, tidy>>

Known == Range(userContexts)

(* The state after the database is loaded: its own facts are in global, and  *)
(* newcontext has made initial the selected context.                        *)
DbInit == /\ userContexts = <<Initial, Global>>
          /\ killing = <<>> /\ tidy = TRUE
          /\ activecontexts = {} /\ contexts = {}
          /\ context = Initial /\ current = Global
          /\ subc = [c \in Ctx |-> IF c = Initial THEN Global ELSE NoCtx]
          /\ cmark = [c \in Ctx |-> IF c = Global THEN 1 ELSE NoMark]
          /\ data = [c \in Ctx |-> {}] /\ nodes = {}

(***************************************************************************)
(* Marks.                                                                  *)
(***************************************************************************)

(* c, its subcontext, the subcontext of that, and so on: what the recursion  *)
(* of cmark and cunmrk over subc visits.                                    *)
Closed(S) == \A c \in S : subc[c] \in S \cup {NoCtx}
Chain(c) == {d \in Ctx : \A S \in SUBSET Ctx : c \in S /\ Closed(S) => d \in S}

(* cmark: one more mark on c and what is below it. *)
Mark(cm, c) == LET chain == Chain(c) IN
  [d \in Ctx |-> IF d \notin chain THEN cm[d] ELSE IF cm[d] = NoMark THEN 1 ELSE cm[d] + 1]

(* cunmrk: one less, where there is one. *)
Unmark(cm, c) == LET chain == Chain(c) IN
  [d \in Ctx |-> IF d \in chain /\ cm[d] # NoMark THEN cm[d] - 1 ELSE cm[d]]

(* Mutant: the marks of the old current context stay. *)
MarkedForBoth(con) == IF current = con THEN cmark ELSE Mark(cmark, con)

(* contextmark, when con is the selected context. *)
MarkedFor(con) == IF current = con THEN cmark ELSE Mark(Unmark(cmark, current), con)

Positive(m) == IF m = NoMark THEN FALSE ELSE m > 0

(***************************************************************************)
(* Operations.                                                             *)
(***************************************************************************)

(* clear, at the start of every deduction, calls contextmark. *)
Clear == /\ cmark' = MarkedFor(context)
         /\ current' = context
         /\ UNCHANGED <<lists, context, subc>>

Deduce == Clear /\ UNCHANGED <<data, nodes>>

(* assume and forget work on the selected context.  assume first tries to      *)
(* deduce what it is given; if that fails it stores a fact of that context     *)
(* there and on the nodes.                                                  *)
Assume(f) == /\ f.con = context /\ f \notin data[context] \cup nodes
             /\ data' = [data EXCEPT ![context] = @ \cup {f}]
             /\ nodes' = nodes \cup {f}
             /\ Clear

(* Of a fact of the selected context, also one that only its node still has. *)
Forget(f) == /\ f.con = context /\ f \in data[context] \cup nodes
             /\ data' = [data EXCEPT ![context] = @ \ {f}]
             /\ nodes' = nodes \ {f}
             /\ UNCHANGED <<lists, context, current, subc, cmark>>

(* context : c, for a context that exists. *)
Select(c) == /\ c \in Known
             /\ context' = c
             /\ UNCHANGED <<lists, current, subc, cmark, data, nodes>>

Create(c, sub) == /\ c \notin Known
                  /\ userContexts' = <<c>> \o userContexts
                  /\ subc' = [subc EXCEPT ![c] = sub]
                  /\ context' = c
                  /\ UNCHANGED <<activecontexts, contexts, current, cmark, data, nodes>>

(* Mutant: without the subc property. *)
NewcontextAlone(c) == Create(c, NoCtx)

(* Also context : c, for one that does not exist. *)
Newcontext(c) == Create(c, Global)

(* Without a second argument the subcontext is the selected context. *)
Supcontext(c, sub) == sub \in Known \cup {context} /\ Create(c, sub)

Activate(c) ==
  /\ c \in Known \ activecontexts
  /\ activecontexts' = activecontexts \cup {c}
  /\ contexts' = contexts \cup {c}
  /\ cmark' = IF c \in contexts THEN cmark ELSE Mark(cmark, c)
  /\ UNCHANGED <<userContexts, context, current, subc, data, nodes>>

(* Mutant: db.lisp's deactivate does not look whether c is activated. *)
DeactivatedAlways(cm, c) == Unmark(cm, c)

(* The state of the lists and the marks cm after deactivate(c). *)
Deactivated(cm, c) == IF c \in contexts THEN Unmark(cm, c) ELSE cm

Deactivate(c) ==
  /\ c \in Known
  /\ activecontexts' = activecontexts \ {c}
  /\ contexts' = contexts \ {c}
  /\ cmark' = Deactivated(cmark, c)
  /\ UNCHANGED <<userContexts, context, current, subc, data, nodes>>

(* killcontext asks whether c is marked only if the selected context is      *)
(* another one and contextmark returns something: the list of subcontexts    *)
(* it walked, and only if it had to move the marks.                         *)
AsksForMark(c) == c # context /\ current # context /\ subc[context] # NoCtx

(* Refused as "currently active"; contextmark has been called. *)
KillcontextRefused(c) ==
  /\ c \in Known \ {Global, Initial}
  /\ AsksForMark(c) /\ Positive(MarkedFor(context)[c])
  /\ Deduce

(* c never had a mark: the comparison with it is an error. *)
KillcontextFails(c) ==
  /\ c \in Known \ {Global, Initial}
  /\ AsksForMark(c) /\ MarkedFor(context)[c] = NoMark
  /\ Deduce

(* The facts are off the list of c.  remov takes them off symbols and numbers; *)
(* of a node of dobjects it goes into the parts of the expression instead.    *)
Emptied(c) == /\ data' = [data EXCEPT ![c] = {}]
              /\ nodes' = nodes \ (data[c] \ Composite)

(* Mutant: initial is left alone, as global is. *)
KillcontextInitialNot == UNCHANGED <<lists, context, current, subc, cmark, data, nodes>>
(* Killing initial empties it; the mark stays. *)
KillcontextInitial == /\ Emptied(Initial)
                      /\ UNCHANGED <<lists, context, current, subc, cmark>>

(* Mutant: a killed context stays selected. *)
NextContextSame(c) == context

(* Mutant: the subcontext even of a context that has none left but global. *)
NextContextBelow(c) == IF c # context THEN context ELSE NoCtx

(* The context that is selected once c is gone. *)
NextContext(c) == IF c # context THEN context
                  ELSE IF subc[c] = Global THEN Initial ELSE subc[c]

(* The marks when killc has called contextmark: if contextmark was already   *)
(* called for the selected context it has nothing to do unless c was that.   *)
MarksAfterKill(c) ==
  LET asked == IF c # context THEN MarkedFor(context) ELSE cmark
      from == IF c # context THEN context ELSE current
      off == IF c \in activecontexts THEN Deactivated(asked, c) ELSE asked
  IN  IF from = NextContext(c) THEN off ELSE Mark(Unmark(off, from), NextContext(c))

(* $delete, from a list without repetitions. *)
Deleted(s, c) == RemoveAt(s, CHOOSE i \in 1 .. Len(s) : s[i] = c)

(* Mutant: the context stays on the lists of activated contexts. *)
KillcontextKeepsActive(c) ==
  /\ c \in Known \ {Global, Initial}
  /\ AsksForMark(c) => MarkedFor(context)[c] # NoMark /\ MarkedFor(context)[c] <= 0
  /\ userContexts' = Deleted(userContexts, c)
  /\ UNCHANGED <<activecontexts, contexts>>
  /\ context' = NextContext(c)
  /\ current' = NextContext(c)
  /\ cmark' = [MarksAfterKill(c) EXCEPT ![c] = NoMark]
  /\ subc' = [subc EXCEPT ![c] = NoCtx]
  /\ Emptied(c)

Killcontext(c) ==
  /\ c \in Known \ {Global, Initial}
  /\ AsksForMark(c) => MarkedFor(context)[c] # NoMark /\ MarkedFor(context)[c] <= 0
  /\ userContexts' = Deleted(userContexts, c)
  /\ activecontexts' = activecontexts \ {c}
  /\ contexts' = IF c \in activecontexts THEN contexts \ {c} ELSE contexts
  /\ context' = NextContext(c)
  /\ current' = NextContext(c)
  /\ cmark' = [MarksAfterKill(c) EXCEPT ![c] = NoMark]
  /\ subc' = [subc EXCEPT ![c] = NoCtx]
  /\ Emptied(c)

(* What killallcontexts sets when it has been through the list: neither       *)
(* contexts nor $activecontexts.  With dobjects go the nodes of expressions.  *)
KillallcontextsReset ==
  /\ context' = Initial /\ current' = Initial
  /\ userContexts' = <<Initial, Global>>
  /\ cmark' = [cmark EXCEPT ![Global] = 1, ![Initial] = 1]
  /\ subc' = [subc EXCEPT ![Initial] = Global]
  /\ nodes' = nodes \ Composite
  /\ tidy' = (tidy /\ contexts = {})
  /\ UNCHANGED <<activecontexts, contexts, data>>

(* killallcontexts kills every context, also one that is the subcontext of a  *)
(* context that was refused; an error ends it halfway.                       *)
KillallcontextsBegin == /\ killing' = userContexts
                        /\ UNCHANGED <<lists, context, current, subc, cmark, data, nodes, tidy>>
KillallcontextsStep ==
  LET c == Head(killing) IN
  \/ /\ Killcontext(c) \/ (c = Initial /\ KillcontextInitial)
     /\ killing' = Tail(killing) /\ UNCHANGED tidy
  \/ KillcontextRefused(c) /\ killing' = Tail(killing) /\ tidy' = FALSE
  \/ KillcontextFails(c) /\ killing' = <<>> /\ UNCHANGED tidy
  \/ c = Global /\ KillallcontextsReset /\ killing' = <<>>

(* One operation of the user. *)
UserOperation ==
  \/ Deduce
  \/ \E f \in Fact : Assume(f) \/ Forget(f)
  \/ \E c \in Ctx : \/ Select(c) \/ Newcontext(c)
                    \/ Activate(c) \/ Deactivate(c)
                    \/ KillcontextRefused(c) \/ KillcontextFails(c)
                    \/ (KillParents \/ \A d \in Known : subc[d] # c) /\ Killcontext(c)
  \/ \E c, sub \in Ctx : Supcontext(c, sub)
  \/ KillcontextInitial

DbNext == \/ killing = <<>> /\ UserOperation /\ UNCHANGED <<killing, tidy>>
          \/ killing = <<>> /\ KillallcontextsBegin
          \/ killing # <<>> /\ KillallcontextsStep

DbSpec == DbInit /\ [][DbNext]_dbvars

(***************************************************************************)
(* Properties.                                                             *)
(***************************************************************************)

(* The lists hold contexts, subc and the marks what their declarations say.  *)
DbTypeOK == /\ userContexts \in Seq(Ctx) /\ killing \in Seq(Ctx) /\ tidy \in BOOLEAN
            /\ activecontexts \subseteq Ctx /\ contexts \subseteq Ctx
            /\ context \in Ctx /\ current \in Ctx
            /\ subc \in [Ctx -> Ctx \cup {NoCtx}]
            /\ cmark \in [Ctx -> Int \cup {NoMark}]
            /\ data \in [Ctx -> SUBSET Fact] /\ nodes \subseteq Fact

(* The user's list of activated contexts, the one db.lisp marks from, and    *)
(* the list of existing contexts agree: $activate, $deactivate and           *)
(* killcontext update them one after the other, and an activated context     *)
(* exists unless killallcontexts skipped it.                                *)
ActiveListsAgree == activecontexts = contexts /\ (tidy => contexts \subseteq Known)

(* The contexts of S with a chain that leads to c. *)
Over(c, S) == {r \in S : c \in Chain(r)}

(* The mark of a context counts the ways it is in force: once through the    *)
(* marked current context and once through each activated one.  cunmrk takes *)
(* away what cmark put there although subc is walked anew each time; only    *)
(* the reset of killallcontexts overlooks contexts that stay activated.      *)
MarksExact ==
  tidy => \A c \in Ctx : (IF cmark[c] = NoMark THEN 0 ELSE cmark[c])
                           = Cardinality(Over(c, {current})) + Cardinality(Over(c, contexts))

InForce == UNION {Chain(r) : r \in {context} \cup activecontexts}

(* What a deduction sees (cntp): facts on the nodes with a marked context. *)
Seen(f) == f \in nodes /\ Positive(cmark[f.con])

(* A deduction sees every fact of the selected context, of the activated      *)
(* contexts and of all contexts below these, and about symbols and numbers no  *)
(* others; about other expressions it may see what a context had before it was *)
(* killed, of those in force only (doc/info/Database.texi, entry "Functions    *)
(* and Variables for Facts").  What global says of such an expression is      *)
(* overlooked after a kill(all), which drops its node and not the fact.       *)
FactsInForce ==
  tidy /\ current = context =>
    \A f \in Fact :
      /\ Seen(f) => f.con \in InForce /\ (f \notin Composite => f \in data[f.con])
      /\ f \in data[f.con] /\ f.con \in InForce /\ (f \in Composite => f.con # Global)
           => Seen(f)

(* "The facts contained in that context will be retained in storage until     *)
(* destroyed one by one by calling forget or destroyed as a whole by calling   *)
(* kill to destroy the context to which they belong" (Database.texi:1339):     *)
(* what a deduction sees are never facts that are destroyed.  Not true of the  *)
(* facts that remov leaves on the node of an expression (db.lisp:588).        *)
KilledNotSeen == tidy /\ current = context => \A f \in Fact : Seen(f) => f \in data[f.con]

(* A selected or activated context is never one that has been killed. *)
SelectedExists == context \in Known /\ current \in Known

(* "Contexts exist in a hierarchy, with the root always being the context    *)
(* global": the chain of every context leads there, except while a           *)
(* killallcontexts is under way.                                            *)
RootIsGlobal == killing = <<>> => \A c \in Known : Global \in Chain(c)

(* "killcontext refuses to kill a context which is currently active, either  *)
(* because it is a subcontext of the current context, or by use of the       *)
(* function activate": only the current context itself and contexts that     *)
(* are not in force go away.                                                *)
ActiveNotKilled ==
  [][killing = <<>> => \A c \in Known \ Known' : c = context \/ c \notin InForce]_dbvars

(* Once kill(all) has been through all contexts and none was left activated,  *)
(* no fact is left but those of global, which is never killed, whatever was   *)
(* selected, activated, killed and made anew before, neither listed nor on the *)
(* node of any expression; a context made later has no old facts and marks.    *)
KillAllForgets ==
  [][killing # <<>> /\ Head(killing) = Global /\ tidy'
       => /\ \A c \in Ctx \ {Global} : data'[c] = {} /\ (c \notin Known' => cmark'[c] = NoMark)
          /\ nodes' \subseteq data'[Global]]_dbvars

=============================================================================
