--------------------------- MODULE ShallowBinding ---------------------------
(***************************************************************************)
(* The variable bindings of the evaluator (src/mlisp.lisp: mset,           *)
(* mbind-doit, munbind; src/suprv1.lisp: remvalue).                        *)
(*                                                                         *)
(* A Maxima variable is a Lisp symbol and its value is the symbol's value  *)
(* cell.  A block or a function call that makes variables local pushes, for *)
(* each of them, the variable on bindlist and its old value on mspeclist   *)
(* (the marker munbound when it had none) and sets the value cell; munbind *)
(* pops the two lists together and puts the old value back.  $values is    *)
(* the list of the variables that have a value.                            *)
(*                                                                         *)
(* The two lists are sequences whose LAST element is the head of the list. *)
(***************************************************************************)
EXTENDS Integers, Sequences, SequencesExt

CONSTANTS Var,      \* the variables: symbols that are no option and no constant
          Val,      \* the values an expression can have
          Unbound   \* a symbol without a value; the marker munbound on mspeclist

ASSUME UnboundAssumption == Unbound \notin Val

VARIABLES value,       \* [Var -> Val \cup {Unbound}], the value cells
          infoValues,  \* the names on $values
          bindlist,    \* the variables bound by the live frames
          mspeclist    \* the values they had before

bvars == <<value, infoValues, bindlist, mspeclist>>

Saved == Val \cup {Unbound}


BindInit == /\ value \in [Var -> Saved]
            /\ infoValues = {v \in Var : value[v] # Unbound}
            /\ bindlist = <<>>
            /\ mspeclist = <<>>

(* mset on a symbol: an unbound variable enters $values, the cell is set.   *)
SetCell(v, x) ==
  /\ value' = [value EXCEPT ![v] = x]
  /\ infoValues' = IF value[v] = Unbound THEN infoValues \cup {v} ELSE infoValues

(* mset outside mbind and munbind: an assignment v : x. *)
Mset(v, x) == SetCell(v, x) /\ UNCHANGED <<bindlist, mspeclist>>

(* Mutant: the name stays on $values. *)
ClearCellKeepsName(v) == value' = [value EXCEPT ![v] = Unbound] /\ UNCHANGED infoValues

(* makunbound together with the deletion from $values. *)
ClearCell(v) == /\ value' = [value EXCEPT ![v] = Unbound]
                /\ infoValues' = infoValues \ {v}

(* remvalue of a variable that is on $values. *)
Remvalue(v) == /\ v \in infoValues
               /\ ClearCell(v)
               /\ UNCHANGED <<bindlist, mspeclist>>

(* Mutant: nothing is saved for a variable without a value. *)
MbindOneWithoutMarker(v, x) ==
  /\ SetCell(v, x)
  /\ bindlist' = Append(bindlist, v)
  /\ mspeclist' = IF value[v] = Unbound THEN mspeclist ELSE Append(mspeclist, value[v])

(* Mutant: the old value is read after the cell is set. *)
MbindOneReadsLate(v, x) == /\ SetCell(v, x)
                           /\ bindlist' = Append(bindlist, v)
                           /\ mspeclist' = Append(mspeclist, x)

(* One turn of the loop of mbind-doit: the old value is read before the     *)
(* cell is set, and both lists grow together.                               *)
MbindOne(v, x) == /\ SetCell(v, x)
                  /\ bindlist' = Append(bindlist, v)
                  /\ mspeclist' = Append(mspeclist, value[v])

(* One turn of the loop of munbind: the name comes from the caller's list of *)
(* variables, the value from mspeclist.                                     *)
Munbind(v) ==
  /\ bindlist # <<>>
  /\ bindlist' = Front(bindlist)
  /\ mspeclist' = Front(mspeclist)
  /\ \/ Last(mspeclist) = Unbound /\ ClearCell(v)
     \/ Last(mspeclist) # Unbound /\ SetCell(v, Last(mspeclist))

(* What every caller means by it: the variable bound last is unbound.       *)
MunbindLast == Munbind(Last(bindlist))

BindNext == \/ \E v \in Var : Remvalue(v) \/ \E x \in Val : Mset(v, x) \/ MbindOne(v, x)
            \/ MunbindLast

BindSpec == BindInit /\ [][BindNext]_bvars

(***************************************************************************)
(* The environment these lists stand for.                                  *)
(***************************************************************************)

(* j is the first binding of v in bl made after the first i ones. *)
NextBinding(bl, v, i, j) == /\ j \in (i + 1)..Len(bl)
                            /\ bl[j] = v
                            /\ \A k \in (i + 1)..(j - 1) : bl[k] # v

(* The value v has in the scope made of the first i bindings: what the next *)
(* binding of v saved, or the contents of the cell if there is none.        *)
ScopeValue(val, bl, ms, v, i) ==
  IF \E j \in (i + 1)..Len(bl) : bl[j] = v
  THEN ms[CHOOSE j \in (i + 1)..Len(bl) : NextBinding(bl, v, i, j)]
  ELSE val[v]

ValueAt(v, i) == ScopeValue(value, bindlist, mspeclist, v, i)

Deep == INSTANCE DynamicScope WITH
          Name <- Var, Content <- Saved,
          global <- [v \in Var |-> ValueAt(v, 0)],
          cells <- [i \in 1..Len(bindlist) |->
                      [name |-> bindlist[i], content |-> ValueAt(bindlist[i], i)]]

(***************************************************************************)
(* Properties.                                                             *)
(***************************************************************************)

(* The value cells, the two lists and $values hold what they are declared   *)
(* to hold (src/mlisp.lisp: the declarations of bindlist and mspeclist).    *)
BindTypeOK == /\ value \in [Var -> Saved]
              /\ infoValues \subseteq Var
              /\ bindlist \in Seq(Var)
              /\ mspeclist \in Seq(Saved)
              /\ Len(mspeclist) = Len(bindlist)

(* $values lists exactly the variables that have a value, through every     *)
(* nesting of bindings, assignments and remvalue: mset adds a name only when *)
(* the symbol is unbound and munbind deletes it only when it makes it so.    *)
ValuesListExact == infoValues = {v \in Var : value[v] # Unbound}

(* Saving and restoring one value cell per name is dynamic scoping: every   *)
(* step of mset, mbind-doit, munbind and remvalue is the step that the      *)
(* manual's rule for block prescribes on the environment of all live scopes. *)
ImplementsDynamicScope == Deep!DSpec
=============================================================================
