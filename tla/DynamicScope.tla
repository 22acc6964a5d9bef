---------------------------- MODULE DynamicScope ----------------------------
(***************************************************************************)
(* What the evaluator promises about local variables, in the words of the  *)
(* manual (doc/info/Function.texi, entry "block"): the value of a variable *)
(* is the one most recently assigned by the innermost enclosing block that *)
(* has it as a local variable, and otherwise its value in the global       *)
(* environment; what a block assigned to its own variables is lost when it *)
(* is left, and nothing else is.                                           *)
(*                                                                         *)
(* The environment is kept "deep": a global value per name and a stack of  *)
(* cells, one per live local binding, the innermost last.  The program     *)
(* keeps it "shallow" instead (one current value per name and a stack of   *)
(* saved ones); ShallowBinding and EvalFrames implement this module.       *)
(***************************************************************************)
EXTENDS Integers, Sequences

CONSTANTS Name,     \* what can be bound: variables, or symbols with properties
          Content   \* what a name can hold, "nothing" included

VARIABLES global,   \* [Name -> Content]
          cells     \* Seq([name : Name, content : Content]), innermost last

dvars == <<global, cells>>

Cell == [name : Name, content : Content]

(* The positions of the live cells of a name. *)
CellsOf(n) == {i \in 1..Len(cells) : cells[i].name = n}

(* i is the innermost of them. *)
Innermost(n, i) == i \in CellsOf(n) /\ \A j \in CellsOf(n) : j <= i

DInit == /\ global \in [Name -> Content]
         /\ cells = <<>>

(* A block or a call makes n local, with c as its first content. *)
Enter(n, c) == /\ cells' = Append(cells, [name |-> n, content |-> c])
               /\ UNCHANGED global

(* The innermost local name goes out of scope. *)
Leave == /\ cells # <<>>
         /\ cells' = SubSeq(cells, 1, Len(cells) - 1)
         /\ UNCHANGED global

(* The content of n changes where the innermost scope that has n keeps it. *)
Assign(n, c) ==
  \/ /\ CellsOf(n) = {}
     /\ global' = [global EXCEPT ![n] = c]
     /\ UNCHANGED cells
  \/ \E i \in CellsOf(n) :
        /\ Innermost(n, i)
        /\ cells' = [cells EXCEPT ![i] = [name |-> n, content |-> c]]
        /\ UNCHANGED global

DNext == \/ \E n \in Name, c \in Content : Enter(n, c) \/ Assign(n, c)
         \/ Leave

DSpec == DInit /\ [][DNext]_dvars
=============================================================================
