----------------------------- MODULE MCDebugger -----------------------------
(* Debugger on a small instance. *)
EXTENDS Debugger

CONSTANTS MaxForms,    \* calls and blocks on the stack
          MaxLevels,   \* break loops on the stack
          MaxMixed,    \* entries of a stack with a block
          x

OneVar == {<<x>>}

Nested == /\ Cardinality(Positions({"call", "block"})) <= MaxForms
          /\ Cardinality(Positions({"break", "error"})) <= MaxLevels
          /\ Positions({"block"}) # {} => Len(stack) <= MaxMixed
=============================================================================
