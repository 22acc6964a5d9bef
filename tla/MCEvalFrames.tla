---------------------------- MODULE MCEvalFrames ----------------------------
(***************************************************************************)
(* EvalFrames on small instances.  MaxFrames bounds the nesting of forms,    *)
(* MaxLoclist the frames on loclist (those left behind included), MaxSaved   *)
(* the properties saved by local().                                         *)
(***************************************************************************)
EXTENDS EvalFrames

CONSTANTS x, y, MaxFrames, MaxLoclist, MaxSaved

Two == {<<x, y>>}
One == {<<x>>}

Bounded == /\ Len(stack) <= MaxFrames
           /\ Len(loclist) <= MaxLoclist
           /\ Len(mproplist) <= MaxSaved
=============================================================================
