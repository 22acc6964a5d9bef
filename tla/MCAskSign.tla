----------------------------- MODULE MCAskSign -----------------------------
(* AskSign on a small instance. *)
EXTENDS AskSign

CONSTANTS a, t
=============================================================================
