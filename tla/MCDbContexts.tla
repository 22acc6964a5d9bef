---------------------------- MODULE MCDbContexts ----------------------------
(* DbContexts with the two contexts Maxima starts with and two of the user's. *)
EXTENDS DbContexts

CONSTANTS a, b

About(kind, con) == [kind |-> kind, con |-> con]
OfExpressions == {About("expression", a), About("expression", Initial)}
Facts == OfExpressions \cup {About("symbol", b), About("symbol", Global)}

(* A session goes on to the end of a killallcontexts that has left a context  *)
(* activated, but not beyond it.                                            *)
UntilUntidy == tidy \/ killing # <<>>
=============================================================================
