--------------------------- MODULE Debugger_proof ---------------------------
(***************************************************************************)
(* Proofs about Debugger, for every set of variables, values and parameter  *)
(* lists, every nesting of calls and break loops and every throw.           *)
(*                                                                         *)
(* Every action keeps the lower entries of the stack, but for the pointers   *)
(* that have become Stale, and replaces the top, takes it off or pushes an    *)
(* entry: Keeps says so, and for each part of the invariant a lemma says     *)
(* that Keeps preserves it.                                                *)
(***************************************************************************)
EXTENDS Debugger, ShallowBinding_proof, FiniteSetTheorems

Pointer == Nat \cup {Stale}

FormEntry == [kind : {"call", "block"}, phase : {"bind", "body", "unbind"},
              vars : VarLists, todo : Seq(Var), below : Pointer, inside : Pointer,
              names : Seq(Var)]

LevelEntry == [kind : {"break", "error"}, phase : {"prompt", "restore", "remove"},
               next : {"frame", "resume", "top", "quit", "unwind"}, frame : Nat,
               target : Pointer, diffvars : Seq(Var), diffvals : Seq(Val),
               had : Seq(Var \X Saved), names : Seq(Var)]

Entry == FormEntry \cup LevelEntry

(* The list a call works on is what is left of its parameters, from the first *)
(* on to bind them and from the last on to unbind them.                      *)
FormOK(e) ==
  /\ e.phase \in {"bind", "unbind"} => e.todo # <<>> /\ Len(e.todo) <= Len(e.vars)
  /\ e.phase = "bind" =>
       \A i \in 1..Len(e.todo) : e.todo[i] = e.vars[Len(e.vars) - Len(e.todo) + i]
  /\ e.phase = "unbind" => \A i \in 1..Len(e.todo) : e.todo[i] = e.vars[Len(e.todo) + 1 - i]

(* What a break loop has taken off is the end of what it was to take off.    *)
LevelOK(e) ==
  /\ Len(e.diffvals) = Len(e.diffvars)
  /\ Len(e.diffvars) <= Len(e.had)
  /\ Len(e.had) <= Len(e.names)
  /\ \A j \in 1..Len(e.diffvars) :
        e.had[Len(e.had) - Len(e.diffvars) + j] = <<e.diffvars[j], e.diffvals[j]>>
  /\ e.phase = "prompt" => Len(e.diffvars) = Len(e.had)
  /\ e.phase = "remove" => \/ e.target = Stale /\ Len(e.had) = Len(e.names)
                           \/ e.target # Stale /\ e.target + Len(e.had) = Len(e.names)

EntryOK(e) == e \in Entry /\ (IF IsForm(e) THEN FormOK(e) ELSE LevelOK(e))

(* Follows, element by element. *)
Grown(e, after) ==
  /\ Len(after) = Len(e.names) + BoundBy(e)
  /\ \A i \in 1..Len(e.names) : after[i] = e.names[i]
  /\ \A i \in 1..BoundBy(e) : after[Len(e.names) + i] = e.vars[i]

Shrunk(e, after) ==
  /\ Len(e.names) = Len(after) + Len(e.diffvars)
  /\ \A i \in 1..Len(after) : e.names[i] = after[i]
  /\ \A i \in 1..Len(e.diffvars) : e.names[Len(after) + i] = e.diffvars[i]

Goes(e, after) == IF IsForm(e) THEN Grown(e, after) ELSE Shrunk(e, after)

NamesIn(st, bl, i) == IF i \in DOMAIN st THEN st[i].names ELSE bl

Settled(e) == e.phase \in {"body", "prompt"}

PointersIn(e, n) == IsForm(e) => /\ e.below # Stale => e.below <= n
                                 /\ e.inside # Stale => e.inside <= n

(* The stack by itself. *)
StackOK(st, bl) ==
  /\ st \in Seq(Entry)
  /\ \A i \in 1..Len(st) : EntryOK(st[i]) /\ PointersIn(st[i], Len(bl))
  /\ \A i \in 1..(Len(st) - 1) : Settled(st[i])

(* The stack and the names on bindlist. *)
ChainOK(st, bl) ==
  /\ NamesIn(st, bl, 1) = <<>>
  /\ \A i \in 1..Len(st) : Goes(st[i], NamesIn(st, bl, i + 1))

CallsIn(st) == {i \in 1..Len(st) : st[i].kind = "call"}

(* The positions of the calls below position i. *)
CallsUnder(st, i) == {j \in 1..(i - 1) : st[j].kind = "call"}

InCall == CallsIn(stack) # {}

(* As long as no outer frame has been selected, in a call and above one. *)
Unlooked(e) ==
  IF IsForm(e)
  THEN e.below = Len(e.names) /\ (e.phase = "body" => e.inside = Len(e.names) + Len(e.vars))
  ELSE /\ e.diffvars = <<>> /\ e.had = <<>>
       /\ e.phase \in {"prompt", "remove"} => e.frame = 0
       /\ e.phase = "remove" => e.target = Len(e.names)

UnlookedOK(st, bl) ==
  /\ \A i \in 1..Len(st) : CallsUnder(st, i + 1) # {} => Unlooked(st[i])
  /\ \A i, j \in 1..(Len(st) + 1) :
        CallsUnder(st, i) # {} /\ i <= j => Len(NamesIn(st, bl, i)) <= Len(NamesIn(st, bl, j))

(* Where the break loop at i shows an outer frame, it leaves what the call of  *)
(* the next frame found.                                                   *)
Shows(st, i, e) ==
  LET C == CallsUnder(st, i) IN
  ~IsForm(e) /\ e.phase \in {"prompt", "remove"} /\ 0 < e.frame /\ e.frame < Cardinality(C)
    => Len(e.names) = Len(e.had) + Len(st[FromAbove(C, e.frame)].names)

ShownOK(st) == \A i \in 1..Len(st) : Shows(st, i, st[i])

(* What the break loop on top has not taken off yet or has put back.         *)
InPlace(e, val, bl, ms) ==
  ~IsForm(e) =>
    \A j \in 1..(Len(e.had) - Len(e.diffvars)) :
       LET k == Len(e.names) - Len(e.had) + j
       IN  e.had[j] = <<bl[k], ScopeValue(val, bl, ms, bl[k], k)>>

(* A bound variable has a value. *)
BoundHaveValues(val, bl, ms) ==
  \A i \in 1..Len(bl) : ScopeValue(val, bl, ms, bl[i], i) \in Val

DInv == /\ BindTypeOK /\ ValuesListExact
        /\ looks \in 0..2
        /\ StackOK(stack, bindlist)
        /\ ChainOK(stack, bindlist)
        /\ looks = 0 => UnlookedOK(stack, bindlist)
        /\ looks = 1 => ShownOK(stack)
        /\ stack # <<>> => InPlace(stack[Len(stack)], value, bindlist, mspeclist)
        /\ BoundHaveValues(value, bindlist, mspeclist)

-----------------------------------------------------------------------------
(***************************************************************************)
(* Entries that are kept.                                                  *)
(***************************************************************************)

(* A pointer after bindlist has been cut down to n conses. *)
Left(p, n) == IF p # Stale /\ p > n THEN Stale ELSE p

Kept(e, f, n) == IF IsForm(e)
                 THEN f = [e EXCEPT !.below = Left(@, n), !.inside = Left(@, n)]
                 ELSE f = e

(* f is e but for the pointers. *)
Alike(e, f) == /\ f.kind = e.kind /\ f.phase = e.phase /\ f.names = e.names
               /\ IsForm(e) => f.vars = e.vars /\ f.todo = e.todo
               /\ ~IsForm(e) => f = e

LEMMA KeptAlike ==
  ASSUME NEW e \in Entry, NEW f, NEW n \in Nat, Kept(e, f, n)
  PROVE  f \in Entry /\ Alike(e, f) /\ PointersIn(f, n)
<1>1. CASE e \in FormEntry
  <2>1. IsForm(e) /\ e.below \in Pointer /\ e.inside \in Pointer
    BY <1>1 DEF FormEntry, IsForm
  <2>2. Left(e.below, n) \in Pointer /\ Left(e.inside, n) \in Pointer
    BY <2>1, DebuggerAssumption DEF Left, Pointer
  <2>3. f = [e EXCEPT !.below = Left(e.below, n), !.inside = Left(e.inside, n)]
    BY <2>1 DEF Kept
  <2>4. f \in FormEntry /\ Alike(e, f) /\ f.below = Left(e.below, n) /\ f.inside = Left(e.inside, n)
    BY <1>1, <2>1, <2>2, <2>3 DEF FormEntry, Alike, IsForm
  <2>5. PointersIn(f, n)
    BY <2>1, <2>4, DebuggerAssumption DEF PointersIn, Left, Pointer
  <2>6. QED
    BY <2>4, <2>5 DEF Entry
<1>2. CASE e \in LevelEntry
  <2>1. ~IsForm(e)
    BY <1>2 DEF LevelEntry, IsForm
  <2>2. QED
    BY <2>1 DEF Kept, Alike, PointersIn
<1>3. QED
  BY <1>1, <1>2 DEF Entry

LEMMA AlikeOK ==
  ASSUME NEW e, NEW f \in Entry, Alike(e, f), EntryOK(e)
  PROVE  /\ EntryOK(f) /\ IsForm(f) = IsForm(e)
         /\ Settled(e) => Settled(f)
         /\ \A after : Goes(e, after) => Goes(f, after)
<1>1. IsForm(f) = IsForm(e) /\ (Settled(e) => Settled(f))
  BY DEF Alike, IsForm, Settled
<1>2. CASE IsForm(e)
  <2>1. f.vars = e.vars /\ f.todo = e.todo /\ f.phase = e.phase /\ f.names = e.names
    BY <1>2 DEF Alike
  <2>2. BoundBy(f) = BoundBy(e)
    BY <2>1 DEF BoundBy
  <2>3. FormOK(f)
    BY <1>2, <2>1 DEF EntryOK, FormOK
  <2>4. \A after : Grown(e, after) => Grown(f, after)
    BY <2>1, <2>2 DEF Grown
  <2>5. QED
    BY <1>1, <1>2, <2>3, <2>4 DEF EntryOK, Goes
<1>3. CASE ~IsForm(e)
  BY <1>1, <1>3 DEF Alike
<1>4. QED
  BY <1>2, <1>3

(* An entry whose pointers are in range is kept as it is. *)
LEMMA KeptSame ==
  ASSUME NEW e \in Entry, NEW n \in Nat, PointersIn(e, n)
  PROVE  Kept(e, e, n)
<1>1. CASE e \in FormEntry
  <2>1. IsForm(e) /\ e.below \in Pointer /\ e.inside \in Pointer
    BY <1>1 DEF FormEntry, IsForm
  <2>2. Left(e.below, n) = e.below /\ Left(e.inside, n) = e.inside
    BY <2>1 DEF Left, PointersIn, Pointer
  <2>3. e = [e EXCEPT !.below = e.below, !.inside = e.inside]
    BY <1>1 DEF FormEntry
  <2>4. QED
    BY <2>1, <2>2, <2>3 DEF Kept
<1>2. CASE e \in LevelEntry
  BY <1>2 DEF LevelEntry, IsForm, Kept
<1>3. QED
  BY <1>1, <1>2 DEF Entry

-----------------------------------------------------------------------------
(***************************************************************************)
(* Stacks of which the m lowest entries are kept.                          *)
(***************************************************************************)

Keeps(st, bl, st2, bl2, m) ==
  /\ m \in Nat /\ m <= Len(st) /\ Len(st) <= m + 1
  /\ st2 \in Seq(Entry) /\ m <= Len(st2) /\ Len(st2) <= m + 1
  /\ \A i \in 1..m : Kept(st[i], st2[i], Len(bl2)) /\ Settled(st[i])
  /\ NamesIn(st2, bl2, m + 1) = NamesIn(st, bl, m + 1)

NewTop(st2, bl2, m) ==
  Len(st2) = m + 1 => /\ EntryOK(st2[m + 1]) /\ PointersIn(st2[m + 1], Len(bl2))
                      /\ Goes(st2[m + 1], bl2)

LEMMA KeepsAlike ==
  ASSUME NEW st, NEW bl, NEW st2, NEW bl2 \in Seq(Var), NEW m,
         StackOK(st, bl), Keeps(st, bl, st2, bl2, m), NEW i \in 1..m
  PROVE  /\ i \in 1..Len(st) /\ i \in 1..Len(st2)
         /\ st[i] \in Entry /\ st2[i] \in Entry
         /\ Alike(st[i], st2[i]) /\ PointersIn(st2[i], Len(bl2))
         /\ EntryOK(st[i]) /\ EntryOK(st2[i]) /\ IsForm(st2[i]) = IsForm(st[i])
         /\ Settled(st[i]) /\ Settled(st2[i])
         /\ \A after : Goes(st[i], after) => Goes(st2[i], after)
<1>1. /\ m \in Nat /\ m <= Len(st) /\ m <= Len(st2) /\ Len(st) \in Nat /\ Len(st2) \in Nat
      /\ Len(bl2) \in Nat
  BY LenProperties DEF Keeps, StackOK
<1>2. i \in 1..Len(st) /\ i \in 1..Len(st2)
  BY <1>1
<1>3. EntryOK(st[i]) /\ st[i] \in Entry
  BY <1>2 DEF StackOK, EntryOK
<1>4. Kept(st[i], st2[i], Len(bl2)) /\ Settled(st[i])
  BY DEF Keeps
<1>5. st2[i] \in Entry /\ Alike(st[i], st2[i]) /\ PointersIn(st2[i], Len(bl2))
  BY <1>1, <1>3, <1>4, KeptAlike
<1>6. QED
  BY <1>2, <1>3, <1>4, <1>5, AlikeOK

LEMMA KeepsLens ==
  ASSUME NEW st, NEW bl, NEW st2, NEW bl2 \in Seq(Var), NEW m,
         StackOK(st, bl), Keeps(st, bl, st2, bl2, m)
  PROVE  /\ m \in Nat /\ (Len(st2) = m \/ Len(st2) = m + 1)
         /\ (Len(st) = m \/ Len(st) = m + 1)
         /\ Len(st) \in Nat /\ Len(bl2) \in Nat
<1>1. /\ m \in Nat /\ m <= Len(st) /\ Len(st) <= m + 1 /\ Len(st) \in Nat
      /\ Len(st2) \in Nat /\ m <= Len(st2) /\ Len(st2) <= m + 1
      /\ Len(bl2) \in Nat
  BY LenProperties DEF Keeps, StackOK
<1>2. QED
  BY ONLY <1>1

LEMMA KeepsNames ==
  ASSUME NEW st, NEW bl, NEW st2, NEW bl2 \in Seq(Var), NEW m,
         StackOK(st, bl), Keeps(st, bl, st2, bl2, m)
  PROVE  /\ \A i \in 1..(m + 1) : NamesIn(st2, bl2, i) = NamesIn(st, bl, i)
         /\ \A i \in 1..Len(st2) : NamesIn(st2, bl2, i) = st2[i].names
         /\ NamesIn(st2, bl2, Len(st2) + 1) = bl2
<1>1. m \in Nat /\ Len(st2) \in Nat /\ m + 1 \notin 1..m /\ Len(st2) + 1 \notin 1..Len(st2)
  BY KeepsLens
<1>2. DOMAIN st = 1..Len(st) /\ DOMAIN st2 = 1..Len(st2)
  BY LenProperties DEF Keeps, StackOK
<1>3. ASSUME NEW i \in 1..m
      PROVE  NamesIn(st2, bl2, i) = NamesIn(st, bl, i)
  BY <1>2, KeepsAlike DEF NamesIn, Alike
<1>4. NamesIn(st2, bl2, m + 1) = NamesIn(st, bl, m + 1)
  BY DEF Keeps
<1>5. \A i \in 1..(m + 1) : i \in 1..m \/ i = m + 1
  BY <1>1
<1>6. \A i \in 1..(m + 1) : NamesIn(st2, bl2, i) = NamesIn(st, bl, i)
  BY <1>3, <1>4, <1>5
<1>7. \A i \in 1..Len(st2) : NamesIn(st2, bl2, i) = st2[i].names
  BY <1>2 DEF NamesIn
<1>8. NamesIn(st2, bl2, Len(st2) + 1) = bl2
  BY <1>1, <1>2 DEF NamesIn
<1>9. QED
  BY <1>6, <1>7, <1>8

LEMMA KeepsStack ==
  ASSUME NEW st, NEW bl, NEW st2, NEW bl2 \in Seq(Var), NEW m,
         StackOK(st, bl), Keeps(st, bl, st2, bl2, m), NewTop(st2, bl2, m)
  PROVE  StackOK(st2, bl2)
<1>1. m \in Nat /\ (Len(st2) = m \/ Len(st2) = m + 1) /\ st2 \in Seq(Entry)
  BY KeepsLens DEF Keeps
<1>2. \A i \in 1..m : EntryOK(st2[i]) /\ PointersIn(st2[i], Len(bl2)) /\ Settled(st2[i])
  BY KeepsAlike
<1>3. \A i \in 1..Len(st2) : EntryOK(st2[i]) /\ PointersIn(st2[i], Len(bl2))
  BY <1>1, <1>2 DEF NewTop
<1>4. \A i \in 1..(Len(st2) - 1) : Settled(st2[i])
  BY <1>1, <1>2
<1>5. QED
  BY <1>1, <1>3, <1>4 DEF StackOK

LEMMA KeepsChain ==
  ASSUME NEW st, NEW bl, NEW st2, NEW bl2 \in Seq(Var), NEW m,
         StackOK(st, bl), ChainOK(st, bl), Keeps(st, bl, st2, bl2, m), NewTop(st2, bl2, m)
  PROVE  ChainOK(st2, bl2)
<1>1. /\ m \in Nat /\ (Len(st2) = m \/ Len(st2) = m + 1)
      /\ \A i \in 1..(m + 1) : NamesIn(st2, bl2, i) = NamesIn(st, bl, i)
      /\ NamesIn(st2, bl2, Len(st2) + 1) = bl2
  BY KeepsLens, KeepsNames
<1>2. NamesIn(st2, bl2, 1) = <<>>
  BY <1>1 DEF ChainOK
<1>3. ASSUME NEW i \in 1..m
      PROVE  Goes(st2[i], NamesIn(st2, bl2, i + 1))
  <2>1. i \in 1..Len(st) /\ \A after : Goes(st[i], after) => Goes(st2[i], after)
    BY KeepsAlike
  <2>2. Goes(st[i], NamesIn(st, bl, i + 1))
    BY <2>1 DEF ChainOK
  <2>3. NamesIn(st2, bl2, i + 1) = NamesIn(st, bl, i + 1)
    BY <1>1
  <2>4. QED
    BY <2>1, <2>2, <2>3
<1>4. Len(st2) = m + 1 => Goes(st2[m + 1], NamesIn(st2, bl2, (m + 1) + 1))
  BY <1>1 DEF NewTop
<1>5. \A i \in 1..Len(st2) : Goes(st2[i], NamesIn(st2, bl2, i + 1))
  BY <1>1, <1>3, <1>4
<1>6. QED
  BY <1>2, <1>5 DEF ChainOK

-----------------------------------------------------------------------------
(***************************************************************************)
(* The n-th position from above.                                           *)
(***************************************************************************)

LEMMA FromAboveIn ==
  ASSUME NEW k \in Nat, NEW P, P \subseteq 1..k, NEW n \in 1..Cardinality(P)
  PROVE  FromAbove(P, n) \in P
<1> DEFINE U(i) == {j \in P : j >= i}
           T == {i \in P : Cardinality(U(i)) >= n}
<1>1. IsFiniteSet(P) /\ P \subseteq Nat /\ n \in Nat /\ n > 0 /\ Cardinality(P) >= n
  <2>1. IsFiniteSet(P)
    <3>1. IsFiniteSet(1..k) /\ P \in SUBSET (1..k)
      BY FS_Interval
    <3>2. QED
      BY ONLY <3>1, FS_Subset
  <2>2. Cardinality(P) \in Nat
    BY <2>1, FS_CardinalityType
  <2>3. QED
    BY <2>1, <2>2
<1>2. \A i \in P : IsFiniteSet(U(i)) /\ Cardinality(U(i)) \in Nat
  BY <1>1, FS_Subset, FS_CardinalityType
<1>3. P # {}
  BY <1>1, FS_EmptySet
<1>4. PICK a \in P : \A j \in P : a <= j
  BY <1>1, <1>3, LeastNatural
<1>5. U(a) = P
  BY <1>1, <1>4
<1>6. a \in T
  BY <1>1, <1>5
<1>7. PICK c \in T : \A j \in T : j <= c
  <2> HIDE DEF T
  <2>1. T \subseteq 1..k
    BY DEF T
  <2>2. QED
    BY <1>6, <2>1, GreatestNatural
<1>8. Cardinality(U(c)) = n
  <2> SUFFICES ASSUME Cardinality(U(c)) # n
               PROVE  FALSE
    OBVIOUS
  <2>1. c \in P /\ Cardinality(U(c)) > n
    BY <1>2
  <2> DEFINE V == {j \in P : j > c}
  <2>2. U(c) = V \cup {c} /\ c \notin V /\ IsFiniteSet(V)
    <3>1. V \subseteq P /\ c \notin V
      BY <1>1, <2>1
    <3>2. IsFiniteSet(V)
      BY <1>1, <3>1, FS_Subset
    <3>3. \A j \in P : j >= c <=> j > c \/ j = c
      BY <1>1, <2>1
    <3>4. QED
      BY <2>1, <3>1, <3>2, <3>3
  <2>3. Cardinality(U(c)) = Cardinality(V) + 1 /\ Cardinality(V) \in Nat
    BY <2>2, FS_AddElement, FS_CardinalityType
  <2>4. Cardinality(V) >= n
    BY <1>2, <2>1, <2>3
  <2>5. V # {}
    BY <2>4, FS_EmptySet
  <2>6. PICK d \in V : \A j \in V : d <= j
    <3>1. V \subseteq Nat
      BY <1>1
    <3> HIDE DEF V
    <3>2. QED
      BY <2>5, <3>1, LeastNatural
  <2>7. U(d) = V
    <3>1. d \in Nat /\ c \in Nat /\ d > c /\ \A j \in V : d <= j
      BY <1>1, <2>1, <2>6
    <3>2. \A j \in P : j \in Nat /\ (j > c => d <= j)
      BY <1>1, <3>1
    <3>3. \A j \in P : j >= d <=> j > c
      BY ONLY <3>1, <3>2
    <3>4. QED
      BY <3>3
  <2>8. d \in T
    BY <2>4, <2>7
  <2>9. QED
    BY <1>7, <2>1, <2>8
<1>9. \E i \in P : Cardinality({j \in P : j >= i}) = n
  BY <1>8
<1>10. QED
  BY <1>9 DEF FromAbove

LEMMA CallsUnderFinite ==
  ASSUME NEW st, NEW i \in Nat, i > 0
  PROVE  /\ i - 1 \in Nat /\ CallsUnder(st, i) \subseteq 1..(i - 1)
         /\ Cardinality(CallsUnder(st, i)) \in Nat
<1>1. i - 1 \in Nat /\ CallsUnder(st, i) \subseteq 1..(i - 1)
  BY DEF CallsUnder
<1>2. IsFiniteSet(CallsUnder(st, i))
  BY <1>1, FS_Interval, FS_Subset
<1>3. QED
  BY <1>1, <1>2, FS_CardinalityType

-----------------------------------------------------------------------------
(* The calls below a position that is kept are the same ones. *)
LEMMA KeepsCallsUnder ==
  ASSUME NEW st, NEW bl, NEW st2, NEW bl2 \in Seq(Var), NEW m,
         StackOK(st, bl), Keeps(st, bl, st2, bl2, m), NEW i \in 1..(m + 1)
  PROVE  CallsUnder(st2, i) = CallsUnder(st, i)
<1>1. m \in Nat
  BY DEF Keeps
<1>2. \A j \in 1..(i - 1) : j \in 1..m
  BY <1>1
<1>3. \A j \in 1..(i - 1) : st2[j].kind = st[j].kind
  BY <1>2, KeepsAlike DEF Alike
<1>4. QED
  BY <1>3 DEF CallsUnder

(* Arithmetic the provers do better without the sequences. *)
LEMMA RestIn ==
  ASSUME NEW a \in Nat, NEW b \in Nat, b <= a
  PROVE  a - b \in 0..a
OBVIOUS

LEMMA PartsFit ==
  ASSUME NEW a \in Nat, NEW b \in Nat, NEW c \in Nat, a + b <= c,
         NEW p, NEW q, p = a, q = a + b
  PROVE  p <= c /\ q <= c /\ p \in Nat /\ q \in Nat
OBVIOUS

(* Types of the fields. *)
LEMMA FormFields ==
  ASSUME NEW e, EntryOK(e), IsForm(e)
  PROVE  /\ e \in FormEntry /\ FormOK(e)
         /\ e.names \in Seq(Var) /\ e.vars \in VarLists /\ e.vars \in Seq(Var)
         /\ e.todo \in Seq(Var) /\ e.below \in Pointer /\ e.inside \in Pointer
         /\ Len(e.names) \in Nat /\ Len(e.vars) \in Nat /\ Len(e.todo) \in Nat
         /\ Len(e.vars) > 0
         /\ e.phase \in {"bind", "body", "unbind"} /\ e.kind \in {"call", "block"}
         /\ BoundBy(e) \in 0..Len(e.vars)
<1>1. e \in FormEntry /\ FormOK(e)
  BY DEF EntryOK, Entry, LevelEntry, IsForm
<1>2. /\ e.names \in Seq(Var) /\ e.vars \in VarLists
      /\ e.todo \in Seq(Var) /\ e.below \in Pointer /\ e.inside \in Pointer
      /\ e.phase \in {"bind", "body", "unbind"} /\ e.kind \in {"call", "block"}
  BY <1>1 DEF FormEntry
<1>3. e.vars \in Seq(Var) /\ e.vars # <<>>
  BY <1>2, DebuggerAssumption
<1>4. /\ Len(e.names) \in Nat /\ Len(e.vars) \in Nat /\ Len(e.todo) \in Nat
      /\ Len(e.vars) > 0
  BY <1>2, <1>3, LenProperties, EmptySeq
<1>5. BoundBy(e) \in 0..Len(e.vars)
  <2>1. CASE e.phase = "bind"
    <3>1. Len(e.todo) <= Len(e.vars)
      BY <1>1, <2>1 DEF FormOK
    <3>2. BoundBy(e) = Len(e.vars) - Len(e.todo)
      BY <2>1 DEF BoundBy
    <3>3. QED
      BY <1>4, <3>1, <3>2, RestIn
  <2>2. CASE e.phase = "body"
    BY <1>1, <1>4, <2>2 DEF BoundBy, FormOK
  <2>3. CASE e.phase = "unbind"
    <3>1. Len(e.todo) <= Len(e.vars)
      BY <1>1, <2>3 DEF FormOK
    <3>2. BoundBy(e) = Len(e.todo)
      BY <2>3 DEF BoundBy
    <3>3. QED
      BY ONLY <1>4, <3>1, <3>2
  <2>4. QED
    BY <1>2, <2>1, <2>2, <2>3
<1>6. QED
  BY <1>1, <1>2, <1>3, <1>4, <1>5

LEMMA LevelFields ==
  ASSUME NEW e, EntryOK(e), ~IsForm(e)
  PROVE  /\ e \in LevelEntry /\ LevelOK(e)
         /\ e.names \in Seq(Var) /\ e.diffvars \in Seq(Var) /\ e.diffvals \in Seq(Val)
         /\ e.had \in Seq(Var \X Saved) /\ e.target \in Pointer /\ e.frame \in Nat
         /\ Len(e.names) \in Nat /\ Len(e.diffvars) \in Nat /\ Len(e.diffvals) \in Nat
         /\ Len(e.had) \in Nat
         /\ e.phase \in {"prompt", "restore", "remove"}
         /\ e.next \in {"frame", "resume", "top", "quit", "unwind"}
<1>1. e \in LevelEntry /\ LevelOK(e)
  BY DEF EntryOK, Entry, FormEntry, IsForm
<1>2. QED
  BY <1>1, LenProperties DEF LevelEntry

LEMMA KeepsUnlooked ==
  ASSUME NEW st, NEW bl, NEW st2, NEW bl2 \in Seq(Var), NEW m,
         StackOK(st, bl), ChainOK(st, bl), UnlookedOK(st, bl),
         Keeps(st, bl, st2, bl2, m), NewTop(st2, bl2, m),
         Len(st2) = m + 1 /\ CallsUnder(st2, m + 2) # {} => Unlooked(st2[m + 1])
  PROVE  UnlookedOK(st2, bl2)
<1>0. /\ \A i \in 1..(m + 1) : NamesIn(st2, bl2, i) = NamesIn(st, bl, i)
      /\ \A i \in 1..Len(st2) : NamesIn(st2, bl2, i) = st2[i].names
      /\ NamesIn(st2, bl2, Len(st2) + 1) = bl2
  BY KeepsNames
<1>1. /\ m \in Nat /\ (Len(st2) = m \/ Len(st2) = m + 1)
      /\ (Len(st) = m \/ Len(st) = m + 1) /\ Len(st) \in Nat /\ Len(bl2) \in Nat
  BY KeepsLens
<1> DEFINE L(i) == Len(NamesIn(st2, bl2, i))
           C(i) == CallsUnder(st2, i) # {}
<1>a. C(m + 1) => C(m + 2)
  BY <1>1 DEF CallsUnder
<1>b. \A i \in 1..(m + 1) : C(i) <=> CallsUnder(st, i) # {}
  BY KeepsCallsUnder
<1>c. \A i \in 1..(m + 1) : C(i) => C(m + 1)
  BY <1>1 DEF CallsUnder
<1>d. Len(st2) = m + 1 /\ C(m + 2) => Unlooked(st2[m + 1])
  OBVIOUS
<1> HIDE DEF C
<1>2. Len(st2) = m + 1 => L(m + 1) \in Nat /\ (C(m + 1) => L(m + 1) <= L(m + 2))
  <2> SUFFICES ASSUME Len(st2) = m + 1
               PROVE  L(m + 1) \in Nat /\ (C(m + 1) => L(m + 1) <= L(m + 2))
    OBVIOUS
  <2> DEFINE e == st2[m + 1]
  <2>1. EntryOK(e) /\ Goes(e, bl2) /\ (C(m + 1) => Unlooked(e))
    BY <1>a, <1>d DEF NewTop
  <2>2. NamesIn(st2, bl2, m + 1) = e.names /\ NamesIn(st2, bl2, m + 2) = bl2
    BY <1>0, <1>1
  <2> HIDE DEF e
  <2>3. CASE IsForm(e)
    <3>1. Len(bl2) = Len(e.names) + BoundBy(e) /\ Len(e.names) \in Nat /\ BoundBy(e) \in Nat
      BY <2>1, <2>3, FormFields DEF Goes, Grown
    <3>2. QED
      BY <2>2, <3>1
  <2>4. CASE ~IsForm(e)
    <3>1. /\ Len(e.names) = Len(bl2) + Len(e.diffvars) /\ Len(e.names) \in Nat
          /\ C(m + 1) => e.diffvars = <<>>
      BY <2>1, <2>4, LevelFields DEF Goes, Shrunk, Unlooked
    <3>2. QED
      BY <1>1, <2>2, <3>1, EmptySeq
  <2>5. QED
    BY <2>3, <2>4
<1>3. \A i, j \in 1..(m + 1) : C(i) /\ i <= j => L(i) <= L(j)
  <2>1. \A i \in 1..(m + 1) : i \in 1..(Len(st) + 1)
    BY <1>1
  <2>2. \A i \in 1..(m + 1) : L(i) = Len(NamesIn(st, bl, i))
    BY <1>0
  <2>3. QED
    BY <1>b, <2>1, <2>2 DEF UnlookedOK
<1>4. \A i \in 1..(m + 1) : L(i) \in Nat
  <2>1. ASSUME NEW i \in 1..m
        PROVE  L(i) \in Nat
    <3>1. EntryOK(st2[i]) /\ i \in 1..Len(st2)
      BY KeepsAlike
    <3>2. Len(st2[i].names) \in Nat
      BY <3>1, FormFields, LevelFields
    <3>3. QED
      BY <1>0, <3>1, <3>2
  <2>2. L(m + 1) \in Nat
    <3>1. CASE Len(st2) = m
      BY <1>0, <1>1, <3>1
    <3>2. CASE Len(st2) = m + 1
      BY <1>2, <3>2
    <3>3. QED
      BY <1>1, <3>1, <3>2
  <2> HIDE DEF L
  <2>3. \A i \in 1..(m + 1) : i \in 1..m \/ i = m + 1
    BY <1>1
  <2>4. QED
    BY <2>1, <2>2, <2>3
<1>5. L(Len(st2) + 1) = Len(bl2)
  BY <1>0
<1> HIDE DEF L
<1>6. \A i, j \in 1..(Len(st2) + 1) : C(i) /\ i <= j => L(i) <= L(j)
  <2>1. CASE Len(st2) = m
    BY <1>3, <2>1
  <2>2. CASE Len(st2) = m + 1
    <3>1. SUFFICES ASSUME NEW i \in 1..(m + 2), NEW j \in 1..(m + 2), C(i), i <= j
          PROVE  L(i) <= L(j)
      BY <1>1, <2>2
    <3>2. CASE j \in 1..(m + 1)
      BY <1>1, <1>3, <3>1, <3>2
    <3>3. CASE j = m + 2 /\ i \in 1..(m + 1)
      <4>1. L(i) <= L(m + 1) /\ L(m + 1) <= L(m + 2)
        BY <1>1, <1>2, <1>3, <1>c, <2>2, <3>1, <3>3
      <4>2. L(i) \in Nat /\ L(m + 1) \in Nat /\ L(m + 2) \in Nat
        BY <1>1, <1>4, <1>5, <2>2, <3>3
      <4>3. QED
        BY <3>3, <4>1, <4>2
    <3>4. CASE j = m + 2 /\ i = m + 2
      BY <1>1, <1>5, <2>2, <3>4
    <3>5. QED
      BY <1>1, <3>1, <3>2, <3>3, <3>4
  <2>3. QED
    BY <1>1, <2>1, <2>2
<1>7. ASSUME NEW i \in 1..m, C(i + 1)
      PROVE  Unlooked(st2[i])
  <2>0. /\ Alike(st[i], st2[i]) /\ Settled(st[i])
        /\ i \in 1..Len(st) /\ i \in 1..Len(st2) /\ EntryOK(st[i])
        /\ IsForm(st2[i]) = IsForm(st[i])
    <3>1. StackOK(st, bl) /\ Keeps(st, bl, st2, bl2, m) /\ bl2 \in Seq(Var) /\ i \in 1..m
      OBVIOUS
    <3>2. QED
      BY ONLY <3>1, KeepsAlike
  <2>1. /\ Kept(st[i], st2[i], Len(bl2)) /\ Alike(st[i], st2[i]) /\ Settled(st[i])
        /\ i \in 1..Len(st) /\ i \in 1..Len(st2) /\ EntryOK(st[i]) /\ Unlooked(st[i])
        /\ IsForm(st2[i]) = IsForm(st[i])
    <3>1. CallsUnder(st, i + 1) # {}
      BY <1>1, <1>7, <1>b
    <3>2. QED
      BY <2>0, <3>1 DEF Keeps, UnlookedOK
  <2>2. CASE ~IsForm(st[i])
    BY <2>1, <2>2 DEF Alike
  <2>3. CASE IsForm(st[i])
    <3> DEFINE e == st[i]
    <3>1. e.phase = "body" /\ e.below = Len(e.names) /\ e.inside = Len(e.names) + Len(e.vars)
      BY <2>1, <2>3, FormFields DEF Settled, Unlooked
    <3>2. e \in FormEntry /\ Len(e.names) \in Nat /\ Len(e.vars) \in Nat
      BY <2>1, <2>3, FormFields
    <3>3. NamesIn(st, bl, i + 1) = NamesIn(st2, bl2, i + 1)
      <4>1. i + 1 \in 1..(m + 1)
        BY <1>1
      <4>2. QED
        BY <1>0, <4>1
    <3>4. Grown(e, NamesIn(st, bl, i + 1))
      BY <2>1, <2>3 DEF ChainOK, Goes
    <3>5. L(i + 1) = Len(e.names) + Len(e.vars)
      BY <3>1, <3>3, <3>4 DEF L, Grown, BoundBy
    <3>6. L(i + 1) <= L(Len(st2) + 1)
      <4>1. i + 1 \in 1..(Len(st2) + 1) /\ Len(st2) + 1 \in 1..(Len(st2) + 1)
            /\ i + 1 <= Len(st2) + 1
        BY <1>1
      <4>2. QED
        BY <1>6, <1>7, <4>1
    <3>7. e.below <= Len(bl2) /\ e.inside <= Len(bl2) /\ e.below \in Nat /\ e.inside \in Nat
      <4>1. Len(e.names) + Len(e.vars) <= Len(bl2)
        BY <1>5, <3>5, <3>6
      <4>2. Len(bl2) \in Nat /\ e.below = Len(e.names) /\ e.inside = Len(e.names) + Len(e.vars)
        BY <1>1, <3>1
      <4>3. QED
        BY <3>2, <4>1, <4>2, PartsFit
    <3>8. Left(e.below, Len(bl2)) = e.below /\ Left(e.inside, Len(bl2)) = e.inside
      BY <1>1, <3>7 DEF Left
    <3>9. st2[i] = [e EXCEPT !.below = e.below, !.inside = e.inside]
      BY <2>1, <2>3, <3>8 DEF Kept
    <3>10. st2[i] = e
      BY <3>2, <3>9 DEF FormEntry
    <3>11. QED
      BY <2>1, <3>10
  <2>4. QED
    BY <2>2, <2>3
<1>8. ASSUME NEW i \in 1..Len(st2), C(i + 1) PROVE Unlooked(st2[i])
  <2>1. i \in 1..m \/ (Len(st2) = m + 1 /\ i = m + 1)
    BY <1>1
  <2>2. i = m + 1 => i + 1 = m + 2
    BY <1>1
  <2>3. QED
    BY <1>7, <1>8, <1>d, <2>1, <2>2
<1>9. QED
  BY <1>6, <1>8 DEF UnlookedOK, L, C

LEMMA KeepsShown ==
  ASSUME NEW st, NEW bl, NEW st2, NEW bl2 \in Seq(Var), NEW m,
         StackOK(st, bl), Keeps(st, bl, st2, bl2, m),
         ShownOK(st) \/ UnlookedOK(st, bl),
         Len(st2) = m + 1 => Shows(st2, m + 1, st2[m + 1])
  PROVE  ShownOK(st2)
<1>1. m \in Nat /\ (Len(st2) = m \/ Len(st2) = m + 1)
  BY KeepsLens
<1>2. ASSUME NEW i \in 1..m
      PROVE  Shows(st2, i, st2[i])
  <2> DEFINE C == CallsUnder(st, i)
             e == st[i]
             c == FromAbove(C, e.frame)
  <2>1. CallsUnder(st2, i) = C
    BY <1>1, KeepsCallsUnder
  <2>2. Alike(e, st2[i]) /\ EntryOK(e) /\ Settled(e) /\ i \in 1..Len(st)
        /\ IsForm(st2[i]) = IsForm(e)
    BY KeepsAlike
  <2>3. CASE ~IsForm(e) /\ e.phase \in {"prompt", "remove"} /\ 0 < e.frame /\ e.frame < Cardinality(C)
    <3>1. st2[i] = e
      BY <2>2, <2>3 DEF Alike
    <3>2. ShownOK(st)
      <4>1. ~Unlooked(e)
        BY <2>2, <2>3, LevelFields DEF Unlooked
      <4>2. CallsUnder(st, i + 1) # {}
        <5>1. Cardinality(C) # 0 /\ i \in Nat
          BY <1>1, <2>2, <2>3, LevelFields, CallsUnderFinite
        <5>2. C # {}
          BY <5>1, FS_EmptySet
        <5>3. QED
          BY <5>1, <5>2 DEF CallsUnder
      <4>3. QED
        BY <2>2, <4>1, <4>2 DEF UnlookedOK
    <3>3. Len(e.names) = Len(e.had) + Len(st[c].names)
      BY <2>2, <2>3, <3>2 DEF ShownOK, Shows
    <3>4. c \in C
      <4>1. e.frame \in 1..Cardinality(C)
        BY <2>2, <2>3, LevelFields, CallsUnderFinite
      <4>2. QED
        BY <2>2, <4>1, CallsUnderFinite, FromAboveIn
    <3>5. c \in 1..m
      BY <1>1, <3>4 DEF CallsUnder
    <3>6. st2[c].names = st[c].names
      BY <3>5, KeepsAlike DEF Alike
    <3>7. QED
      BY <2>1, <3>1, <3>3, <3>6 DEF Shows
  <2>4. CASE ~(~IsForm(e) /\ e.phase \in {"prompt", "remove"} /\ 0 < e.frame /\ e.frame < Cardinality(C))
    <3>1. IsForm(st2[i]) \/ st2[i] = e
      BY <2>2 DEF Alike
    <3>2. QED
      BY <2>1, <2>2, <2>4, <3>1 DEF Shows
  <2>5. QED
    BY <2>3, <2>4
<1>3. QED
  BY <1>1, <1>2 DEF ShownOK

-----------------------------------------------------------------------------
(***************************************************************************)
(* The stacks the actions make.                                            *)
(***************************************************************************)

LEMMA TopFacts ==
  ASSUME NEW st, NEW bl, StackOK(st, bl), st # <<>>
  PROVE  /\ st \in Seq(Entry) /\ Len(st) \in Nat /\ Len(st) > 0 /\ Last(st) = st[Len(st)]
         /\ EntryOK(st[Len(st)]) /\ PointersIn(st[Len(st)], Len(bl))
         /\ NamesIn(st, bl, Len(st)) = st[Len(st)].names
         /\ NamesIn(st, bl, Len(st) + 1) = bl
<1>1. st \in Seq(Entry) /\ Len(st) \in Nat /\ Len(st) > 0
  BY EmptySeq, LenProperties DEF StackOK
<1>2. Len(st) \in 1..Len(st) /\ Len(st) + 1 \notin 1..Len(st)
  BY <1>1
<1>3. DOMAIN st = 1..Len(st)
  BY <1>1, LenProperties
<1>4. NamesIn(st, bl, Len(st)) = st[Len(st)].names /\ NamesIn(st, bl, Len(st) + 1) = bl
  BY <1>2, <1>3 DEF NamesIn
<1>5. QED
  BY <1>1, <1>2, <1>4 DEF StackOK, Last

(* rest is st, but for the pointers beyond n. *)
Drops(st, rest, n) == /\ rest \in Seq(Entry) /\ Len(rest) = Len(st)
                      /\ \A i \in 1..Len(st) : Kept(st[i], rest[i], n)

LEMMA DropsNothing ==
  ASSUME NEW st, NEW bl \in Seq(Var), NEW bl2 \in Seq(Var), StackOK(st, bl), Len(bl) <= Len(bl2)
  PROVE  Drops(st, st, Len(bl2))
<1>1. Len(bl) \in Nat /\ Len(bl2) \in Nat
  BY LenProperties
<1>2. ASSUME NEW i \in 1..Len(st)
      PROVE  Kept(st[i], st[i], Len(bl2))
  <2>1. EntryOK(st[i]) /\ PointersIn(st[i], Len(bl))
    BY DEF StackOK
  <2>2. CASE IsForm(st[i])
    <3>1. st[i].below \in Pointer /\ st[i].inside \in Pointer
      BY <2>1, <2>2, FormFields
    <3>2. PointersIn(st[i], Len(bl2))
      BY <1>1, <2>1, <2>2, <3>1 DEF PointersIn, Pointer
    <3>3. QED
      BY <1>1, <2>1, <3>2, KeptSame DEF EntryOK
  <2>3. CASE ~IsForm(st[i])
    BY <2>3 DEF Kept
  <2>4. QED
    BY <2>2, <2>3
<1>3. QED
  BY <1>2 DEF Drops, StackOK

LEMMA DroppedDrops ==
  ASSUME NEW n \in Nat, n > 0, StackOK(stack, bindlist)
  PROVE  Drops(stack, Dropped(n), n - 1)
<1> DEFINE D == Dropped(n)
<1>1. stack \in Seq(Entry) /\ DOMAIN stack = 1..Len(stack) /\ Len(stack) \in Nat
  BY LenProperties DEF StackOK
<1>2. ASSUME NEW i \in 1..Len(stack)
      PROVE  Kept(stack[i], D[i], n - 1)
  <2> DEFINE e == stack[i]
  <2>1. EntryOK(e)
    BY DEF StackOK
  <2>2. CASE IsForm(e)
    <3>1. e.below \in Pointer /\ e.inside \in Pointer
      BY <2>1, <2>2, FormFields
    <3>2. /\ Left(e.below, n - 1) = IF e.below # Stale /\ e.below >= n THEN Stale ELSE e.below
          /\ Left(e.inside, n - 1) = IF e.inside # Stale /\ e.inside >= n THEN Stale ELSE e.inside
      BY <3>1 DEF Left, Pointer
    <3>3. D[i] = [e EXCEPT !.below = IF e.below # Stale /\ e.below >= n THEN Stale ELSE e.below,
                           !.inside = IF e.inside # Stale /\ e.inside >= n THEN Stale ELSE e.inside]
      BY <1>1, <2>2 DEF Dropped
    <3>4. QED
      BY <2>2, <3>2, <3>3 DEF Kept
  <2>3. CASE ~IsForm(e)
    BY <1>1, <2>3 DEF Dropped, Kept
  <2>4. QED
    BY <2>2, <2>3
<1>3. \A i \in 1..Len(stack) : D[i] \in Entry
  <2>1. \A i \in 1..Len(stack) : stack[i] \in Entry
    BY DEF StackOK, EntryOK
  <2>2. n - 1 \in Nat
    OBVIOUS
  <2> HIDE DEF D
  <2>3. QED
    BY <1>2, <2>1, <2>2, KeptAlike
<1>4. DOMAIN D = 1..Len(stack)
  BY <1>1 DEF Dropped
<1>5. D = [i \in 1..Len(stack) |-> D[i]]
  BY <1>1 DEF Dropped
<1> HIDE DEF D
<1>6. D \in Seq(Entry) /\ Len(D) = Len(stack)
  <2>1. D \in [1..Len(stack) -> Entry]
    BY <1>3, <1>5
  <2>2. D \in Seq(Entry)
    BY <1>1, <2>1, SeqDef
  <2>3. DOMAIN D = 1..Len(D) /\ Len(D) \in Nat
    BY <2>2, LenProperties
  <2>4. QED
    BY <1>1, <1>4, <2>2, <2>3
<1>7. QED
  BY <1>2, <1>6 DEF Drops, D

LEMMA ReplaceKeeps ==
  ASSUME NEW st, NEW bl \in Seq(Var), NEW rest, NEW bl2 \in Seq(Var), NEW e \in Entry,
         StackOK(st, bl), st # <<>>, Drops(st, rest, Len(bl2)), e.names = st[Len(st)].names
  PROVE  /\ Keeps(st, bl, Append(Front(rest), e), bl2, Len(st) - 1)
         /\ Len(Append(Front(rest), e)) = Len(st)
         /\ Append(Front(rest), e)[Len(st)] = e
         /\ Append(Front(rest), e) # <<>>
<1> DEFINE s == Append(Front(rest), e)
           m == Len(st) - 1
<1>1. st \in Seq(Entry) /\ Len(st) \in Nat /\ Len(st) > 0 /\ NamesIn(st, bl, Len(st)) = st[Len(st)].names
  BY TopFacts
<1>2. rest \in Seq(Entry) /\ Len(rest) = Len(st) /\ rest # <<>>
  BY <1>1, EmptySeq DEF Drops
<1>3. /\ Front(rest) \in Seq(Entry) /\ Len(Front(rest)) = m
      /\ \A i \in 1..m : Front(rest)[i] = rest[i]
  BY <1>2, PopProperties
<1>4. /\ s \in Seq(Entry) /\ Len(s) = m + 1 /\ s[m + 1] = e
      /\ \A i \in 1..m : s[i] = rest[i]
  BY <1>3, AppendProperties
<1>5. m \in Nat /\ m + 1 = Len(st) /\ \A i \in 1..m : i \in 1..Len(st) /\ i \in 1..(Len(st) - 1)
  BY <1>1
<1>6. \A i \in 1..m : Kept(st[i], s[i], Len(bl2)) /\ Settled(st[i])
  BY <1>4, <1>5 DEF Drops, StackOK
<1> HIDE DEF s, m
<1>7. NamesIn(s, bl2, m + 1) = e.names
  <2>1. m + 1 \in 1..Len(s) /\ DOMAIN s = 1..Len(s)
    <3>1. DOMAIN s = 1..Len(s)
      BY <1>4, LenProperties
    <3>2. m + 1 \in 1..(m + 1)
      BY <1>5
    <3>3. QED
      BY <1>4, <3>1, <3>2
  <2>2. QED
    BY <1>4, <2>1 DEF NamesIn
<1>8. Keeps(st, bl, s, bl2, m)
  <2>1. m <= Len(st) /\ Len(st) <= m + 1 /\ m <= Len(s) /\ Len(s) <= m + 1
    BY <1>4, <1>5
  <2>2. QED
    BY <1>1, <1>4, <1>5, <1>6, <1>7, <2>1 DEF Keeps
<1>9. s # <<>>
  BY <1>4, <1>5, EmptySeq
<1>10. QED
  BY <1>4, <1>5, <1>8, <1>9 DEF s, m

LEMMA PopKeeps ==
  ASSUME NEW st, NEW bl \in Seq(Var), NEW rest, NEW bl2 \in Seq(Var),
         StackOK(st, bl), st # <<>>, Drops(st, rest, Len(bl2)), bl2 = st[Len(st)].names
  PROVE  /\ Keeps(st, bl, Front(rest), bl2, Len(st) - 1)
         /\ Len(Front(rest)) = Len(st) - 1
<1> DEFINE s == Front(rest)
           m == Len(st) - 1
<1>1. st \in Seq(Entry) /\ Len(st) \in Nat /\ Len(st) > 0 /\ NamesIn(st, bl, Len(st)) = st[Len(st)].names
  BY TopFacts
<1>2. rest \in Seq(Entry) /\ Len(rest) = Len(st) /\ rest # <<>>
  BY <1>1, EmptySeq DEF Drops
<1>3. /\ s \in Seq(Entry) /\ Len(s) = m
      /\ \A i \in 1..m : s[i] = rest[i]
  BY <1>2, PopProperties
<1>5. m \in Nat /\ m + 1 = Len(st) /\ \A i \in 1..m : i \in 1..Len(st) /\ i \in 1..(Len(st) - 1)
  BY <1>1
<1>6. \A i \in 1..m : Kept(st[i], s[i], Len(bl2)) /\ Settled(st[i])
  BY <1>3, <1>5 DEF Drops, StackOK
<1> HIDE DEF s, m
<1>7. NamesIn(s, bl2, m + 1) = bl2
  <2>1. DOMAIN s = 1..Len(s)
    BY <1>3, LenProperties
  <2>2. m + 1 \notin 1..m
    BY <1>5
  <2>3. QED
    BY <1>3, <2>1, <2>2 DEF NamesIn
<1>8. Keeps(st, bl, s, bl2, m)
  <2>1. m <= Len(st) /\ Len(st) <= m + 1 /\ m <= Len(s) /\ Len(s) <= m + 1
    BY <1>3, <1>5
  <2>2. QED
    BY <1>1, <1>3, <1>5, <1>6, <1>7, <2>1 DEF Keeps
<1>9. QED
  BY <1>3, <1>8 DEF s, m

LEMMA PushKeeps ==
  ASSUME NEW st, NEW bl \in Seq(Var), NEW e \in Entry,
         StackOK(st, bl), st # <<>> => Settled(st[Len(st)]), e.names = bl
  PROVE  /\ Keeps(st, bl, Append(st, e), bl, Len(st))
         /\ Len(Append(st, e)) = Len(st) + 1
         /\ Append(st, e)[Len(st) + 1] = e
         /\ Append(st, e) # <<>>
<1> DEFINE s == Append(st, e)
           m == Len(st)
<1>1. st \in Seq(Entry) /\ m \in Nat
  BY LenProperties DEF StackOK
<1>2. /\ s \in Seq(Entry) /\ Len(s) = m + 1 /\ s[m + 1] = e
      /\ \A i \in 1..m : s[i] = st[i]
  BY <1>1, AppendProperties
<1>3. Drops(st, st, Len(bl))
  BY DropsNothing, LenProperties
<1>4. \A i \in 1..m : Settled(st[i])
  <2>1. CASE m = 0
    BY <2>1
  <2>2. CASE m # 0
    <3>1. Settled(st[m])
      BY <2>2, EmptySeq
    <3>2. \A i \in 1..m : i \in 1..(m - 1) \/ i = m
      BY <1>1
    <3>3. QED
      BY <3>1, <3>2 DEF StackOK
  <2>3. QED
    BY <2>1, <2>2
<1>5. \A i \in 1..m : Kept(st[i], s[i], Len(bl))
  BY <1>2, <1>3 DEF Drops
<1>6. DOMAIN s = 1..Len(s) /\ DOMAIN st = 1..Len(st)
  BY <1>1, <1>2, LenProperties
<1>7. m + 1 \in 1..(m + 1) /\ m + 1 \notin 1..m
  BY <1>1
<1>8. NamesIn(s, bl, m + 1) = bl /\ NamesIn(st, bl, m + 1) = bl
  BY <1>2, <1>6, <1>7 DEF NamesIn
<1>9. m <= m /\ m <= m + 1 /\ m + 1 <= m + 1
  BY <1>1
<1>10. s # <<>>
  BY <1>1, <1>2, EmptySeq
<1> HIDE DEF s, m
<1>11. Keeps(st, bl, s, bl, m)
  BY <1>1, <1>2, <1>4, <1>5, <1>8, <1>9 DEF Keeps, m
<1>12. QED
  BY <1>2, <1>10, <1>11 DEF s, m

LEMMA SettledInPlace ==
  ASSUME NEW e, EntryOK(e), IsForm(e) \/ Len(e.diffvars) = Len(e.had),
         NEW val, NEW bl, NEW ms
  PROVE  InPlace(e, val, bl, ms)
<1>1. CASE IsForm(e)
  BY <1>1 DEF InPlace
<1>2. CASE ~IsForm(e)
  <2>1. Len(e.had) - Len(e.diffvars) = 0
    BY <1>2, LevelFields
  <2>2. QED
    BY <2>1 DEF InPlace
<1>3. QED
  BY <1>1, <1>2

(* What an entry at m + 1 shows depends on the kept entries only. *)
LEMMA ShowsKept ==
  ASSUME NEW st, NEW bl, NEW st2, NEW bl2 \in Seq(Var), NEW m,
         StackOK(st, bl), Keeps(st, bl, st2, bl2, m), NEW e, EntryOK(e), Shows(st, m + 1, e)
  PROVE  Shows(st2, m + 1, e)
<1> DEFINE C == CallsUnder(st, m + 1)
           c == FromAbove(C, e.frame)
<1>1. m \in Nat /\ m + 1 \in 1..(m + 1)
  BY DEF Keeps
<1>2. CallsUnder(st2, m + 1) = C
  BY <1>1, KeepsCallsUnder
<1>3. CASE ~IsForm(e) /\ e.phase \in {"prompt", "remove"} /\ 0 < e.frame /\ e.frame < Cardinality(C)
  <2>1. Len(e.names) = Len(e.had) + Len(st[c].names)
    BY <1>3 DEF Shows
  <2>2. c \in C
    <3>1. e.frame \in 1..Cardinality(C)
      BY <1>1, <1>3, LevelFields, CallsUnderFinite
    <3>2. m + 1 \in Nat /\ m + 1 > 0
      BY <1>1
    <3>3. QED
      BY <3>1, <3>2, CallsUnderFinite, FromAboveIn
  <2>3. c \in 1..m
    BY <1>1, <2>2 DEF CallsUnder
  <2>4. st2[c].names = st[c].names
    BY <2>3, KeepsAlike DEF Alike
  <2>5. QED
    BY <1>2, <2>1, <2>4 DEF Shows
<1>4. CASE ~(~IsForm(e) /\ e.phase \in {"prompt", "remove"} /\ 0 < e.frame /\ e.frame < Cardinality(C))
  BY <1>2, <1>4 DEF Shows
<1>5. QED
  BY <1>3, <1>4

(* A stack that is put together of kept entries and one more that fits. *)
LEMMA StepInv ==
  ASSUME DInv, BindTypeOK', ValuesListExact', looks' \in 0..2, looks <= looks', NEW m,
         Keeps(stack, bindlist, stack', bindlist', m),
         NewTop(stack', bindlist', m),
         Len(stack') = m + 1 => /\ looks' = 0 /\ CallsUnder(stack', m + 2) # {} => Unlooked(stack'[m + 1])
                                /\ looks' = 1 => Shows(stack', m + 1, stack'[m + 1])
                                /\ InPlace(stack'[m + 1], value', bindlist', mspeclist'),
         BoundHaveValues(value', bindlist', mspeclist')
  PROVE  DInv'
<1>1. bindlist' \in Seq(Var) /\ looks \in 0..2
  BY DEF DInv, BindTypeOK
<1>2. StackOK(stack', bindlist')
  BY <1>1, KeepsStack DEF DInv
<1>3. ChainOK(stack', bindlist')
  BY <1>1, KeepsChain DEF DInv
<1>5. ASSUME looks' = 0 PROVE UnlookedOK(stack', bindlist')
  <2>1. looks = 0
    BY <1>1, <1>5
  <2>2. UnlookedOK(stack, bindlist)
    BY <2>1 DEF DInv
  <2>3. QED
    BY <1>1, <1>5, <2>2, KeepsUnlooked DEF DInv
<1>6. ASSUME looks' = 1 PROVE ShownOK(stack')
  <2>1. looks = 0 \/ looks = 1
    BY <1>1, <1>6
  <2>2. UnlookedOK(stack, bindlist) \/ ShownOK(stack)
    BY <2>1 DEF DInv
  <2>3. QED
    BY <1>1, <1>6, <2>2, KeepsShown DEF DInv
<1>7. ASSUME stack' # <<>>
      PROVE  InPlace(stack'[Len(stack')], value', bindlist', mspeclist')
  <2>1. m \in Nat /\ (Len(stack') = m \/ Len(stack') = m + 1)
    BY <1>1, KeepsLens DEF DInv
  <2>2. CASE Len(stack') = m
    <3>1. Len(stack') > 0
      BY <1>2, <1>7, TopFacts
    <3>2. m \in 1..m
      BY <2>1, <2>2, <3>1
    <3>3. EntryOK(stack'[m]) /\ Settled(stack'[m])
      BY <1>1, <3>2, KeepsAlike DEF DInv
    <3>4. QED
      <4>1. IsForm(stack'[m]) \/ Len(stack'[m].diffvars) = Len(stack'[m].had)
        BY <3>3, LevelFields DEF Settled, LevelOK
      <4>2. QED
        BY <2>2, <3>3, <4>1, SettledInPlace
  <2>3. QED
    BY <2>1, <2>2
<1>8. QED
  BY <1>2, <1>3, <1>5, <1>6, <1>7 DEF DInv

(* Where the top is replaced by an entry of its kind, calls are where they were. *)
LEMMA SameCalls ==
  ASSUME NEW st, NEW bl, NEW st2, NEW bl2 \in Seq(Var), NEW m,
         StackOK(st, bl), Keeps(st, bl, st2, bl2, m), Len(st) = m + 1,
         st2[m + 1].kind = st[m + 1].kind, CallsUnder(st2, m + 2) # {}
  PROVE  CallsIn(st) # {}
<1>1. m \in Nat
  BY DEF Keeps
<1>2. PICK j \in 1..(m + 1) : st2[j].kind = "call"
  BY <1>1 DEF CallsUnder
<1>3. st[j].kind = "call"
  <2>1. j \in 1..m \/ j = m + 1
    BY <1>1
  <2>2. QED
    BY <1>2, <2>1, KeepsAlike DEF Alike
<1>4. QED
  BY <1>3 DEF CallsIn

-----------------------------------------------------------------------------
(***************************************************************************)
(* The bindings in a step.                                                 *)
(***************************************************************************)

LEMMA SameBindings ==
  ASSUME BindTypeOK, ValuesListExact, BoundHaveValues(value, bindlist, mspeclist), UNCHANGED bvars
  PROVE  /\ BindTypeOK' /\ ValuesListExact' /\ BoundHaveValues(value', bindlist', mspeclist')
         /\ value' = value /\ bindlist' = bindlist /\ mspeclist' = mspeclist
<1>1. value' = value /\ bindlist' = bindlist /\ mspeclist' = mspeclist /\ infoValues' = infoValues
  BY DEF bvars
<1>2. BindTypeOK' /\ ValuesListExact'
  BY BindNextTypeOK
<1>3. QED
  BY <1>1, <1>2

LEMMA MbindBindings ==
  ASSUME BindTypeOK, ValuesListExact, BoundHaveValues(value, bindlist, mspeclist),
         NEW v \in Var, NEW x \in Val, MbindOne(v, x)
  PROVE  /\ BindTypeOK' /\ ValuesListExact' /\ BoundHaveValues(value', bindlist', mspeclist')
         /\ Len(bindlist') = Len(bindlist) + 1 /\ bindlist'[Len(bindlist) + 1] = v
         /\ \A i \in 1..Len(bindlist) : bindlist'[i] = bindlist[i]
         /\ \A i \in 1..Len(bindlist) :
              ScopeValue(value', bindlist', mspeclist', bindlist[i], i)
                = ScopeValue(value, bindlist, mspeclist, bindlist[i], i)
         /\ ScopeValue(value', bindlist', mspeclist', v, Len(bindlist) + 1) = x
<1>1. BindTypeOK' /\ ValuesListExact'
  BY BindNextTypeOK DEF BindNext
<1>2. OneMore(bindlist, mspeclist, value, bindlist', mspeclist', value')
  BY AppendProperties, LenProperties DEF MbindOne, SetCell, OneMore, BindTypeOK
<1>3. /\ Len(bindlist') = Len(bindlist) + 1 /\ bindlist'[Len(bindlist) + 1] = v
      /\ \A i \in 1..Len(bindlist) : bindlist'[i] = bindlist[i]
      /\ value'[v] = x
  BY AppendProperties, LenProperties DEF MbindOne, SetCell, BindTypeOK
<1>4. bindlist \in Seq(Var) /\ bindlist' \in Seq(Var) /\ Len(bindlist) \in Nat
  BY <1>1, LenProperties DEF BindTypeOK
<1>5. ASSUME NEW i \in 1..Len(bindlist)
      PROVE  ScopeValue(value', bindlist', mspeclist', bindlist[i], i)
                = ScopeValue(value, bindlist, mspeclist, bindlist[i], i)
  <2>1. i \in 0..Len(bindlist) /\ bindlist[i] \in Var
    BY <1>4, ElementOfSeq
  <2>2. QED
    BY <1>2, <1>4, <2>1, BindingKeepsScopes
<1>6. ScopeValue(value', bindlist', mspeclist', v, Len(bindlist) + 1) = x
  <2>1. \A j \in ((Len(bindlist) + 1) + 1)..Len(bindlist') : bindlist'[j] # v
    BY <1>3, <1>4
  <2>2. QED
    BY <1>3, <2>1, ScopeValueCurrent
<1>7. BoundHaveValues(value', bindlist', mspeclist')
  <2>1. \A i \in 1..Len(bindlist') : i \in 1..Len(bindlist) \/ i = Len(bindlist) + 1
    BY <1>3, <1>4
  <2>2. \A i \in 1..Len(bindlist) :
          ScopeValue(value', bindlist', mspeclist', bindlist'[i], i) \in Val
    BY <1>3, <1>5 DEF BoundHaveValues
  <2>3. ScopeValue(value', bindlist', mspeclist', bindlist'[Len(bindlist) + 1], Len(bindlist) + 1) \in Val
    BY <1>3, <1>6
  <2>4. QED
    BY <2>1, <2>2, <2>3 DEF BoundHaveValues
<1>8. QED
  BY <1>1, <1>3, <1>5, <1>6, <1>7

LEMMA MunbindBindings ==
  ASSUME BindTypeOK, ValuesListExact, BoundHaveValues(value, bindlist, mspeclist), MunbindLast
  PROVE  /\ BindTypeOK' /\ ValuesListExact' /\ BoundHaveValues(value', bindlist', mspeclist')
         /\ Len(bindlist) = Len(bindlist') + 1 /\ Len(bindlist') \in Nat
         /\ \A i \in 1..Len(bindlist') : bindlist'[i] = bindlist[i]
         /\ \A i \in 1..Len(bindlist') :
              ScopeValue(value', bindlist', mspeclist', bindlist[i], i)
                = ScopeValue(value, bindlist, mspeclist, bindlist[i], i)
<1>1. BindTypeOK' /\ ValuesListExact'
  BY BindNextTypeOK DEF BindNext
<1>2. bindlist # <<>> /\ mspeclist # <<>>
  BY EmptySeq DEF MunbindLast, Munbind, BindTypeOK
<1>3. /\ Len(bindlist') = Len(bindlist) - 1 /\ Len(bindlist) \in Nat
      /\ Len(bindlist) = Len(mspeclist)
      /\ \A i \in 1..(Len(bindlist) - 1) :
            bindlist'[i] = bindlist[i] /\ mspeclist'[i] = mspeclist[i]
  BY <1>2, PopProperties, LenProperties DEF MunbindLast, Munbind, BindTypeOK
<1>4. Last(bindlist) = bindlist[Len(bindlist)] /\ Last(mspeclist) = mspeclist[Len(bindlist)]
      /\ Last(bindlist) \in Var
  BY <1>2, <1>3, PopProperties DEF Last, BindTypeOK
<1>5. /\ value'[Last(bindlist)] = Last(mspeclist)
      /\ \A w \in Var : w # Last(bindlist) => value'[w] = value[w]
  BY <1>4 DEF MunbindLast, Munbind, SetCell, ClearCell, BindTypeOK
<1>6. OneMore(bindlist', mspeclist', value', bindlist, mspeclist, value)
  BY <1>3, <1>4, <1>5 DEF OneMore
<1>7. /\ bindlist \in Seq(Var) /\ bindlist' \in Seq(Var) /\ Len(bindlist') \in Nat
      /\ Len(bindlist) = Len(bindlist') + 1
      /\ \A i \in 1..Len(bindlist') : bindlist'[i] = bindlist[i]
  BY <1>1, <1>3, LenProperties DEF BindTypeOK
<1>8. ASSUME NEW i \in 1..Len(bindlist')
      PROVE  ScopeValue(value', bindlist', mspeclist', bindlist[i], i)
                = ScopeValue(value, bindlist, mspeclist, bindlist[i], i)
  <2>1. i \in 0..Len(bindlist') /\ bindlist[i] \in Var
    BY <1>7, ElementOfSeq
  <2>2. QED
    BY <1>6, <1>7, <2>1, BindingKeepsScopes
<1>9. BoundHaveValues(value', bindlist', mspeclist')
  <2>1. \A i \in 1..Len(bindlist') : i \in 1..Len(bindlist)
    BY <1>7
  <2>2. QED
    BY <1>7, <1>8, <2>1 DEF BoundHaveValues
<1>10. QED
  BY <1>1, <1>7, <1>8, <1>9

(* The innermost scope of the variable bound last is its value cell. *)
LEMMA LastScope ==
  ASSUME BindTypeOK, bindlist # <<>>
  PROVE  /\ Len(bindlist) \in Nat /\ Len(bindlist) > 0
         /\ Last(bindlist) = bindlist[Len(bindlist)] /\ Last(bindlist) \in Var
         /\ ScopeValue(value, bindlist, mspeclist, Last(bindlist), Len(bindlist)) = value[Last(bindlist)]
<1>1. Len(bindlist) \in Nat /\ Len(bindlist) > 0
  BY LenProperties, EmptySeq DEF BindTypeOK
<1>2. Last(bindlist) = bindlist[Len(bindlist)] /\ Last(bindlist) \in Var
  BY PopProperties DEF Last, BindTypeOK
<1>3. \A j \in (Len(bindlist) + 1)..Len(bindlist) : bindlist[j] # Last(bindlist)
  BY <1>1
<1>4. QED
  BY <1>1, <1>2, <1>3, ScopeValueCurrent

(* An assignment does not reach a bound variable of another name, and gives   *)
(* its own a value.                                                        *)
LEMMA SetBindings ==
  ASSUME BindTypeOK, BoundHaveValues(value, bindlist, mspeclist), BindTypeOK',
         UNCHANGED <<bindlist, mspeclist>>,
         NEW v \in Var, DiffersAt(v, value, value'),
         value'[v] \in Val \/ \A i \in 1..Len(bindlist) : bindlist[i] # v
  PROVE  BoundHaveValues(value', bindlist', mspeclist')
<1>1. ASSUME NEW i \in 1..Len(bindlist)
      PROVE  ScopeValue(value', bindlist, mspeclist, bindlist[i], i) \in Val
  <2>1. bindlist \in Seq(Var) /\ bindlist[i] \in Var /\ i \in Nat
    BY ElementOfSeq, LenProperties DEF BindTypeOK
  <2>2. ScopeValue(value', bindlist, mspeclist, bindlist[i], i) =
           IF bindlist[i] = v /\ \A j \in (i + 1)..Len(bindlist) : bindlist[j] # v
           THEN value'[v] ELSE ScopeValue(value, bindlist, mspeclist, bindlist[i], i)
    <3>1. PICK w \in Var : w = bindlist[i]
      BY <2>1
    <3>2. v \in Var /\ w \in Var /\ i \in Nat /\ DiffersAt(v, value, value') /\ bindlist \in Seq(Var)
      BY <2>1
    <3>3. ScopeValue(value', bindlist, mspeclist, w, i) =
             IF w = v /\ \A j \in (i + 1)..Len(bindlist) : bindlist[j] # v
             THEN value'[v] ELSE ScopeValue(value, bindlist, mspeclist, w, i)
      BY ONLY <3>2, SetChangesInnermost
    <3>4. QED
      BY <3>1, <3>3
  <2>3. ScopeValue(value, bindlist, mspeclist, bindlist[i], i) \in Val
    BY DEF BoundHaveValues
  <2>4. QED
    BY <2>2, <2>3
<1>2. QED
  BY <1>1 DEF BoundHaveValues

-----------------------------------------------------------------------------
(***************************************************************************)
(* The actions that leave the stack alone.                                 *)
(***************************************************************************)

(* Evaluation takes place where the top of the stack is settled. *)
LEMMA EvaluatingSettled ==
  ASSUME DInv, Evaluating, stack # <<>>
  PROVE  Settled(stack[Len(stack)])
BY TopFacts DEF Evaluating, InBody, AtPrompt, TopIs, Top, Settled, DInv

LEMMA SettledTopInPlace ==
  ASSUME DInv, stack # <<>>, Settled(stack[Len(stack)]), NEW val, NEW bl, NEW ms
  PROVE  InPlace(stack[Len(stack)], val, bl, ms)
<1> DEFINE e == stack[Len(stack)]
<1>1. EntryOK(e)
  BY TopFacts DEF DInv
<1> HIDE DEF e
<1>2. Settled(e)
  BY DEF e
<1>3. IsForm(e) \/ Len(e.diffvars) = Len(e.had)
  BY <1>1, <1>2, LevelFields DEF Settled, LevelOK
<1>4. InPlace(e, val, bl, ms)
  BY <1>1, <1>3, SettledInPlace
<1>5. QED
  BY <1>4 DEF e

LEMMA AssignInv ==
  ASSUME DInv, NEW v \in Var, NEW x \in Val, Assign(v, x)
  PROVE  DInv'
<1>1. Mset(v, x) /\ Evaluating /\ UNCHANGED <<stack, exit, looks>>
  BY DEF Assign
<1>2. BindTypeOK' /\ ValuesListExact'
  BY <1>1, BindNextTypeOK DEF BindNext, DInv
<1>3. bindlist' = bindlist /\ mspeclist' = mspeclist /\ stack' = stack /\ looks' = looks
  BY <1>1 DEF Mset
<1>4. DiffersAt(v, value, value') /\ value'[v] \in Val
  BY <1>1 DEF Mset, SetCell, DiffersAt, DInv, BindTypeOK
<1>5. BoundHaveValues(value', bindlist', mspeclist')
  BY <1>2, <1>3, <1>4, SetBindings DEF DInv
<1>6. stack # <<>> => InPlace(stack[Len(stack)], value', bindlist', mspeclist')
  BY <1>1, EvaluatingSettled, SettledTopInPlace
<1>7. QED
  BY <1>2, <1>3, <1>5, <1>6 DEF DInv

LEMMA RemvalueInv ==
  ASSUME DInv, NEW v \in Var, RemvalueGlobal(v)
  PROVE  DInv'
<1>1. Remvalue(v) /\ Evaluating /\ UNCHANGED <<stack, exit, looks>> /\ v \notin Range(bindlist)
  BY DEF RemvalueGlobal
<1>2. BindTypeOK' /\ ValuesListExact'
  BY <1>1, BindNextTypeOK DEF BindNext, DInv
<1>3. bindlist' = bindlist /\ mspeclist' = mspeclist /\ stack' = stack /\ looks' = looks
  BY <1>1 DEF Remvalue
<1>4. DiffersAt(v, value, value')
  BY <1>1 DEF Remvalue, ClearCell, DiffersAt, DInv, BindTypeOK
<1>5. \A i \in 1..Len(bindlist) : bindlist[i] # v
  BY <1>1, LenProperties DEF Range, DInv, BindTypeOK
<1>6. BoundHaveValues(value', bindlist', mspeclist')
  BY <1>2, <1>3, <1>4, <1>5, SetBindings DEF DInv
<1>7. stack # <<>> => InPlace(stack[Len(stack)], value', bindlist', mspeclist')
  BY <1>1, EvaluatingSettled, SettledTopInPlace
<1>8. QED
  BY <1>2, <1>3, <1>6, <1>7 DEF DInv

LEMMA CatchQuitInv ==
  ASSUME DInv, CatchQuit
  PROVE  DInv'
<1>1. UNCHANGED bvars /\ stack' = stack /\ looks' = looks
  BY DEF CatchQuit
<1>2. /\ BindTypeOK' /\ ValuesListExact' /\ BoundHaveValues(value', bindlist', mspeclist')
      /\ value' = value /\ bindlist' = bindlist /\ mspeclist' = mspeclist
  BY <1>1, SameBindings DEF DInv
<1>3. QED
  BY <1>1, <1>2 DEF DInv

-----------------------------------------------------------------------------
(***************************************************************************)
(* The actions that push an entry.                                         *)
(***************************************************************************)

LEMMA PushInv ==
  ASSUME DInv, Evaluating, UNCHANGED <<bvars, looks>>, NEW e, stack' = Append(stack, e),
         EntryOK(e), PointersIn(e, Len(bindlist)), Goes(e, bindlist), e.names = bindlist,
         Unlooked(e), ~IsForm(e) => e.frame = 0 /\ e.had = <<>> /\ e.diffvars = <<>>
  PROVE  DInv'
<1> DEFINE m == Len(stack)
<1>1. /\ BindTypeOK' /\ ValuesListExact' /\ BoundHaveValues(value', bindlist', mspeclist')
      /\ value' = value /\ bindlist' = bindlist /\ mspeclist' = mspeclist /\ looks' = looks
  BY SameBindings DEF DInv
<1>2. bindlist \in Seq(Var) /\ StackOK(stack, bindlist) /\ looks \in 0..2 /\ e \in Entry
  BY DEF DInv, BindTypeOK, EntryOK
<1>3. stack # <<>> => Settled(stack[Len(stack)])
  BY EvaluatingSettled
<1>4. /\ Keeps(stack, bindlist, stack', bindlist', m)
      /\ Len(stack') = m + 1 /\ stack'[m + 1] = e /\ stack' # <<>>
  BY <1>1, <1>2, <1>3, PushKeeps
<1>5. NewTop(stack', bindlist', m)
  BY <1>1, <1>4 DEF NewTop
<1>6. Shows(stack', m + 1, e)
  BY DEF Shows
<1>7. InPlace(e, value', bindlist', mspeclist')
  BY SettledInPlace
<1>8. QED
  <2>1. looks' \in 0..2 /\ looks <= looks'
    BY <1>1, <1>2
  <2> HIDE DEF m
  <2>2. QED
    BY <1>1, <1>4, <1>5, <1>6, <1>7, <2>1, StepInv

LEMMA EnterFormInv ==
  ASSUME DInv, Evaluating, NEW kind \in {"call", "block"}, NEW vs \in VarLists,
         UNCHANGED <<bvars, looks>>, stack' = Append(stack, Form(kind, vs))
  PROVE  DInv'
<1> DEFINE e == Form(kind, vs)
<1>1. Evaluating /\ UNCHANGED <<bvars, looks>> /\ stack' = Append(stack, e)
  OBVIOUS
<1>2. bindlist \in Seq(Var) /\ Len(bindlist) \in Nat /\ vs \in Seq(Var) /\ vs # <<>>
  BY LenProperties, DebuggerAssumption DEF DInv, BindTypeOK
<1>3. Len(vs) \in Nat
  BY <1>2, LenProperties
<1>4. /\ e.kind = kind /\ e.phase = "bind" /\ e.vars = vs /\ e.todo = vs
      /\ e.below = Len(bindlist) /\ e.inside = Stale /\ e.names = bindlist /\ IsForm(e)
  BY DEF Form, IsForm
<1>5. e \in FormEntry
  BY <1>2 DEF FormEntry, Form, Pointer
<1> HIDE DEF e
<1>6. EntryOK(e)
  BY <1>2, <1>3, <1>4, <1>5 DEF EntryOK, Entry, FormOK
<1>7. PointersIn(e, Len(bindlist)) /\ Unlooked(e)
  BY <1>2, <1>4 DEF PointersIn, Unlooked
<1>8. BoundBy(e) = 0
  BY <1>3, <1>4 DEF BoundBy
<1>9. Goes(e, bindlist)
  BY <1>2, <1>4, <1>8 DEF Goes, Grown
<1>10. QED
  BY <1>1, <1>4, <1>6, <1>7, <1>9, PushInv

LEMMA MlambdaInv ==
  ASSUME DInv, NEW vs \in VarLists, Mlambda(vs) \/ Mprog(vs)
  PROVE  DInv'
<1>1. Evaluating /\ UNCHANGED <<bvars, looks>>
  BY DEF Mlambda, Mprog
<1>2. \E kind \in {"call", "block"} : stack' = Append(stack, Form(kind, vs))
  BY DEF Mlambda, Mprog
<1>3. QED
  BY <1>1, <1>2, EnterFormInv

LEMMA EnterLevelInv ==
  ASSUME DInv, Evaluating, NEW at \in {"break", "error"},
         UNCHANGED <<bvars, looks>>, stack' = Append(stack, Level(at))
  PROVE  DInv'
<1> DEFINE e == Level(at)
<1>1. bindlist \in Seq(Var) /\ Len(bindlist) \in Nat
  BY LenProperties DEF DInv, BindTypeOK
<1>2. /\ e.kind = at /\ e.phase \in {"prompt", "restore"} /\ e.frame = 0 /\ e.diffvars = <<>> /\ e.diffvals = <<>>
      /\ e.had = <<>> /\ e.names = bindlist /\ ~IsForm(e)
  BY DEF Level, IsForm
<1>3. e \in LevelEntry
  BY <1>1, EmptySeq DEF Level, LevelEntry, Pointer
<1>4. Len(<<>>) = 0
  BY EmptySeq
<1> HIDE DEF e
<1>5. EntryOK(e)
  BY <1>1, <1>2, <1>3, <1>4 DEF EntryOK, Entry, LevelOK
<1>6. PointersIn(e, Len(bindlist)) /\ Unlooked(e)
  BY <1>2 DEF PointersIn, Unlooked
<1>7. Goes(e, bindlist)
  BY <1>1, <1>2, <1>4 DEF Goes, Shrunk
<1>8. QED
  BY <1>2, <1>5, <1>6, <1>7, PushInv DEF e

LEMMA LevelsInv ==
  ASSUME DInv, IllegalReturn \/ BreakPoint \/ Merror
  PROVE  DInv'
<1>1. Evaluating /\ UNCHANGED <<bvars, looks>>
  BY DEF IllegalReturn, BreakPoint, Merror, Evaluating
<1>2. \E at \in {"break", "error"} : stack' = Append(stack, Level(at))
  BY DEF IllegalReturn, BreakPoint, Merror
<1>3. QED
  BY <1>1, <1>2, EnterLevelInv

-----------------------------------------------------------------------------
(***************************************************************************)
(* The actions that change the top and no binding.                         *)
(***************************************************************************)

LEMMA ReplaceInv ==
  ASSUME DInv, stack # <<>>, UNCHANGED bvars, looks' \in 0..2, looks <= looks',
         NEW e, stack' = Replaced(e), EntryOK(e), PointersIn(e, Len(bindlist)),
         Goes(e, bindlist), e.names = stack[Len(stack)].names, e.kind = stack[Len(stack)].kind,
         looks' = 0 /\ InCall => Unlooked(e),
         looks' = 1 => Shows(stack, Len(stack), e),
         InPlace(e, value, bindlist, mspeclist)
  PROVE  DInv'
<1> DEFINE m == Len(stack) - 1
<1>1. /\ BindTypeOK' /\ ValuesListExact' /\ BoundHaveValues(value', bindlist', mspeclist')
      /\ value' = value /\ bindlist' = bindlist /\ mspeclist' = mspeclist
  BY SameBindings DEF DInv
<1>2. /\ bindlist \in Seq(Var) /\ StackOK(stack, bindlist) /\ e \in Entry
      /\ Len(stack) \in Nat /\ m + 1 = Len(stack)
  BY TopFacts DEF DInv, BindTypeOK, EntryOK
<1>3. Drops(stack, stack, Len(bindlist))
  BY <1>2, DropsNothing, LenProperties
<1>4. /\ Keeps(stack, bindlist, stack', bindlist', m)
      /\ Len(stack') = m + 1 /\ stack'[m + 1] = e /\ stack' # <<>>
  <2> DEFINE s == Append(Front(stack), e)
  <2>1. stack # <<>> /\ e.names = stack[Len(stack)].names
    OBVIOUS
  <2>2. /\ Keeps(stack, bindlist, s, bindlist, Len(stack) - 1)
        /\ Len(s) = Len(stack) /\ s[Len(stack)] = e /\ s # <<>>
    <3>1. /\ bindlist \in Seq(Var) /\ e \in Entry /\ StackOK(stack, bindlist)
          /\ Drops(stack, stack, Len(bindlist))
      BY <1>2, <1>3
    <3>2. QED
      BY ONLY <2>1, <3>1, ReplaceKeeps
  <2>3. stack' = s
    BY DEF Replaced
  <2> HIDE DEF s
  <2>4. QED
    BY <1>1, <1>2, <2>2, <2>3
<1>5. NewTop(stack', bindlist', m)
  BY <1>1, <1>4 DEF NewTop
<1>6. looks' = 1 => Shows(stack', m + 1, e)
  <2> SUFFICES ASSUME Shows(stack, m + 1, e) PROVE Shows(stack', m + 1, e)
    BY <1>2
  <2>1. m \in Nat /\ m + 1 \in 1..(m + 1)
    BY <1>4 DEF Keeps
  <2>2. CallsUnder(stack', m + 1) = CallsUnder(stack, m + 1)
    BY <1>1, <1>2, <1>4, <2>1, KeepsCallsUnder
  <2>3. QED
    BY <1>1, <1>2, <1>4, <2>1, <2>2, ShowsKept
<1>7. CallsUnder(stack', m + 2) # {} => InCall
  BY <1>1, <1>2, <1>4, SameCalls DEF InCall
<1>8. QED
  <2> HIDE DEF m
  <2>1. QED
    BY <1>1, <1>4, <1>5, <1>6, <1>7, StepInv

LEMMA ReverseFacts ==
  ASSUME NEW vs \in Seq(Var)
  PROVE  /\ Reverse(vs) \in Seq(Var) /\ Len(Reverse(vs)) = Len(vs)
         /\ \A i \in 1..Len(vs) : Reverse(vs)[i] = vs[Len(vs) + 1 - i]
<1> DEFINE r == Reverse(vs)
<1>1. Len(vs) \in Nat
  BY LenProperties
<1>2. r = [i \in 1..Len(vs) |-> vs[(Len(vs) - i) + 1]]
  BY DEF Reverse
<1>3. \A i \in 1..Len(vs) : (Len(vs) - i) + 1 \in 1..Len(vs) /\ (Len(vs) - i) + 1 = Len(vs) + 1 - i
  BY <1>1
<1>4. \A i \in 1..Len(vs) : vs[(Len(vs) - i) + 1] \in Var
  BY <1>3, ElementOfSeq
<1> HIDE DEF r
<1>5. r \in [1..Len(vs) -> Var] /\ DOMAIN r = 1..Len(vs)
  BY <1>2, <1>4
<1>6. r \in Seq(Var)
  BY <1>1, <1>5, SeqDef
<1>7. Len(r) = Len(vs)
  <2>1. DOMAIN r = 1..Len(r) /\ Len(r) \in Nat
    BY <1>6, LenProperties
  <2>2. QED
    BY <1>1, <1>5, <2>1
<1>8. \A i \in 1..Len(vs) : r[i] = vs[Len(vs) + 1 - i]
  BY <1>2, <1>3
<1>9. QED
  BY <1>6, <1>7, <1>8 DEF r

(* When the loop of remove-bindings ends, all it was to take off is off.     *)
LEMMA AllOff ==
  ASSUME NEW b \in Nat, NEW k \in Nat, NEW m \in Nat, NEW n \in Nat, NEW p,
         n = b + k, k <= m, m <= n, Stale \notin Nat,
         (p = Stale /\ m = n) \/ (p \in Nat /\ p + m = n),
         b = 0 \/ p = b
  PROVE  k = m
<1>1. CASE p = Stale /\ m = n
  BY <1>1
<1>2. CASE p \in Nat /\ p + m = n
  BY <1>2
<1>3. QED
  BY <1>1, <1>2

LEMMA TopIsTop ==
  ASSUME DInv, NEW call, NEW phase, TopIs(call, phase)
  PROVE  /\ stack # <<>> /\ Top = stack[Len(stack)] /\ IsForm(Top) = call /\ Top.phase = phase
         /\ EntryOK(Top) /\ PointersIn(Top, Len(bindlist)) /\ Goes(Top, bindlist)
         /\ looks = 0 /\ InCall => Unlooked(Top)
         /\ looks = 1 => Shows(stack, Len(stack), Top)
         /\ InPlace(Top, value, bindlist, mspeclist)
<1>1. stack # <<>> /\ StackOK(stack, bindlist)
  BY DEF TopIs, DInv
<1>2. /\ Top = stack[Len(stack)] /\ IsForm(Top) = call /\ Top.phase = phase
      /\ EntryOK(Top) /\ PointersIn(Top, Len(bindlist)) /\ Len(stack) \in 1..Len(stack)
      /\ NamesIn(stack, bindlist, Len(stack) + 1) = bindlist
  BY <1>1, TopFacts DEF TopIs, Top
<1>3. Goes(Top, bindlist)
  BY <1>2 DEF DInv, ChainOK
<1>4. looks = 0 /\ InCall => Unlooked(Top)
  <2> SUFFICES ASSUME looks = 0, InCall PROVE Unlooked(Top)
    OBVIOUS
  <2>1. CallsUnder(stack, Len(stack) + 1) # {}
    BY <1>1, TopFacts DEF InCall, CallsIn, CallsUnder
  <2>2. QED
    BY <1>2, <2>1 DEF DInv, UnlookedOK
<1>5. looks = 1 => Shows(stack, Len(stack), Top)
  BY <1>2 DEF DInv, ShownOK
<1>6. InPlace(Top, value, bindlist, mspeclist)
  BY <1>1, <1>2 DEF DInv
<1>7. QED
  BY <1>1, <1>2, <1>3, <1>4, <1>5, <1>6

(* A call starts to unbind its parameters, the last first. *)
LEMMA UnwindFormInv ==
  ASSUME DInv, Finish \/ UnwindForm
  PROVE  DInv'
<1> DEFINE vs == Top.vars
           e == [Top EXCEPT !.phase = "unbind", !.todo = Reverse(vs)]
<1>1. UNCHANGED bvars /\ looks' = looks /\ TopIs(TRUE, "body") /\ stack' = Replaced(e)
  BY DEF Finish, UnwindForm, InBody
<1>2. /\ stack # <<>> /\ Top = stack[Len(stack)] /\ IsForm(Top) /\ Top.phase = "body"
      /\ EntryOK(Top) /\ PointersIn(Top, Len(bindlist)) /\ Goes(Top, bindlist)
      /\ looks = 0 /\ InCall => Unlooked(Top)
  BY <1>1, TopIsTop
<1>3. Top \in FormEntry /\ vs \in Seq(Var) /\ Len(vs) \in Nat /\ Len(vs) > 0
  BY <1>2, FormFields
<1>4. /\ Reverse(vs) \in Seq(Var) /\ Len(Reverse(vs)) = Len(vs)
      /\ \A i \in 1..Len(vs) : Reverse(vs)[i] = vs[Len(vs) + 1 - i]
  BY <1>3, ReverseFacts
<1>5. /\ e \in FormEntry /\ e.phase = "unbind" /\ e.todo = Reverse(vs) /\ e.vars = vs
      /\ e.below = Top.below /\ e.inside = Top.inside /\ e.names = Top.names /\ e.kind = Top.kind
  BY <1>3, <1>4 DEF FormEntry
<1>6. IsForm(e) /\ e.todo # <<>>
  BY <1>2, <1>3, <1>4, <1>5, EmptySeq DEF IsForm
<1> HIDE DEF e, vs
<1>7. EntryOK(e)
  BY <1>3, <1>4, <1>5, <1>6 DEF EntryOK, Entry, FormOK
<1>8. PointersIn(e, Len(bindlist))
  BY <1>2, <1>5 DEF PointersIn
<1>9. BoundBy(e) = Len(vs) /\ BoundBy(Top) = Len(vs)
  BY <1>2, <1>4, <1>5 DEF BoundBy, vs
<1>10. Goes(e, bindlist)
  <2>1. BoundBy(e) = BoundBy(Top) /\ e.names = Top.names /\ e.vars = Top.vars
    BY <1>5, <1>9 DEF vs
  <2>2. Grown(Top, bindlist)
    BY ONLY <1>2 DEF Goes
  <2>3. Grown(e, bindlist)
    BY ONLY <2>1, <2>2 DEF Grown
  <2>4. QED
    BY ONLY <1>6, <2>3 DEF Goes
<1>11. looks' = 0 /\ InCall => Unlooked(e)
  BY <1>1, <1>2, <1>5, <1>6 DEF Unlooked
<1>12. Shows(stack, Len(stack), e)
  BY <1>6 DEF Shows
<1>13. InPlace(e, value, bindlist, mspeclist)
  BY <1>6 DEF InPlace
<1>14. looks' \in 0..2 /\ looks <= looks'
  BY <1>1 DEF DInv
<1>15. QED
  BY <1>1, <1>2, <1>5, <1>7, <1>8, <1>10, <1>11, <1>12, <1>13, <1>14, ReplaceInv

(* A break loop changes its phase to one that needs no more of the entry.    *)
LEMMA PhaseInv ==
  ASSUME DInv, TopIs(FALSE, "prompt"), UNCHANGED <<bvars, looks>>,
         NEW next \in {"frame", "resume", "top", "quit", "unwind"}, NEW n \in Nat,
         stack' = Replaced([Top EXCEPT !.phase = "restore", !.next = next, !.frame = n])
  PROVE  DInv'
<1> DEFINE e == [Top EXCEPT !.phase = "restore", !.next = next, !.frame = n]
<1>1. /\ stack # <<>> /\ Top = stack[Len(stack)] /\ ~IsForm(Top) /\ Top.phase = "prompt"
      /\ EntryOK(Top) /\ PointersIn(Top, Len(bindlist)) /\ Goes(Top, bindlist)
      /\ looks = 0 /\ InCall => Unlooked(Top)
      /\ InPlace(Top, value, bindlist, mspeclist)
  BY TopIsTop
<1>2. Top \in LevelEntry /\ LevelOK(Top)
  BY <1>1, LevelFields
<1>3. /\ e \in LevelEntry /\ e.phase = "restore" /\ e.diffvars = Top.diffvars
      /\ e.diffvals = Top.diffvals /\ e.had = Top.had /\ e.names = Top.names /\ e.kind = Top.kind
  BY <1>2 DEF LevelEntry
<1>4. ~IsForm(e)
  BY <1>1, <1>3 DEF IsForm
<1>5. stack' = Replaced(e) /\ looks' = looks /\ UNCHANGED bvars
  OBVIOUS
<1> HIDE DEF e
<1>6. EntryOK(e)
  BY <1>2, <1>3, <1>4 DEF EntryOK, Entry, LevelOK
<1>7. PointersIn(e, Len(bindlist)) /\ Shows(stack, Len(stack), e)
  BY <1>3, <1>4 DEF PointersIn, Shows
<1>8. Goes(e, bindlist)
  BY <1>1, <1>3, <1>4 DEF Goes, Shrunk
<1>9. looks' = 0 /\ InCall => Unlooked(e)
  BY <1>1, <1>3, <1>4, <1>5 DEF Unlooked
<1>10. InPlace(e, value, bindlist, mspeclist)
  BY <1>1, <1>3, <1>4 DEF InPlace
<1>11. looks' \in 0..2 /\ looks <= looks'
  BY <1>5 DEF DInv
<1>12. QED
  BY <1>1, <1>3, <1>5, <1>6, <1>7, <1>8, <1>9, <1>10, <1>11, ReplaceInv

LEMMA CommandInv ==
  ASSUME DInv, NEW next \in {"frame", "resume", "top", "quit"}, NEW n \in Nat, Command(next, n)
  PROVE  DInv'
<1>1. /\ TopIs(FALSE, "prompt") /\ UNCHANGED <<bvars, looks>>
      /\ stack' = Replaced([Top EXCEPT !.phase = "restore", !.next = next, !.frame = n])
  BY DEF Command, AtPrompt
<1>2. QED
  BY <1>1, PhaseInv

LEMMA UnwindLevelInv ==
  ASSUME DInv, UnwindLevel
  PROVE  DInv'
<1>1. /\ TopIs(FALSE, "prompt") /\ UNCHANGED <<bvars, looks>>
      /\ stack' = Replaced([Top EXCEPT !.phase = "restore", !.next = "unwind"])
  BY DEF UnwindLevel
<1>2. EntryOK(Top) /\ ~IsForm(Top)
  BY <1>1, TopIsTop
<1>3. Top \in LevelEntry /\ Top.frame \in Nat
  BY <1>2, LevelFields
<1>4. [Top EXCEPT !.phase = "restore", !.next = "unwind"]
        = [Top EXCEPT !.phase = "restore", !.next = "unwind", !.frame = Top.frame]
  BY <1>3 DEF LevelEntry
<1>5. QED
  BY <1>1, <1>3, <1>4, PhaseInv

LEMMA RemoveDoneInv ==
  ASSUME DInv, RemoveDone
  PROVE  DInv'
<1> DEFINE e == [Top EXCEPT !.phase = "prompt"]
<1>1. /\ TopIs(FALSE, "remove") /\ UNCHANGED bvars /\ looks' = looks /\ stack' = Replaced(e)
      /\ bindlist = <<>> \/ Top.target = Len(bindlist)
  BY DEF RemoveDone
<1>2. /\ stack # <<>> /\ Top = stack[Len(stack)] /\ ~IsForm(Top) /\ Top.phase = "remove"
      /\ EntryOK(Top) /\ PointersIn(Top, Len(bindlist)) /\ Goes(Top, bindlist)
      /\ looks = 0 /\ InCall => Unlooked(Top)
      /\ looks = 1 => Shows(stack, Len(stack), Top)
  BY <1>1, TopIsTop
<1>3. /\ Top \in LevelEntry /\ LevelOK(Top) /\ Top.target \in Pointer
      /\ Len(Top.names) \in Nat /\ Len(Top.diffvars) \in Nat /\ Len(Top.had) \in Nat
  BY <1>2, LevelFields
<1>4. /\ e \in LevelEntry /\ e.phase = "prompt" /\ e.diffvars = Top.diffvars /\ e.frame = Top.frame
      /\ e.diffvals = Top.diffvals /\ e.had = Top.had /\ e.names = Top.names /\ e.kind = Top.kind
  BY <1>3 DEF LevelEntry
<1>5. ~IsForm(e)
  BY <1>2, <1>4 DEF IsForm
<1> HIDE DEF e
<1>6. Len(Top.diffvars) = Len(Top.had)
  <2>1. Len(Top.names) = Len(bindlist) + Len(Top.diffvars) /\ Len(Top.diffvars) <= Len(Top.had)
        /\ Len(Top.had) <= Len(Top.names) /\ Len(bindlist) \in Nat
    BY <1>2, <1>3, LenProperties DEF Goes, Shrunk, LevelOK, DInv, BindTypeOK
  <2>2. \/ Top.target = Stale /\ Len(Top.had) = Len(Top.names)
        \/ Top.target \in Nat /\ Top.target + Len(Top.had) = Len(Top.names)
    BY <1>2, <1>3 DEF LevelOK, Pointer
  <2>3. Len(bindlist) = 0 \/ Top.target = Len(bindlist)
    BY <1>1, EmptySeq
  <2>4. Top.target = Len(bindlist) => Top.target \in Nat
    BY <2>1
  <2>5. Stale \notin Nat
    BY DebuggerAssumption
  <2>6. QED
    BY <1>3, <2>1, <2>2, <2>3, <2>4, <2>5, AllOff
<1>7. EntryOK(e)
  BY <1>3, <1>4, <1>5, <1>6 DEF EntryOK, Entry, LevelOK
<1>8. PointersIn(e, Len(bindlist))
  BY <1>5 DEF PointersIn
<1>9. Goes(e, bindlist)
  BY <1>2, <1>4, <1>5 DEF Goes, Shrunk
<1>10. looks' = 0 /\ InCall => Unlooked(e)
  BY <1>1, <1>2, <1>4, <1>5 DEF Unlooked
<1>11. looks' = 1 => Shows(stack, Len(stack), e)
  BY <1>1, <1>2, <1>4, <1>5 DEF Shows
<1>12. InPlace(e, value, bindlist, mspeclist)
  BY <1>4, <1>6, <1>7, SettledInPlace
<1>13. looks' \in 0..2 /\ looks <= looks'
  BY <1>1 DEF DInv
<1>14. QED
  BY <1>1, <1>2, <1>4, <1>7, <1>8, <1>9, <1>10, <1>11, <1>12, <1>13, ReplaceInv

(* frame-info finds a tail of bindlist, or one that is Stale; and as long as   *)
(* no outer frame has been selected, the one the call of the next frame found. *)
LEMMA BdlistOfFacts ==
  ASSUME DInv, NEW n \in Nat
  PROVE  /\ BdlistOf(n) \in Pointer
         /\ BdlistOf(n) # Stale => BdlistOf(n) <= Len(bindlist)
         /\ n >= Cardinality(Calls) => BdlistOf(n) = 0
         /\ n = 0 /\ n < Cardinality(Calls) => BdlistOf(n) = Len(bindlist)
         /\ looks = 0 /\ 0 < n /\ n < Cardinality(Calls) =>
              BdlistOf(n) = Len(stack[FromAbove(Calls, n)].names)
         /\ Calls = CallsIn(stack) /\ Cardinality(Calls) \in Nat
<1>1. /\ StackOK(stack, bindlist) /\ stack \in Seq(Entry) /\ Len(stack) \in Nat
      /\ DOMAIN stack = 1..Len(stack) /\ Len(bindlist) \in Nat
  BY LenProperties DEF DInv, StackOK, BindTypeOK
<1>2. Calls = CallsIn(stack) /\ Calls \subseteq 1..Len(stack)
  BY <1>1 DEF Calls, Positions, CallsIn
<1>3. Cardinality(Calls) \in Nat
  <2>1. IsFiniteSet(1..Len(stack)) /\ Calls \in SUBSET (1..Len(stack))
    BY <1>1, <1>2, FS_Interval
  <2>2. IsFiniteSet(Calls)
    BY ONLY <2>1, FS_Subset
  <2>3. QED
    BY <2>2, FS_CardinalityType
<1>4. CASE n >= Cardinality(Calls)
  BY <1>1, <1>2, <1>3, <1>4 DEF BdlistOf, Pointer
<1>5. CASE n < Cardinality(Calls) /\ n = 0
  <2>1. BdlistOf(n) = Len(bindlist)
    BY <1>3, <1>5 DEF BdlistOf
  <2>2. QED
    BY <1>1, <1>2, <1>3, <1>5, <2>1 DEF Pointer
<1>6. CASE n < Cardinality(Calls) /\ n # 0
  <2> DEFINE c == FromAbove(Calls, n)
             e == stack[c]
  <2>1. c \in Calls
    <3>1. n \in 1..Cardinality(Calls)
      BY <1>3, <1>6
    <3>2. QED
      BY <1>1, <1>2, <3>1, FromAboveIn
  <2>2. BdlistOf(n) = e.below
    BY <1>3, <1>6 DEF BdlistOf
  <2>3. c \in 1..Len(stack) /\ e.kind = "call" /\ IsForm(e)
    BY <1>2, <2>1 DEF CallsIn, IsForm
  <2>4. EntryOK(e) /\ PointersIn(e, Len(bindlist))
    BY <1>1, <2>3 DEF StackOK
  <2>5. e.below \in Pointer /\ (e.below # Stale => e.below <= Len(bindlist))
    BY <2>3, <2>4, FormFields DEF PointersIn
  <2>6. looks = 0 => e.below = Len(e.names)
    <3>1. CallsUnder(stack, c + 1) # {}
      BY <1>1, <2>3 DEF CallsUnder
    <3>2. QED
      BY <2>3, <3>1 DEF DInv, UnlookedOK, Unlooked
  <2>7. ~(n >= Cardinality(Calls)) /\ n # 0
    BY <1>3, <1>6
  <2> HIDE DEF e
  <2>8. QED
    BY <1>2, <1>3, <2>2, <2>5, <2>6, <2>7 DEF e
<1>7. QED
  BY <1>3, <1>4, <1>5, <1>6

(* What ShowFrame notes down as to be taken off. *)
LEMMA BeyondFacts ==
  ASSUME BindTypeOK, NEW p \in Pointer, p # Stale => p <= Len(bindlist)
  PROVE  /\ Beyond(p) \in Seq(Var \X Saved)
         /\ Len(Beyond(p)) = Len(bindlist) - (IF p = Stale THEN 0 ELSE p)
         /\ \A j \in 1..Len(Beyond(p)) :
              LET k == Len(bindlist) - Len(Beyond(p)) + j
              IN  Beyond(p)[j] = <<bindlist[k], ScopeValue(value, bindlist, mspeclist, bindlist[k], k)>>
<1> DEFINE n == IF p = Stale THEN 0 ELSE p
           b == Beyond(p)
           len == Len(bindlist) - n
<1>1. Len(bindlist) \in Nat /\ bindlist \in Seq(Var) /\ mspeclist \in Seq(Saved)
      /\ Len(mspeclist) = Len(bindlist) /\ value \in [Var -> Saved]
  BY LenProperties DEF BindTypeOK
<1>2. n \in Nat /\ n <= Len(bindlist) /\ len \in Nat
  BY <1>1 DEF Pointer
<1>3. b = [i \in 1..len |-> <<bindlist[n + i], ScopeValue(value, bindlist, mspeclist, bindlist[n + i], n + i)>>]
  BY DEF Beyond, ValueAt
<1> HIDE DEF b, n
<1>4. ASSUME NEW i \in 1..len
      PROVE  <<bindlist[n + i], ScopeValue(value, bindlist, mspeclist, bindlist[n + i], n + i)>> \in Var \X Saved
  <2>1. n + i \in 1..Len(bindlist) /\ n + i \in Nat
    BY <1>1, <1>2
  <2>2. PICK w \in Var : w = bindlist[n + i]
    BY <1>1, <2>1, ElementOfSeq
  <2>3. PICK k \in Nat : k = n + i
    BY <2>1
  <2>4. ScopeValue(value, bindlist, mspeclist, w, k) \in Saved
    BY ONLY <1>1, ScopeValueType
  <2>5. QED
    BY <2>2, <2>3, <2>4
<1>5. b \in [1..len -> Var \X Saved] /\ DOMAIN b = 1..len
  BY <1>3, <1>4
<1>6. b \in Seq(Var \X Saved)
  BY <1>2, <1>5, SeqDef
<1>7. Len(b) = len
  <2>1. DOMAIN b = 1..Len(b) /\ Len(b) \in Nat
    BY <1>6, LenProperties
  <2>2. QED
    BY <1>2, <1>5, <2>1
<1>8. ASSUME NEW j \in 1..Len(b)
      PROVE  LET k == Len(bindlist) - Len(b) + j
             IN  b[j] = <<bindlist[k], ScopeValue(value, bindlist, mspeclist, bindlist[k], k)>>
  <2>1. Len(bindlist) - Len(b) + j = n + j
    BY <1>1, <1>2, <1>7
  <2>2. b[j] = <<bindlist[n + j], ScopeValue(value, bindlist, mspeclist, bindlist[n + j], n + j)>>
    BY <1>3, <1>7
  <2>3. QED
    BY <2>1, <2>2
<1>9. QED
  BY <1>6, <1>7, <1>8 DEF b, n

(* With nothing taken off, bindlist is what it was when the loop was entered. *)
LEMMA NothingOff ==
  ASSUME NEW e, EntryOK(e), ~IsForm(e), NEW bl \in Seq(Var), Goes(e, bl), e.diffvars = <<>>
  PROVE  bl = e.names
<1>1. e.names \in Seq(Var) /\ Len(e.diffvars) = 0 /\ Len(bl) \in Nat
  BY LevelFields, EmptySeq, LenProperties
<1>2. Len(e.names) = Len(bl) /\ \A i \in 1..Len(bl) : e.names[i] = bl[i]
  BY <1>1 DEF Goes, Shrunk
<1>3. QED
  BY <1>1, <1>2, SeqEqual

LEMMA LooksNext ==
  ASSUME NEW l \in 0..2
  PROVE  Min({l + 1, 2}) \in 1..2 /\ l <= Min({l + 1, 2})
         /\ (Min({l + 1, 2}) = 1 => l = 0)
<1>1. PICK m \in {l + 1, 2} : \A y \in {l + 1, 2} : m <= y
  OBVIOUS
<1>2. \A a \in {l + 1, 2} : (\A y \in {l + 1, 2} : a <= y) => a = m
  BY <1>1
<1>3. Min({l + 1, 2}) = m
  BY <1>1, <1>2 DEF Min
<1>4. QED
  BY <1>1, <1>3

LEMMA WhatIsBeyond ==
  ASSUME NEW len \in Nat, NEW p, p # Stale => p \in Nat /\ p <= len,
         NEW l, l = len - (IF p = Stale THEN 0 ELSE p)
  PROVE  /\ l \in Nat /\ l <= len
         /\ (p = Stale /\ l = len) \/ (p # Stale /\ p + l = len)
<1>1. CASE p = Stale
  BY <1>1
<1>2. CASE p # Stale
  BY <1>2
<1>3. QED
  BY <1>1, <1>2

LEMMA ShowFrameInv ==
  ASSUME DInv, ShowFrame
  PROVE  DInv'
<1> DEFINE p == BdlistOf(Top.frame)
           b == Beyond(p)
           e == [Top EXCEPT !.phase = "remove", !.target = p, !.had = b]
           n == Cardinality(Calls)
<1>1. /\ TopIs(FALSE, "restore") /\ Top.diffvars = <<>> /\ UNCHANGED bvars
      /\ stack' = Replaced(e)
      /\ looks' = IF Top.frame > 0 THEN Min({looks + 1, 2}) ELSE looks
  BY DEF ShowFrame, Restored
<1>2. /\ stack # <<>> /\ Top = stack[Len(stack)] /\ ~IsForm(Top) /\ Top.phase = "restore"
      /\ EntryOK(Top) /\ PointersIn(Top, Len(bindlist)) /\ Goes(Top, bindlist)
  BY <1>1, TopIsTop
<1>3. /\ Top \in LevelEntry /\ LevelOK(Top) /\ Top.frame \in Nat
      /\ Len(Top.diffvals) = 0 /\ Len(Top.diffvars) = 0
  BY <1>1, <1>2, LevelFields, EmptySeq DEF LevelOK
<1>4. bindlist = Top.names /\ bindlist \in Seq(Var) /\ Len(bindlist) \in Nat /\ BindTypeOK
  BY <1>1, <1>2, NothingOff, LenProperties DEF DInv, BindTypeOK
<1>5. /\ p \in Pointer
      /\ p # Stale => p <= Len(bindlist)
      /\ Top.frame >= n => p = 0
      /\ Top.frame = 0 /\ Top.frame < n => p = Len(bindlist)
      /\ looks = 0 /\ 0 < Top.frame /\ Top.frame < n => p = Len(stack[FromAbove(Calls, Top.frame)].names)
      /\ Calls = CallsIn(stack) /\ n \in Nat
  BY <1>3, BdlistOfFacts
<1> HIDE DEF p, n
<1>a. p \in Pointer /\ (p # Stale => p <= Len(bindlist))
  BY <1>5
<1>6. /\ b \in Seq(Var \X Saved)
      /\ Len(b) = Len(bindlist) - (IF p = Stale THEN 0 ELSE p)
      /\ \A j \in 1..Len(b) :
           LET k == Len(bindlist) - Len(b) + j
           IN  b[j] = <<bindlist[k], ScopeValue(value, bindlist, mspeclist, bindlist[k], k)>>
  BY ONLY <1>4, <1>a, BeyondFacts
<1> HIDE DEF b
<1>b. b \in Seq(Var \X Saved)
  BY <1>6
<1>7. /\ e \in LevelEntry /\ e.phase = "remove" /\ e.diffvars = Top.diffvars /\ e.target = p
      /\ e.diffvals = Top.diffvals /\ e.had = b /\ e.names = Top.names /\ e.kind = Top.kind
      /\ e.frame = Top.frame
  BY <1>3, <1>a, <1>b DEF LevelEntry
<1>8. ~IsForm(e)
  BY <1>2, <1>7 DEF IsForm
<1> HIDE DEF e
<1>9. EntryOK(e)
  <2>1. Len(b) \in Nat /\ Len(b) <= Len(bindlist)
        /\ (\/ p = Stale /\ Len(b) = Len(bindlist)
            \/ p # Stale /\ p + Len(b) = Len(bindlist))
    <3>1. Len(b) = Len(bindlist) - (IF p = Stale THEN 0 ELSE p)
      BY <1>6
    <3>2. Len(bindlist) \in Nat /\ (p # Stale => p \in Nat)
      BY <1>4, <1>a DEF Pointer
    <3>3. QED
      BY <1>a, <3>1, <3>2, WhatIsBeyond
  <2>2. LevelOK(e)
    <3>1. /\ Len(e.diffvals) = 0 /\ Len(e.diffvars) = 0 /\ e.phase = "remove" /\ e.target = p
          /\ Len(e.had) = Len(b) /\ Len(e.names) = Len(bindlist)
      BY <1>3, <1>4, <1>7
    <3>2. QED
      BY ONLY <2>1, <3>1 DEF LevelOK
  <2>3. QED
    BY <1>7, <1>8, <2>2 DEF EntryOK, Entry
<1>10. PointersIn(e, Len(bindlist))
  BY <1>8 DEF PointersIn
<1>11. Goes(e, bindlist)
  BY <1>2, <1>7, <1>8 DEF Goes, Shrunk
<1>12. CallsUnder(stack, Len(stack)) = Calls
  <2>1. Len(stack) \in Nat /\ Len(stack) > 0
    BY <1>2, TopFacts DEF DInv
  <2>2. \A j \in 1..Len(stack) : stack[j].kind = "call" => j \in 1..(Len(stack) - 1)
    BY <1>2, <2>1 DEF IsForm
  <2>3. \A j \in 1..(Len(stack) - 1) : j \in 1..Len(stack)
    BY <2>1
  <2>4. QED
    BY <1>5, <2>2, <2>3 DEF CallsUnder, CallsIn
<1>13. looks \in 0..2
  BY DEF DInv
<1>14. looks' \in 0..2 /\ looks <= looks' /\ (looks' = 0 => looks = 0 /\ Top.frame = 0)
       /\ (looks' = 1 /\ Top.frame > 0 => looks = 0)
  <2>1. CASE Top.frame > 0
    <3>1. looks' = Min({looks + 1, 2})
      BY <1>1, <2>1
    <3>2. looks' \in 1..2 /\ looks <= looks' /\ (looks' = 1 => looks = 0)
      BY <1>13, <3>1, LooksNext
    <3>3. QED
      BY <3>2
  <2>2. CASE Top.frame = 0
    <3>1. looks' = looks
      BY <1>1, <2>2
    <3>2. QED
      BY <1>13, <2>2, <3>1
  <2>3. QED
    BY <1>3, <2>1, <2>2
<1>15. ASSUME looks' = 0, InCall PROVE Unlooked(e)
  <2>1. p = Len(bindlist)
    <3>1. n # 0
      <4>1. IsFiniteSet(1..Len(stack)) /\ Calls \in SUBSET (1..Len(stack))
        BY <1>2, <1>5, TopFacts, FS_Interval DEF CallsIn, DInv
      <4>2. IsFiniteSet(Calls)
        BY ONLY <4>1, FS_Subset
      <4>3. QED
        BY <1>5, <1>15, <4>2, FS_EmptySet DEF n, InCall
    <3>2. Top.frame < n
      BY <1>5, <1>14, <1>15, <3>1
    <3>3. QED
      BY <1>5, <1>14, <1>15, <3>2
  <2>2. Len(b) = 0
    BY <1>4, <1>6, <2>1, DebuggerAssumption
  <2>3. b = <<>>
    BY <1>6, <2>2, EmptySeq
  <2>4. QED
    BY <1>1, <1>4, <1>7, <1>8, <1>14, <1>15, <2>1, <2>3 DEF Unlooked
<1>16. ASSUME looks' = 1 PROVE Shows(stack, Len(stack), e)
  <2>1. CASE 0 < Top.frame /\ Top.frame < n
    <3> DEFINE l == Len(stack[FromAbove(Calls, Top.frame)].names)
    <3>1. looks = 0
      BY <1>14, <1>16, <2>1
    <3>2. p = l
      BY <1>5, <2>1, <3>1
    <3> HIDE DEF l
    <3>3. p \in Nat /\ p # Stale
      <4>1. p # Stale
        <5>1. FromAbove(Calls, Top.frame) \in Calls
          <6>1. Top.frame \in 1..Cardinality(Calls)
            BY <1>3, <1>5, <2>1 DEF n
          <6>2. Len(stack) \in Nat /\ Calls \subseteq 1..Len(stack)
            BY <1>2, <1>5, TopFacts DEF DInv, CallsIn
          <6>3. QED
            BY <6>1, <6>2, FromAboveIn
        <5>2. EntryOK(stack[FromAbove(Calls, Top.frame)])
          BY <1>5, <5>1 DEF CallsIn, DInv, StackOK
        <5>3. l \in Nat
          BY <5>2, FormFields, LevelFields DEF l
        <5>4. QED
          BY <3>2, <5>3, DebuggerAssumption
      <4>2. QED
        BY <1>a, <4>1 DEF Pointer
    <3>4. Len(bindlist) = Len(b) + l
      BY <1>4, <1>5, <1>6, <3>2, <3>3
    <3>5. Len(e.names) = Len(e.had) + l
      BY <1>4, <1>7, <3>4
    <3>6. QED
      BY <1>7, <1>12, <3>5 DEF Shows, l
  <2>2. CASE ~(0 < Top.frame /\ Top.frame < n)
    BY <1>7, <1>12, <2>2 DEF Shows, n
  <2>3. QED
    BY <2>1, <2>2
<1>17. InPlace(e, value, bindlist, mspeclist)
  <2>1. Len(e.had) - Len(e.diffvars) = Len(b) /\ Len(b) \in Nat
    BY <1>3, <1>6, <1>7, LenProperties
  <2>2. QED
    BY <1>4, <1>6, <1>7, <2>1 DEF InPlace
<1>18. QED
  BY <1>1, <1>2, <1>7, <1>9, <1>10, <1>11, <1>14, <1>15, <1>16, <1>17, ReplaceInv

LEMMA LeaveLevelInv ==
  ASSUME DInv, LeaveLevel
  PROVE  DInv'
<1> DEFINE m == Len(stack) - 1
<1>1. /\ TopIs(FALSE, "restore") /\ Top.diffvars = <<>> /\ UNCHANGED bvars /\ looks' = looks
      /\ stack' = Front(stack)
  BY DEF LeaveLevel, Restored
<1>2. /\ stack # <<>> /\ Top = stack[Len(stack)] /\ ~IsForm(Top)
      /\ EntryOK(Top) /\ Goes(Top, bindlist)
  BY <1>1, TopIsTop
<1>3. bindlist \in Seq(Var) /\ StackOK(stack, bindlist) /\ looks \in 0..2
  BY DEF DInv, BindTypeOK
<1>4. bindlist = stack[Len(stack)].names
  BY <1>1, <1>2, <1>3, NothingOff
<1>5. Drops(stack, stack, Len(bindlist))
  BY <1>3, DropsNothing, LenProperties
<1>6. Keeps(stack, bindlist, Front(stack), bindlist, Len(stack) - 1) /\ Len(Front(stack)) = Len(stack) - 1
  BY ONLY <1>2, <1>3, <1>4, <1>5, PopKeeps
<1>7. /\ BindTypeOK' /\ ValuesListExact' /\ BoundHaveValues(value', bindlist', mspeclist')
      /\ value' = value /\ bindlist' = bindlist /\ mspeclist' = mspeclist
  BY <1>1, SameBindings DEF DInv
<1>8. Keeps(stack, bindlist, stack', bindlist', m) /\ Len(stack') = m /\ m \in Nat
  BY <1>1, <1>6, <1>7 DEF Keeps
<1> HIDE DEF m
<1>9. Len(stack') # m + 1
  BY <1>8
<1>10. NewTop(stack', bindlist', m) /\ looks' \in 0..2 /\ looks <= looks'
  BY <1>1, <1>3, <1>9 DEF NewTop
<1>11. QED
  BY <1>7, <1>8, <1>9, <1>10, StepInv

-----------------------------------------------------------------------------
(***************************************************************************)
(* The actions that bind or unbind a variable.                             *)
(***************************************************************************)

LEMMA ReplaceStepInv ==
  ASSUME DInv, stack # <<>>, BindTypeOK', ValuesListExact',
         BoundHaveValues(value', bindlist', mspeclist'), looks' = looks,
         NEW rest, Drops(stack, rest, Len(bindlist')),
         NEW e, stack' = Append(Front(rest), e), EntryOK(e), PointersIn(e, Len(bindlist')),
         Goes(e, bindlist'), e.names = stack[Len(stack)].names, e.kind = stack[Len(stack)].kind,
         looks = 0 /\ InCall => Unlooked(e),
         looks = 1 => Shows(stack, Len(stack), e),
         InPlace(e, value', bindlist', mspeclist')
  PROVE  DInv'
<1> DEFINE m == Len(stack) - 1
           s == Append(Front(rest), e)
           bl2 == bindlist'
<1>1. /\ bindlist \in Seq(Var) /\ StackOK(stack, bindlist) /\ e \in Entry
      /\ bl2 \in Seq(Var) /\ looks \in 0..2
  BY DEF DInv, BindTypeOK, EntryOK
<1>2. Len(stack) \in Nat /\ m + 1 = Len(stack)
  BY <1>1, TopFacts
<1>3. /\ stack # <<>> /\ Drops(stack, rest, Len(bl2)) /\ e.names = stack[Len(stack)].names
  OBVIOUS
<1>4. stack' = s
  OBVIOUS
<1> HIDE DEF bl2
<1>5. /\ Keeps(stack, bindlist, s, bl2, Len(stack) - 1)
      /\ Len(s) = Len(stack) /\ s[Len(stack)] = e /\ s # <<>>
  BY ONLY <1>1, <1>3, ReplaceKeeps
<1> HIDE DEF s
<1>6. /\ Keeps(stack, bindlist, stack', bl2, m)
      /\ Len(stack') = m + 1 /\ stack'[m + 1] = e /\ stack' # <<>>
  BY <1>2, <1>4, <1>5
<1>7. NewTop(stack', bl2, m)
  BY <1>6 DEF NewTop, bl2
<1>8. looks' = 1 => Shows(stack', m + 1, e)
  <2> SUFFICES ASSUME looks' = 1 PROVE Shows(stack', m + 1, e)
    OBVIOUS
  <2>1. Shows(stack, m + 1, e) /\ EntryOK(e)
    BY <1>2
  <2>2. QED
    BY ONLY <1>1, <1>6, <2>1, ShowsKept
<1>9. looks' \in 0..2 /\ looks <= looks'
  BY <1>1
<1>a. CallsUnder(stack', m + 2) # {} => InCall
  <2> SUFFICES ASSUME CallsUnder(stack', m + 2) # {} PROVE CallsIn(stack) # {}
    BY DEF InCall
  <2>1. stack'[m + 1].kind = stack[m + 1].kind /\ Len(stack) = m + 1
    BY <1>2, <1>6
  <2>2. QED
    BY <1>1, <1>6, <2>1, SameCalls
<1> HIDE DEF m
<1>10. Keeps(stack, bindlist, stack', bindlist', m) /\ NewTop(stack', bindlist', m)
  BY <1>6, <1>7 DEF bl2
<1>11. QED
  BY <1>6, <1>8, <1>9, <1>10, <1>a, StepInv

LEMMA BindStepInv ==
  ASSUME DInv, stack # <<>>, NEW v \in Var, NEW x \in Val, MbindOne(v, x), looks' = looks,
         NEW e, stack' = Replaced(e), EntryOK(e), PointersIn(e, Len(bindlist')),
         Goes(e, bindlist'), e.names = stack[Len(stack)].names, e.kind = stack[Len(stack)].kind,
         looks = 0 /\ InCall => Unlooked(e),
         looks = 1 => Shows(stack, Len(stack), e),
         InPlace(e, value', bindlist', mspeclist')
  PROVE  DInv'
<1>1. /\ BindTypeOK' /\ ValuesListExact' /\ BoundHaveValues(value', bindlist', mspeclist')
      /\ Len(bindlist') = Len(bindlist) + 1
  BY MbindBindings DEF DInv
<1>2. StackOK(stack, bindlist) /\ bindlist \in Seq(Var) /\ bindlist' \in Seq(Var)
  BY <1>1 DEF DInv, BindTypeOK
<1>3. Len(bindlist) <= Len(bindlist')
  BY <1>1, <1>2, LenProperties
<1>4. Drops(stack, stack, Len(bindlist'))
  <2> DEFINE bl2 == bindlist'
  <2>1. bl2 \in Seq(Var) /\ Len(bindlist) <= Len(bl2)
    BY <1>2, <1>3
  <2> HIDE DEF bl2
  <2>2. Drops(stack, stack, Len(bl2))
    BY ONLY <1>2, <2>1, DropsNothing
  <2>3. QED
    BY <2>2 DEF bl2
<1>5. QED
  BY <1>1, <1>4, ReplaceStepInv DEF Replaced

LEMMA UnbindDrops ==
  ASSUME DInv, MunbindLast
  PROVE  /\ BindTypeOK' /\ ValuesListExact' /\ BoundHaveValues(value', bindlist', mspeclist')
         /\ Drops(stack, Dropped(Len(bindlist)), Len(bindlist'))
<1>1. /\ BindTypeOK' /\ ValuesListExact' /\ BoundHaveValues(value', bindlist', mspeclist')
      /\ Len(bindlist) = Len(bindlist') + 1 /\ Len(bindlist') \in Nat
  BY MunbindBindings DEF DInv
<1>2. Len(bindlist) \in Nat /\ Len(bindlist) > 0 /\ Len(bindlist) - 1 = Len(bindlist')
  BY <1>1
<1>3. StackOK(stack, bindlist)
  BY DEF DInv
<1>4. Drops(stack, Dropped(Len(bindlist)), Len(bindlist) - 1)
  BY <1>2, <1>3, DroppedDrops
<1>5. QED
  BY <1>1, <1>2, <1>4

(* mbind of the next parameter. *)
LEMMA MbindInv ==
  ASSUME DInv, NEW x \in Val, Mbind(x)
  PROVE  DInv' /\ [BindNext]_bvars
<1> DEFINE n == Len(Top.todo)
           v == Head(Top.todo)
           e == IF n = 1
                THEN [Top EXCEPT !.phase = "body", !.todo = <<>>, !.inside = Len(bindlist) + 1]
                ELSE [Top EXCEPT !.todo = Tail(@)]
<1>1. TopIs(TRUE, "bind") /\ MbindOne(v, x) /\ stack' = Replaced(e) /\ looks' = looks
  BY DEF Mbind
<1>2. /\ stack # <<>> /\ Top = stack[Len(stack)] /\ IsForm(Top) /\ Top.phase = "bind"
      /\ EntryOK(Top) /\ PointersIn(Top, Len(bindlist)) /\ Goes(Top, bindlist)
      /\ looks = 0 /\ InCall => Unlooked(Top)
  BY <1>1, TopIsTop
<1>3. /\ Top \in FormEntry /\ FormOK(Top) /\ Top.vars \in Seq(Var) /\ Top.todo \in Seq(Var)
      /\ n \in Nat /\ Len(Top.vars) \in Nat /\ Len(Top.names) \in Nat /\ Top.below \in Pointer
  BY <1>2, FormFields
<1>4. Top.todo # <<>> /\ n <= Len(Top.vars) /\ n > 0
      /\ \A i \in 1..n : Top.todo[i] = Top.vars[Len(Top.vars) - n + i]
  <2>1. Top.todo # <<>> /\ n <= Len(Top.vars)
        /\ \A i \in 1..n : Top.todo[i] = Top.vars[Len(Top.vars) - n + i]
    BY <1>2, <1>3 DEF FormOK
  <2>2. n # 0
    BY <1>3, <2>1, EmptySeq
  <2> HIDE DEF n
  <2>3. n > 0
    BY <1>3, <2>2
  <2>4. QED
    BY <2>1, <2>3
<1>5. /\ v = Top.todo[1] /\ v \in Var /\ Tail(Top.todo) \in Seq(Var)
      /\ Len(Tail(Top.todo)) = n - 1
      /\ \A i \in 1..(n - 1) : Tail(Top.todo)[i] = Top.todo[i + 1]
  BY <1>3, <1>4, HeadTailProperties
<1>6. /\ bindlist \in Seq(Var) /\ Len(bindlist) \in Nat
  BY LenProperties DEF DInv, BindTypeOK
<1>7. /\ Len(bindlist') = Len(bindlist) + 1 /\ bindlist'[Len(bindlist) + 1] = v
      /\ \A i \in 1..Len(bindlist) : bindlist'[i] = bindlist[i]
  BY <1>1, <1>5, MbindBindings DEF DInv
<1>8. BindNext
  BY <1>1, <1>5 DEF BindNext
<1> HIDE DEF v
<1>9. /\ e \in FormEntry /\ e.names = Top.names /\ e.vars = Top.vars /\ e.below = Top.below
      /\ e.kind = Top.kind
      /\ n = 1 => e.phase = "body" /\ e.todo = <<>> /\ e.inside = Len(bindlist) + 1
      /\ n # 1 => e.phase = "bind" /\ e.todo = Tail(Top.todo) /\ e.inside = Top.inside
  <2>1. CASE n = 1
    <3>1. Len(bindlist) + 1 \in Pointer /\ <<>> \in Seq(Var)
      BY <1>6, EmptySeq DEF Pointer
    <3>2. QED
      BY <1>3, <2>1, <3>1 DEF FormEntry
  <2>2. CASE n # 1
    <3>1. Tail(Top.todo) \in Seq(Var) /\ e = [Top EXCEPT !.todo = Tail(Top.todo)]
      BY <1>5, <2>2
    <3>2. QED
      BY <1>2, <1>3, <2>2, <3>1 DEF FormEntry
  <2>3. QED
    BY <2>1, <2>2
<1>10. IsForm(e)
  BY <1>2, <1>9 DEF IsForm
<1> HIDE DEF e
<1>a. BoundBy(Top) = Len(Top.vars) - n
  BY <1>2 DEF BoundBy
<1> HIDE DEF n
<1> DEFINE l == Len(Top.vars)
<1>b. l \in Nat /\ n \in Nat /\ n <= l /\ n > 0
  BY <1>3, <1>4
<1> HIDE DEF l
<1>11. EntryOK(e)
  <2>1. CASE n = 1
    BY <1>9, <1>10, <2>1 DEF EntryOK, Entry, FormOK
  <2>2. CASE n # 1
    <3> DEFINE t == Tail(Top.todo)
    <3>1. n - 1 \in Nat /\ n - 1 > 0 /\ n - 1 <= l
      BY <1>b, <2>2
    <3>2. ASSUME NEW i \in 1..(n - 1)
          PROVE  t[i] = Top.vars[l - (n - 1) + i]
      <4>1. i + 1 \in 1..n /\ l - n + (i + 1) = l - (n - 1) + i
        BY <1>b, <3>1
      <4>2. QED
        BY <1>4, <1>5, <4>1 DEF l
    <3>3. t # <<>>
      <4>1. Len(t) # 0
        BY <1>5, <3>1
      <4>2. QED
        BY <4>1, EmptySeq
    <3>4. e.todo = t /\ e.vars = Top.vars /\ Len(t) = n - 1 /\ e.phase = "bind"
      BY <1>5, <1>9, <2>2
    <3> HIDE DEF t
    <3>5. FormOK(e)
      BY <3>1, <3>2, <3>3, <3>4 DEF FormOK, l
    <3>6. QED
      BY <1>9, <1>10, <3>5 DEF EntryOK, Entry
  <2>3. QED
    BY <2>1, <2>2
<1>12. BoundBy(Top) = Len(Top.vars) - n /\ BoundBy(e) = Len(Top.vars) - n + 1
  <2>1. BoundBy(Top) = Len(Top.vars) - n
    BY <1>a
  <2>2. CASE n = 1
    <3>1. BoundBy(e) = l
      BY <1>9, <2>2 DEF BoundBy, l
    <3>2. l = l - n + 1
      BY <1>b, <2>2
    <3>3. QED
      BY <2>1, <3>1, <3>2 DEF l
  <2>3. CASE n # 1
    <3>1. BoundBy(e) = Len(Top.vars) - (n - 1)
      BY <1>5, <1>9, <2>3 DEF BoundBy
    <3>2. l - (n - 1) = l - n + 1
      BY <1>b
    <3>3. QED
      BY <2>1, <3>1, <3>2 DEF l
  <2>4. QED
    BY <2>1, <2>2, <2>3
<1>13. Goes(e, bindlist')
  <2> DEFINE b == l - n
             k == Len(Top.names)
  <2>1. /\ Len(bindlist) = k + b
        /\ \A i \in 1..k : bindlist[i] = Top.names[i]
        /\ \A i \in 1..b : bindlist[k + i] = Top.vars[i]
    BY <1>2, <1>12 DEF Goes, Grown, l
  <2>2. b \in Nat /\ k \in Nat /\ v = Top.vars[b + 1]
    <3>1. b \in Nat /\ 1 \in 1..n
      BY <1>b
    <3>2. Top.todo[1] = Top.vars[b + 1]
      BY <1>4, <3>1 DEF l
    <3>3. QED
      BY <1>3, <1>5, <3>1, <3>2
  <2> HIDE DEF b, k
  <2>3. Len(bindlist') = k + (b + 1)
    BY <1>7, <2>1, <2>2
  <2>4. ASSUME NEW i \in 1..k
        PROVE  bindlist'[i] = Top.names[i]
    <3>1. i \in 1..Len(bindlist)
      BY <2>1, <2>2
    <3>2. QED
      BY <1>7, <2>1, <3>1
  <2>5. ASSUME NEW i \in 1..(b + 1)
        PROVE  bindlist'[k + i] = Top.vars[i]
    <3>1. CASE i = b + 1
      <4>1. k + i = Len(bindlist) + 1
        BY <2>1, <2>2, <3>1
      <4>2. QED
        BY <1>7, <2>2, <3>1, <4>1
    <3>2. CASE i # b + 1
      <4>1. i \in 1..b /\ k + i \in 1..Len(bindlist)
        BY <2>1, <2>2, <3>2
      <4>2. QED
        BY <1>7, <2>1, <4>1
    <3>3. QED
      BY <3>1, <3>2
  <2>6. BoundBy(e) = b + 1 /\ Len(e.names) = k
    BY <1>9, <1>12 DEF b, k, l
  <2>7. Grown(e, bindlist')
    BY <1>9, <2>3, <2>4, <2>5, <2>6 DEF Grown
  <2>8. QED
    BY <1>10, <2>7 DEF Goes
<1>14. PointersIn(e, Len(bindlist')) /\ (looks = 0 /\ InCall => Unlooked(e))
  <2>1. Len(bindlist') = Len(bindlist) + 1 /\ Len(bindlist) \in Nat
    BY <1>6, <1>7
  <2>2. /\ Top.below # Stale => Top.below \in Nat /\ Top.below <= Len(bindlist)
        /\ Top.inside # Stale => Top.inside \in Nat /\ Top.inside <= Len(bindlist)
    BY <1>2, FormFields DEF PointersIn, Pointer
  <2>3. e.below = Top.below /\ (e.inside = Len(bindlist) + 1 \/ e.inside = Top.inside)
    BY <1>9
  <2>4. PointersIn(e, Len(bindlist'))
    <3>1. e.below # Stale => e.below <= Len(bindlist')
      BY ONLY <2>1, <2>2, <2>3
    <3>2. e.inside # Stale => e.inside <= Len(bindlist')
      BY ONLY <2>1, <2>2, <2>3
    <3>3. QED
      BY <3>1, <3>2 DEF PointersIn
  <2>5. ASSUME looks = 0, InCall PROVE Unlooked(e)
    <3>1. e.below = Len(e.names)
      BY <1>2, <1>9, <2>5 DEF Unlooked
    <3>2. CASE n = 1
      <4>1. Len(bindlist) + 1 = Len(e.names) + Len(e.vars)
        <5>1. Len(bindlist) = Len(Top.names) + (l - n)
          BY <1>2, <1>12 DEF Goes, Grown, l
        <5>2. Len(bindlist) + 1 = Len(Top.names) + l
          BY <1>3, <1>b, <3>2, <5>1
        <5>3. QED
          BY <1>9, <5>2 DEF l
      <4>2. QED
        BY <1>9, <1>10, <3>1, <3>2, <4>1 DEF Unlooked
    <3>3. CASE n # 1
      BY <1>9, <1>10, <3>1, <3>3 DEF Unlooked
    <3>4. QED
      BY <3>2, <3>3
  <2>6. QED
    BY <2>4, <2>5
<1>15. Shows(stack, Len(stack), e) /\ InPlace(e, value', bindlist', mspeclist')
  BY <1>10 DEF Shows, InPlace
<1>16. e.names = stack[Len(stack)].names /\ e.kind = stack[Len(stack)].kind
  BY <1>2, <1>9
<1>17. DInv'
  BY <1>1, <1>2, <1>5, <1>11, <1>13, <1>14, <1>15, <1>16, BindStepInv
<1>18. QED
  BY <1>8, <1>17

(* mbind of the next variable of *diff-bindlist*. *)
LEMMA RestoreOneInv ==
  ASSUME DInv, RestoreOne
  PROVE  DInv' /\ [BindNext]_bvars
<1> DEFINE dv == Top.diffvars
           dx == Top.diffvals
           v == Head(dv)
           x == Head(dx)
           e == [Top EXCEPT !.diffvars = Tail(dv), !.diffvals = Tail(dx)]
           k == Len(dv)
           h == Len(Top.had)
           n == Len(Top.names)
           b == Len(bindlist)
<1>1. /\ TopIs(FALSE, "restore") /\ dv # <<>> /\ MbindOne(v, x) /\ stack' = Replaced(e)
      /\ looks' = looks
  BY DEF RestoreOne
<1>2. /\ stack # <<>> /\ Top = stack[Len(stack)] /\ ~IsForm(Top) /\ Top.phase = "restore"
      /\ EntryOK(Top) /\ Goes(Top, bindlist)
      /\ looks = 0 /\ InCall => Unlooked(Top)
      /\ InPlace(Top, value, bindlist, mspeclist)
  BY <1>1, TopIsTop
<1>3. /\ Top \in LevelEntry /\ LevelOK(Top) /\ dv \in Seq(Var) /\ dx \in Seq(Val)
      /\ k \in Nat /\ h \in Nat /\ n \in Nat /\ Len(dx) = k
      /\ k <= h /\ h <= n
      /\ \A j \in 1..k : Top.had[h - k + j] = <<dv[j], dx[j]>>
  BY <1>2, LevelFields DEF LevelOK
<1>4. k # 0 /\ dx # <<>>
  BY <1>1, <1>3, EmptySeq
<1>5. /\ v = dv[1] /\ v \in Var /\ Tail(dv) \in Seq(Var) /\ Len(Tail(dv)) = k - 1
      /\ \A i \in 1..(k - 1) : Tail(dv)[i] = dv[i + 1]
  BY <1>1, <1>3, HeadTailProperties
<1>6. /\ x = dx[1] /\ x \in Val /\ Tail(dx) \in Seq(Val) /\ Len(Tail(dx)) = k - 1
      /\ \A i \in 1..(k - 1) : Tail(dx)[i] = dx[i + 1]
  BY <1>3, <1>4, HeadTailProperties
<1>7. b \in Nat /\ Len(bindlist') \in Nat
  BY <1>1, <1>5, <1>6, LenProperties, MbindBindings DEF DInv, BindTypeOK
<1>8. /\ Len(bindlist') = b + 1 /\ bindlist'[b + 1] = v
      /\ \A i \in 1..b : bindlist'[i] = bindlist[i]
      /\ \A i \in 1..b : ScopeValue(value', bindlist', mspeclist', bindlist[i], i)
                            = ScopeValue(value, bindlist, mspeclist, bindlist[i], i)
      /\ ScopeValue(value', bindlist', mspeclist', v, b + 1) = x
  BY <1>1, <1>5, <1>6, MbindBindings DEF DInv
<1>9. BindNext
  BY <1>1, <1>5, <1>6 DEF BindNext
<1>10. /\ e \in LevelEntry /\ e.phase = "restore" /\ e.diffvars = Tail(dv) /\ e.diffvals = Tail(dx)
       /\ e.had = Top.had /\ e.names = Top.names /\ e.kind = Top.kind
  BY <1>2, <1>3, <1>5, <1>6 DEF LevelEntry
<1>11. ~IsForm(e)
  BY <1>2, <1>10 DEF IsForm
<1> HIDE DEF e, v, x
<1>12. /\ n = b + k
       /\ \A i \in 1..b : Top.names[i] = bindlist[i]
       /\ \A i \in 1..k : Top.names[b + i] = dv[i]
  BY <1>2 DEF Goes, Shrunk
<1>13. \A j \in 1..(h - k) :
         Top.had[j] = <<bindlist[n - h + j],
                        ScopeValue(value, bindlist, mspeclist, bindlist[n - h + j], n - h + j)>>
  BY <1>2 DEF InPlace
<1>14. Len(e.diffvars) = k - 1 /\ Len(e.diffvals) = k - 1 /\ Len(e.had) = h /\ Len(e.names) = n
  BY <1>5, <1>6, <1>10
<1> HIDE DEF k, h, n, b
<1>15. EntryOK(e)
  <2>1. k - 1 \in Nat /\ k - 1 <= h
    BY <1>3, <1>4
  <2>2. ASSUME NEW j \in 1..(k - 1)
        PROVE  e.had[h - (k - 1) + j] = <<e.diffvars[j], e.diffvals[j]>>
    <3>1. j + 1 \in 1..k /\ h - (k - 1) + j = h - k + (j + 1)
      BY <1>3, <1>4
    <3>2. Top.had[h - k + (j + 1)] = <<dv[j + 1], dx[j + 1]>>
      BY <1>3, <3>1
    <3>3. QED
      BY <1>5, <1>6, <1>10, <3>1, <3>2
  <2>3. LevelOK(e)
    BY <1>3, <1>10, <1>14, <2>1, <2>2 DEF LevelOK
  <2>4. QED
    BY <1>10, <1>11, <2>3 DEF EntryOK, Entry
<1>16. Goes(e, bindlist')
  <2>1. n = (b + 1) + (k - 1)
    BY <1>3, <1>7, <1>12
  <2>2. ASSUME NEW i \in 1..(b + 1)
        PROVE  e.names[i] = bindlist'[i]
    <3>1. CASE i = b + 1
      <4>1. 1 \in 1..k
        BY <1>3, <1>4
      <4>2. QED
        BY <1>5, <1>8, <1>10, <1>12, <3>1, <4>1
    <3>2. CASE i # b + 1
      <4>1. i \in 1..b
        BY <1>7, <3>2
      <4>2. QED
        BY <1>8, <1>10, <1>12, <4>1
    <3>3. QED
      BY <3>1, <3>2
  <2>3. ASSUME NEW i \in 1..(k - 1)
        PROVE  e.names[(b + 1) + i] = e.diffvars[i]
    <3>1. i + 1 \in 1..k /\ (b + 1) + i = b + (i + 1)
      BY <1>3, <1>7
    <3>2. QED
      BY <1>5, <1>10, <1>12, <3>1
  <2>4. Shrunk(e, bindlist')
    BY <1>8, <1>14, <2>1, <2>2, <2>3 DEF Shrunk
  <2>5. QED
    BY <1>11, <2>4 DEF Goes
<1>17. InPlace(e, value', bindlist', mspeclist')
  <2>1. ASSUME NEW j \in 1..(h - (k - 1))
        PROVE  e.had[j] = <<bindlist'[n - h + j],
                            ScopeValue(value', bindlist', mspeclist', bindlist'[n - h + j], n - h + j)>>
    <3>1. CASE j = h - k + 1
      <4>1. n - h + j = b + 1 /\ 1 \in 1..k
        BY <1>3, <1>4, <1>7, <1>12, <3>1
      <4>2. Top.had[j] = <<v, x>>
        BY <1>3, <1>5, <1>6, <3>1, <4>1
      <4>3. QED
        BY <1>8, <1>10, <4>1, <4>2
    <3>2. CASE j # h - k + 1
      <4>1. j \in 1..(h - k) /\ n - h + j \in 1..b
        BY <1>3, <1>4, <1>7, <1>12, <3>2
      <4>2. Top.had[j] = <<bindlist[n - h + j],
                           ScopeValue(value, bindlist, mspeclist, bindlist[n - h + j], n - h + j)>>
        BY <1>13, <4>1
      <4>3. QED
        BY <1>8, <1>10, <4>1, <4>2
    <3>3. QED
      BY <3>1, <3>2
  <2>2. QED
    BY <1>14, <2>1 DEF InPlace
<1>18. PointersIn(e, Len(bindlist')) /\ Shows(stack, Len(stack), e)
  BY <1>10, <1>11 DEF PointersIn, Shows
<1>19. looks = 0 /\ InCall => Unlooked(e)
  BY <1>1, <1>2 DEF Unlooked
<1>20. e.names = stack[Len(stack)].names /\ e.kind = stack[Len(stack)].kind
  BY <1>2, <1>10
<1>21. DInv'
  BY <1>1, <1>2, <1>5, <1>6, <1>15, <1>16, <1>17, <1>18, <1>19, <1>20, BindStepInv
<1>22. QED
  BY <1>9, <1>21

(* A pair in front of a list. *)
LEMMA ConsFacts ==
  ASSUME NEW S, NEW a \in S, NEW s \in Seq(S)
  PROVE  /\ <<a>> \o s \in Seq(S) /\ Len(<<a>> \o s) = Len(s) + 1
         /\ (<<a>> \o s)[1] = a
         /\ \A i \in 1..Len(s) : (<<a>> \o s)[i + 1] = s[i]
<1>1. <<a>> \in Seq(S) /\ Len(<<a>>) = 1 /\ <<a>>[1] = a /\ Len(s) \in Nat
  BY LenProperties
<1>2. /\ <<a>> \o s \in Seq(S) /\ Len(<<a>> \o s) = Len(<<a>>) + Len(s)
      /\ \A i \in 1..Len(<<a>>) : (<<a>> \o s)[i] = <<a>>[i]
      /\ \A i \in 1..Len(s) : (<<a>> \o s)[Len(<<a>>) + i] = s[i]
  BY <1>1, ConcatProperties
<1>3. \A i \in 1..Len(s) : i + 1 = 1 + i
  BY <1>1
<1>4. QED
  BY <1>1, <1>2, <1>3

(* As long as the loop of remove-bindings goes on, something is left to take off. *)
LEMMA NotAllOff ==
  ASSUME NEW b \in Nat, NEW k \in Nat, NEW h \in Nat, NEW n \in Nat, NEW p,
         n = b + k, k <= h, h <= n, b > 0, p # b,
         (p = Stale /\ h = n) \/ (p \in Nat /\ p + h = n)
  PROVE  k < h
<1>1. CASE p = Stale /\ h = n
  BY <1>1
<1>2. CASE p \in Nat /\ p + h = n
  BY <1>2
<1>3. QED
  BY <1>1, <1>2

(* One turn of the loop of remove-bindings. *)
LEMMA RemoveOneInv ==
  ASSUME DInv, RemoveOne
  PROVE  DInv' /\ [BindNext]_bvars
<1> DEFINE dv == Top.diffvars
           dx == Top.diffvals
           w == Last(bindlist)
           x == value[w]
           dv2 == <<w>> \o dv
           dx2 == <<x>> \o dx
           rest == Dropped(Len(bindlist))
           e == [Top EXCEPT !.diffvars = dv2, !.diffvals = dx2]
           k == Len(dv)
           h == Len(Top.had)
           n == Len(Top.names)
           b == Len(bindlist)
<1>1. /\ TopIs(FALSE, "remove") /\ bindlist # <<>> /\ Top.target # b /\ MunbindLast
      /\ stack' = Append(Front(rest), e) /\ looks' = looks
  BY DEF RemoveOne, MunbindLast
<1>2. /\ stack # <<>> /\ Top = stack[Len(stack)] /\ ~IsForm(Top) /\ Top.phase = "remove"
      /\ EntryOK(Top) /\ Goes(Top, bindlist)
      /\ looks = 0 /\ InCall => Unlooked(Top)
      /\ looks = 1 => Shows(stack, Len(stack), Top)
      /\ InPlace(Top, value, bindlist, mspeclist)
  BY <1>1, TopIsTop
<1>3. /\ Top \in LevelEntry /\ LevelOK(Top) /\ dv \in Seq(Var) /\ dx \in Seq(Val)
      /\ k \in Nat /\ h \in Nat /\ n \in Nat /\ Len(dx) = k
      /\ k <= h /\ h <= n /\ Top.target \in Pointer
      /\ \A j \in 1..k : Top.had[h - k + j] = <<dv[j], dx[j]>>
  BY <1>2, LevelFields DEF LevelOK
<1>4. /\ b \in Nat /\ b > 0 /\ w = bindlist[b] /\ w \in Var
      /\ ScopeValue(value, bindlist, mspeclist, w, b) = x
  BY <1>1, LastScope DEF DInv
<1>5. x \in Val
  <2>1. b \in 1..b
    BY <1>4
  <2>2. ScopeValue(value, bindlist, mspeclist, bindlist[b], b) \in Val
    BY <2>1 DEF DInv, BoundHaveValues
  <2>3. QED
    BY <1>4, <2>2
<1> HIDE DEF w, x
<1>6. /\ dv2 \in Seq(Var) /\ Len(dv2) = k + 1 /\ dv2[1] = w
      /\ \A i \in 1..k : dv2[i + 1] = dv[i]
  <2>1. w \in Var /\ dv \in Seq(Var) /\ Len(dv) = k
    BY <1>3, <1>4
  <2> HIDE DEF k, dv
  <2>2. QED
    BY ONLY <2>1, ConsFacts DEF dv2
<1>7. /\ dx2 \in Seq(Val) /\ Len(dx2) = k + 1 /\ dx2[1] = x
      /\ \A i \in 1..k : dx2[i + 1] = dx[i]
  <2>1. x \in Val /\ dx \in Seq(Val) /\ Len(dx) = k
    BY <1>3, <1>5
  <2> HIDE DEF k, dx
  <2>2. QED
    BY ONLY <2>1, ConsFacts DEF dx2
<1> HIDE DEF dv2, dx2
<1>8. /\ b = Len(bindlist') + 1 /\ Len(bindlist') \in Nat
      /\ \A i \in 1..Len(bindlist') : bindlist'[i] = bindlist[i]
      /\ \A i \in 1..Len(bindlist') :
            ScopeValue(value', bindlist', mspeclist', bindlist[i], i)
               = ScopeValue(value, bindlist, mspeclist, bindlist[i], i)
  BY <1>1, MunbindBindings DEF DInv
<1>9. BindNext
  BY <1>1 DEF BindNext
<1>10. /\ e \in LevelEntry /\ e.phase = "remove" /\ e.diffvars = dv2 /\ e.diffvals = dx2
       /\ e.had = Top.had /\ e.names = Top.names /\ e.kind = Top.kind
       /\ e.frame = Top.frame /\ e.target = Top.target
  BY <1>2, <1>3, <1>6, <1>7 DEF LevelEntry
<1>11. ~IsForm(e)
  BY <1>2, <1>10 DEF IsForm
<1> HIDE DEF e
<1>12. /\ n = b + k
       /\ \A i \in 1..b : Top.names[i] = bindlist[i]
       /\ \A i \in 1..k : Top.names[b + i] = dv[i]
  BY <1>2 DEF Goes, Shrunk
<1>13. \A j \in 1..(h - k) :
         Top.had[j] = <<bindlist[n - h + j],
                        ScopeValue(value, bindlist, mspeclist, bindlist[n - h + j], n - h + j)>>
  BY <1>2 DEF InPlace
<1>14. \/ Top.target = Stale /\ h = n
       \/ Top.target \in Nat /\ Top.target + h = n
  BY <1>2, <1>3 DEF LevelOK, Pointer
<1>15. Len(e.diffvars) = k + 1 /\ Len(e.diffvals) = k + 1 /\ Len(e.had) = h /\ Len(e.names) = n
  BY <1>6, <1>7, <1>10
<1> DEFINE b2 == Len(bindlist')
<1>16. b = b2 + 1 /\ b2 \in Nat /\ b2 = Len(bindlist')
  BY <1>8
<1> HIDE DEF k, h, n, b, b2
<1>17. k < h
  BY <1>1, <1>3, <1>4, <1>12, <1>14, NotAllOff
<1>18. Top.had[h - k] = <<w, x>>
  <2>1. h - k \in 1..(h - k) /\ n - h + (h - k) = b
    BY <1>3, <1>4, <1>12, <1>17
  <2>2. Top.had[h - k] = <<bindlist[b], ScopeValue(value, bindlist, mspeclist, bindlist[b], b)>>
    BY <1>13, <2>1
  <2>3. QED
    BY <1>4, <2>2
<1>19. EntryOK(e)
  <2>1. k + 1 \in Nat /\ k + 1 <= h
    BY <1>3, <1>17
  <2>2. ASSUME NEW j \in 1..(k + 1)
        PROVE  e.had[h - (k + 1) + j] = <<e.diffvars[j], e.diffvals[j]>>
    <3>1. CASE j = 1
      <4>1. h - (k + 1) + j = h - k
        BY <1>3, <3>1
      <4>2. QED
        BY <1>6, <1>7, <1>10, <1>18, <3>1, <4>1
    <3>2. CASE j # 1
      <4>1. PICK i \in 1..k : j = i + 1
        <5>1. j - 1 \in 1..k /\ j = (j - 1) + 1
          BY <1>3, <3>2
        <5>2. QED
          BY <5>1
      <4>2. h - (k + 1) + j = h - k + i
        BY <1>3, <4>1
      <4>3. Top.had[h - k + i] = <<dv[i], dx[i]>>
        BY <1>3, <4>1
      <4>4. QED
        BY <1>6, <1>7, <1>10, <4>1, <4>2, <4>3
    <3>3. QED
      BY <3>1, <3>2
  <2>3. LevelOK(e)
    <3>1. /\ e.phase = "remove" /\ e.target = Top.target
          /\ (\/ Top.target = Stale /\ h = n
              \/ Top.target # Stale /\ Top.target + h = n)
      BY <1>10, <1>14, DebuggerAssumption
    <3>2. h <= n
      BY <1>3
    <3>3. QED
      BY ONLY <1>15, <2>1, <2>2, <3>1, <3>2 DEF LevelOK
  <2>4. QED
    BY <1>10, <1>11, <2>3 DEF EntryOK, Entry
<1>20. Goes(e, bindlist')
  <2>1. n = b2 + (k + 1)
    BY <1>3, <1>12, <1>16
  <2>2. ASSUME NEW i \in 1..b2
        PROVE  e.names[i] = bindlist'[i]
    <3>1. i \in 1..b /\ i \in 1..Len(bindlist')
      BY <1>16
    <3>2. QED
      BY <1>8, <1>10, <1>12, <3>1
  <2>3. ASSUME NEW i \in 1..(k + 1)
        PROVE  e.names[b2 + i] = e.diffvars[i]
    <3>1. CASE i = 1
      <4>1. b2 + i = b /\ b \in 1..b
        BY <1>4, <1>16, <3>1
      <4>2. QED
        BY <1>4, <1>6, <1>10, <1>12, <3>1, <4>1
    <3>2. CASE i # 1
      <4>1. PICK j \in 1..k : i = j + 1
        <5>1. i - 1 \in 1..k /\ i = (i - 1) + 1
          BY <1>3, <3>2
        <5>2. QED
          BY <5>1
      <4>2. b2 + i = b + j
        BY <1>16, <4>1
      <4>3. QED
        BY <1>6, <1>10, <1>12, <4>1, <4>2
    <3>3. QED
      BY <3>1, <3>2
  <2>4. Shrunk(e, bindlist')
    BY <1>15, <1>16, <2>1, <2>2, <2>3 DEF Shrunk
  <2>5. QED
    BY <1>11, <2>4 DEF Goes
<1>21. InPlace(e, value', bindlist', mspeclist')
  <2>1. ASSUME NEW j \in 1..(h - (k + 1))
        PROVE  e.had[j] = <<bindlist'[n - h + j],
                            ScopeValue(value', bindlist', mspeclist', bindlist'[n - h + j], n - h + j)>>
    <3>1. j \in 1..(h - k) /\ n - h + j \in 1..b2
      <4>1. /\ k \in Nat /\ h \in Nat /\ n \in Nat /\ b2 \in Nat /\ h <= n
            /\ n = b2 + 1 + k
        BY <1>3, <1>12, <1>16
      <4>2. QED
        BY ONLY <2>1, <4>1
    <3>2. Top.had[j] = <<bindlist[n - h + j],
                         ScopeValue(value, bindlist, mspeclist, bindlist[n - h + j], n - h + j)>>
      BY <1>13, <3>1
    <3>3. n - h + j \in 1..Len(bindlist')
      BY <1>16, <3>1
    <3>4. QED
      BY <1>8, <1>10, <3>2, <3>3
  <2>2. QED
    BY <1>15, <2>1 DEF InPlace
<1>22. PointersIn(e, Len(bindlist'))
  BY <1>11 DEF PointersIn
<1>23. ~(looks = 0 /\ InCall)
  <2> SUFFICES ASSUME looks = 0, InCall PROVE FALSE
    OBVIOUS
  <2>1. Top.had = <<>>
    BY <1>2 DEF Unlooked
  <2>2. h = 0
    BY <2>1, EmptySeq DEF h
  <2>3. QED
    BY <1>3, <1>17, <2>2
<1>24. looks = 1 => Shows(stack, Len(stack), e)
  BY <1>2, <1>10, <1>11 DEF Shows
<1>25. e.names = stack[Len(stack)].names /\ e.kind = stack[Len(stack)].kind
  BY <1>2, <1>10
<1>26. /\ BindTypeOK' /\ ValuesListExact' /\ BoundHaveValues(value', bindlist', mspeclist')
       /\ Drops(stack, rest, Len(bindlist'))
  BY <1>1, UnbindDrops
<1> HIDE DEF rest
<1>27. DInv'
  BY <1>1, <1>2, <1>19, <1>20, <1>21, <1>22, <1>23, <1>24, <1>25, <1>26, ReplaceStepInv
<1>28. QED
  BY <1>9, <1>27

(* munbind of the next parameter: its own variable is the one bound last.    *)
LEMMA UnbindsOwn ==
  ASSUME DInv, TopIs(TRUE, "unbind")
  PROVE  /\ bindlist # <<>> /\ Head(Top.todo) = Last(bindlist)
         /\ Len(Top.todo) \in Nat /\ Len(Top.todo) > 0 /\ Len(Top.todo) <= Len(Top.vars)
         /\ Len(bindlist) = Len(Top.names) + Len(Top.todo)
<1> DEFINE t == Len(Top.todo)
           c == Len(Top.names)
           b == Len(bindlist)
<1>1. IsForm(Top) /\ Top.phase = "unbind" /\ EntryOK(Top) /\ Goes(Top, bindlist)
  BY TopIsTop
<1>2. /\ FormOK(Top) /\ Top.todo \in Seq(Var) /\ t \in Nat /\ c \in Nat
      /\ bindlist \in Seq(Var) /\ b \in Nat
  BY <1>1, FormFields, LenProperties DEF DInv, BindTypeOK
<1>3. /\ Top.todo # <<>> /\ t <= Len(Top.vars)
      /\ \A i \in 1..t : Top.todo[i] = Top.vars[t + 1 - i]
  BY <1>1, <1>2 DEF FormOK
<1>4. t # 0 /\ Head(Top.todo) = Top.todo[1]
  BY <1>2, <1>3, EmptySeq, HeadTailProperties
<1>5. b = c + t /\ \A i \in 1..t : bindlist[c + i] = Top.vars[i]
  BY <1>1 DEF Goes, Grown, BoundBy
<1> HIDE DEF t, c, b
<1>6. t > 0 /\ b > 0 /\ t \in 1..t /\ 1 \in 1..t /\ t + 1 - 1 = t /\ c + t = b
  BY <1>2, <1>4, <1>5
<1>7. Top.todo[1] = bindlist[b]
  BY <1>3, <1>5, <1>6
<1>8. bindlist # <<>>
  BY <1>6, EmptySeq DEF b
<1>9. Last(bindlist) = bindlist[b]
  BY <1>8, LastScope DEF DInv, b
<1>10. QED
  BY <1>2, <1>3, <1>4, <1>5, <1>6, <1>7, <1>8, <1>9 DEF t, b, c

(* munbind of the first parameter ends the call. *)
LEMMA UnbindLastInv ==
  ASSUME DInv, TopIs(TRUE, "unbind"), MunbindLast, looks' = looks, Len(Top.todo) = 1,
         stack' = Front(Dropped(Len(bindlist)))
  PROVE  DInv'
<1> DEFINE m == Len(stack) - 1
           rest == Dropped(Len(bindlist))
           bl2 == bindlist'
<1>1. /\ stack # <<>> /\ Top = stack[Len(stack)] /\ IsForm(Top) /\ EntryOK(Top)
      /\ Goes(Top, bindlist)
  BY TopIsTop
<1>2. Len(bindlist) = Len(Top.names) + 1
  BY UnbindsOwn
<1>3. /\ BindTypeOK' /\ ValuesListExact' /\ BoundHaveValues(value', bindlist', mspeclist')
      /\ Drops(stack, rest, Len(bl2))
  BY UnbindDrops
<1>4. /\ Len(bindlist) = Len(bl2) + 1 /\ Len(bl2) \in Nat
      /\ \A i \in 1..Len(bl2) : bl2[i] = bindlist[i]
  BY MunbindBindings DEF DInv
<1>5. /\ bindlist \in Seq(Var) /\ bl2 \in Seq(Var) /\ StackOK(stack, bindlist) /\ looks \in 0..2
      /\ Top.names \in Seq(Var) /\ Len(Top.names) \in Nat
  BY <1>1, <1>3, FormFields DEF DInv, BindTypeOK
<1>6. \A i \in 1..Len(Top.names) : bindlist[i] = Top.names[i]
  BY <1>1 DEF Goes, Grown
<1> HIDE DEF bl2, rest
<1>7. bl2 = stack[Len(stack)].names
  <2>1. Len(bl2) = Len(Top.names)
    BY <1>2, <1>4, <1>5
  <2>2. bl2 = Top.names
    BY <1>4, <1>5, <1>6, <2>1, SeqEqual
  <2>3. QED
    BY <1>1, <2>2
<1>8. /\ Keeps(stack, bindlist, Front(rest), bl2, Len(stack) - 1)
      /\ Len(Front(rest)) = Len(stack) - 1
  BY ONLY <1>1, <1>3, <1>5, <1>7, PopKeeps
<1>9. Keeps(stack, bindlist, stack', bindlist', m) /\ Len(stack') = m /\ m \in Nat
  BY <1>8 DEF Keeps, bl2, rest
<1> HIDE DEF m
<1>10. Len(stack') # m + 1
  BY <1>9
<1>11. NewTop(stack', bindlist', m) /\ looks' \in 0..2 /\ looks <= looks'
  BY <1>5, <1>10 DEF NewTop
<1>12. QED
  BY <1>3, <1>9, <1>10, <1>11, StepInv

LEMMA UnbindOneInv ==
  ASSUME DInv, UnbindOne
  PROVE  DInv' /\ [BindNext]_bvars
<1> DEFINE rest == Dropped(Len(bindlist))
           t == Len(Top.todo)
           f == Last(rest)
           e == [f EXCEPT !.todo = Tail(f.todo)]
           b2 == Len(bindlist')
<1>1. /\ TopIs(TRUE, "unbind") /\ Munbind(Head(Top.todo)) /\ looks' = looks
      /\ t = 1 => stack' = Front(rest)
      /\ t # 1 => stack' = Append(Front(rest), e)
  BY DEF UnbindOne
<1>2. /\ bindlist # <<>> /\ Head(Top.todo) = Last(bindlist) /\ t \in Nat /\ t > 0
      /\ t <= Len(Top.vars) /\ Len(bindlist) = Len(Top.names) + t
  BY <1>1, UnbindsOwn
<1>3. MunbindLast /\ BindNext
  BY <1>1, <1>2 DEF MunbindLast, BindNext
<1>4. CASE t = 1
  BY <1>1, <1>3, <1>4, UnbindLastInv
<1>5. CASE t # 1
  <2>1. /\ stack # <<>> /\ Top = stack[Len(stack)] /\ IsForm(Top) /\ Top.phase = "unbind"
        /\ EntryOK(Top) /\ Goes(Top, bindlist) /\ (looks = 0 /\ InCall => Unlooked(Top))
    BY <1>1, TopIsTop
  <2>2. /\ BindTypeOK' /\ ValuesListExact' /\ BoundHaveValues(value', bindlist', mspeclist')
        /\ Drops(stack, rest, b2)
    BY <1>3, UnbindDrops
  <2>3. /\ Len(bindlist) = b2 + 1 /\ b2 \in Nat
        /\ \A i \in 1..b2 : bindlist'[i] = bindlist[i]
    BY <1>3, MunbindBindings DEF DInv
  <2>4. /\ Top \in FormEntry /\ FormOK(Top) /\ Top.vars \in Seq(Var) /\ Top.todo \in Seq(Var)
        /\ Len(Top.names) \in Nat /\ Top.below \in Pointer /\ Top \in Entry
    BY <2>1, FormFields DEF EntryOK
  <2>5. f = rest[Len(stack)] /\ Kept(Top, f, b2)
    <3>1. Len(stack) \in Nat /\ Len(stack) > 0
      BY <2>1, TopFacts DEF DInv
    <3>2. f = rest[Len(stack)]
      BY <2>2 DEF Drops, Last
    <3>3. QED
      BY <2>1, <2>2, <3>1, <3>2 DEF Drops
  <2> HIDE DEF f, rest, b2
  <2>6. f \in Entry /\ Alike(Top, f) /\ PointersIn(f, b2)
    BY <2>3, <2>4, <2>5, KeptAlike
  <2>7. /\ IsForm(f) /\ f.kind = Top.kind /\ f.phase = "unbind" /\ f.names = Top.names /\ f.vars = Top.vars
        /\ f.todo = Top.todo /\ f \in FormEntry
    BY <2>1, <2>6 DEF Alike, IsForm, Entry, LevelEntry
  <2>8. /\ Tail(Top.todo) \in Seq(Var) /\ Len(Tail(Top.todo)) = t - 1
        /\ \A i \in 1..(t - 1) : Tail(Top.todo)[i] = Top.todo[i + 1]
    <3>1. Top.todo # <<>>
      BY <1>2, EmptySeq
    <3>2. QED
      BY <2>4, <3>1, HeadTailProperties
  <2>9. /\ e \in FormEntry /\ e.kind = Top.kind /\ e.phase = "unbind" /\ e.names = Top.names
        /\ e.vars = Top.vars /\ e.todo = Tail(Top.todo) /\ e.below = f.below /\ e.inside = f.inside
    BY <2>7, <2>8 DEF FormEntry
  <2> HIDE DEF e
  <2>10. IsForm(e) /\ Len(e.todo) = t - 1
    BY <2>1, <2>8, <2>9 DEF IsForm
  <2>a. BoundBy(e) = t - 1 /\ BoundBy(Top) = t
    BY <2>1, <2>8, <2>9 DEF BoundBy
  <2>b. \A i \in 1..t : Top.todo[i] = Top.vars[t + 1 - i]
    BY <2>1, <2>4 DEF FormOK
  <2> DEFINE l == Len(Top.vars)
             c == Len(Top.names)
  <2>c. l \in Nat /\ c \in Nat /\ t <= l
    BY <1>2, <2>4, LenProperties
  <2>d. /\ \A i \in 1..c : bindlist[i] = Top.names[i]
        /\ \A i \in 1..t : bindlist[c + i] = Top.vars[i]
    BY <2>1, <2>a DEF Goes, Grown
  <2>e. b2 = c + (t - 1)
    <3> DEFINE b == Len(bindlist)
    <3>1. b = c + t /\ b = b2 + 1 /\ b2 \in Nat /\ c \in Nat /\ t \in Nat
      BY <1>2, <2>3, <2>c
    <3> HIDE DEF b, c, t
    <3>2. QED
      BY ONLY <3>1
  <2> HIDE DEF t, l
  <2>11. EntryOK(e)
    <3>1. t - 1 \in Nat /\ t - 1 > 0 /\ t - 1 <= l
      BY <1>2, <1>5, <2>c
    <3>2. ASSUME NEW i \in 1..(t - 1)
          PROVE  e.todo[i] = e.vars[(t - 1) + 1 - i]
      <4>1. i + 1 \in 1..t /\ t + 1 - (i + 1) = (t - 1) + 1 - i
        BY <1>2
      <4>2. QED
        BY <2>8, <2>9, <2>b, <4>1
    <3>3. e.todo # <<>>
      <4>1. Len(e.todo) # 0
        BY <2>10, <3>1
      <4>2. QED
        BY <4>1, EmptySeq
    <3>4. Len(e.vars) = l
      BY <2>9 DEF l
    <3>5. FormOK(e)
      BY <2>9, <2>10, <3>1, <3>2, <3>3, <3>4 DEF FormOK
    <3>6. QED
      BY <2>9, <2>10, <3>5 DEF EntryOK, Entry
  <2>12. PointersIn(e, b2)
    BY <2>6, <2>7, <2>9 DEF PointersIn
  <2>13. Goes(e, bindlist')
    <3>1. Len(e.names) = c /\ Len(bindlist') = b2
      BY <2>9 DEF b2
    <3>2. ASSUME NEW i \in 1..c
          PROVE  bindlist'[i] = e.names[i]
      <4>1. i \in 1..b2
        BY <1>2, <2>c, <2>e
      <4>2. QED
        BY <2>3, <2>9, <2>d, <4>1
    <3>3. ASSUME NEW i \in 1..(t - 1)
          PROVE  bindlist'[c + i] = e.vars[i]
      <4>1. i \in 1..t /\ c + i \in 1..b2
        BY <1>2, <2>c, <2>e
      <4>2. QED
        BY <2>3, <2>9, <2>d, <4>1
    <3> HIDE DEF c
    <3>4. Grown(e, bindlist')
      BY <2>a, <2>e, <3>1, <3>2, <3>3 DEF Grown
    <3>5. QED
      BY <2>10, <3>4 DEF Goes
  <2>14. ASSUME looks = 0, InCall PROVE Unlooked(e)
    <3>1. Top.below = c
      BY <2>1, <2>14 DEF Unlooked
    <3> HIDE DEF c
    <3>2. Left(Top.below, b2) = Top.below
      BY <1>2, <2>c, <2>e, <3>1 DEF Left
    <3>3. f.below = Left(Top.below, b2)
      BY <2>1, <2>4, <2>5 DEF Kept, FormEntry
    <3>4. e.below = Len(e.names)
      BY <2>9, <3>1, <3>2, <3>3 DEF c
    <3>5. QED
      BY <2>9, <2>10, <3>4 DEF Unlooked
  <2>15. Shows(stack, Len(stack), e) /\ InPlace(e, value', bindlist', mspeclist')
    BY <2>10 DEF Shows, InPlace
  <2>16. e.names = stack[Len(stack)].names /\ e.kind = stack[Len(stack)].kind
    BY <2>1, <2>9
  <2>17. stack' = Append(Front(rest), e)
    BY <1>1, <1>5 DEF e
  <2>18. Drops(stack, rest, Len(bindlist')) /\ PointersIn(e, Len(bindlist'))
    BY <2>2, <2>12 DEF b2
  <2>19. DInv'
    BY <1>1, <2>1, <2>2, <2>11, <2>13, <2>14, <2>15, <2>16, <2>17, <2>18, ReplaceStepInv
  <2>20. QED
    BY <1>3, <2>19
<1>6. QED
  BY <1>3, <1>4, <1>5

-----------------------------------------------------------------------------
(***************************************************************************)
(* The specification.                                                      *)
(***************************************************************************)

LEMMA DbgInitInv == DbgInit => DInv
<1> SUFFICES ASSUME DbgInit PROVE DInv
  OBVIOUS
<1>1. BindInit /\ stack = <<>> /\ looks = 0
  BY DEF DbgInit
<1>2. BindTypeOK /\ ValuesListExact /\ bindlist = <<>>
  BY <1>1, BindInitTypeOK DEF BindInit
<1>3. Len(stack) = 0 /\ Len(bindlist) = 0 /\ stack \in Seq(Entry)
      /\ \A i : NamesIn(stack, bindlist, i) = <<>>
  BY <1>1, <1>2, EmptySeq DEF NamesIn
<1>4. StackOK(stack, bindlist)
  BY <1>3 DEF StackOK
<1>5. ChainOK(stack, bindlist)
  BY <1>3 DEF ChainOK
<1>6. UnlookedOK(stack, bindlist)
  BY <1>2, <1>3 DEF UnlookedOK
<1>7. BoundHaveValues(value, bindlist, mspeclist)
  BY <1>3 DEF BoundHaveValues
<1>8. QED
  BY <1>1, <1>2, <1>4, <1>5, <1>6, <1>7 DEF DInv

LEMMA DbgNextInv ==
  ASSUME DInv, [DbgNext]_dvars
  PROVE  DInv' /\ [BindNext]_bvars
<1>1. CASE RestoreOne
  BY <1>1, RestoreOneInv
<1>2. CASE ShowFrame
  BY <1>2, ShowFrameInv DEF ShowFrame
<1>3. CASE RemoveOne
  BY <1>3, RemoveOneInv
<1>4. CASE RemoveDone
  BY <1>4, RemoveDoneInv DEF RemoveDone
<1>5. CASE LeaveLevel
  BY <1>5, LeaveLevelInv DEF LeaveLevel
<1>6. CASE UnwindLevel
  BY <1>6, UnwindLevelInv DEF UnwindLevel
<1>7. CASE UnwindForm \/ Finish
  BY <1>7, UnwindFormInv DEF UnwindForm, Finish
<1>8. CASE CatchQuit
  BY <1>8, CatchQuitInv DEF CatchQuit
<1>9. CASE UnbindOne
  BY <1>9, UnbindOneInv
<1>10. CASE \E x \in Val : Mbind(x)
  BY <1>10, MbindInv
<1>11. CASE \E v \in Var : RemvalueGlobal(v)
  BY <1>11, RemvalueInv DEF RemvalueGlobal, BindNext
<1>12. CASE \E v \in Var : \E x \in Val : Assign(v, x)
  BY <1>12, AssignInv DEF Assign, BindNext
<1>13. CASE \E vs \in VarLists : Mlambda(vs) \/ Mprog(vs)
  BY <1>13, MlambdaInv DEF Mlambda, Mprog
<1>14. CASE IllegalReturn \/ BreakPoint \/ Merror
  BY <1>14, LevelsInv DEF IllegalReturn, BreakPoint, Merror
<1>15. CASE \E n \in 0 .. Cardinality(Calls) : BreakFrame(n)
  <2>1. PICK n \in 0 .. Cardinality(Calls) : Command("frame", n)
    BY <1>15 DEF BreakFrame
  <2>2. n \in Nat
    BY BdlistOfFacts
  <2>3. QED
    BY <2>1, <2>2, CommandInv DEF Command
<1>16. CASE Resume \/ ThrowTop \/ BreakQuit
  <2>1. \E next \in {"frame", "resume", "top", "quit"} : Command(next, 0)
    BY <1>16 DEF Resume, ThrowTop, BreakQuit
  <2>2. QED
    BY <2>1, CommandInv DEF Command
<1>17. CASE UNCHANGED dvars
  <2>1. UNCHANGED bvars /\ stack' = stack /\ looks' = looks
    BY <1>17 DEF dvars
  <2>2. /\ BindTypeOK' /\ ValuesListExact' /\ BoundHaveValues(value', bindlist', mspeclist')
        /\ value' = value /\ bindlist' = bindlist /\ mspeclist' = mspeclist
    BY <2>1, SameBindings DEF DInv
  <2>3. QED
    BY <2>1, <2>2 DEF DInv
<1>18. QED
  BY <1>1, <1>2, <1>3, <1>4, <1>5, <1>6, <1>7, <1>8, <1>9, <1>10, <1>11, <1>12, <1>13, <1>14,
     <1>15, <1>16, <1>17 DEF DbgNext, DebuggerSteps

(* The inductive invariant of the debugger. *)
THEOREM DebuggerInvariant == DbgSpec => []DInv
<1>1. DInv /\ [DbgNext]_dvars => DInv'
  BY DbgNextInv
<1>2. QED
  BY DbgInitInv, <1>1, PTL DEF DbgSpec

(* Whatever the program and the user of the debugger do, the debugger takes    *)
(* off and puts back bindings only as mbind and munbind do: every munbind is   *)
(* one of the variable bound last (mdebug.lisp: remove-bindings,              *)
(* restore-bindings).                                                      *)
THEOREM DebuggerImplementsBindings == DbgSpec => BindSpec
<1>1. DInv /\ [DbgNext]_dvars => [BindNext]_bvars
  BY DbgNextInv
<1>2. DbgInit => BindInit
  BY DEF DbgInit
<1>3. QED
  BY DebuggerInvariant, <1>1, <1>2, PTL DEF DbgSpec, BindSpec

(* So what is seen at the prompt, in a frame that was selected as well as      *)
(* after resuming, is the environment of dynamic scoping (mlisp.lisp:         *)
(* mbind-doit, munbind).                                                   *)
THEOREM DebuggerIsDynamicScope == DbgSpec => ImplementsDynamicScope
BY DebuggerImplementsBindings, ShallowBindingIsDynamicScope, PTL

(* $values lists the variables that have a value while frames are selected,   *)
(* left and thrown through (mlisp.lisp: mset, munbind).                      *)
THEOREM DebuggerKeepsValuesList == DbgSpec => []ValuesListExact
<1>1. DInv => ValuesListExact
  BY DEF DInv
<1>2. QED
  BY DebuggerInvariant, <1>1, PTL

LEMMA GoesFollows ==
  ASSUME NEW e, EntryOK(e), NEW after \in Seq(Var), Goes(e, after)
  PROVE  Follows(e, after)
<1>1. CASE IsForm(e)
  <2> DEFINE n == BoundBy(e)
             t == SubSeq(e.vars, 1, n)
             c == Len(e.names)
             s == e.names \o t
  <2>1. /\ e.names \in Seq(Var) /\ e.vars \in Seq(Var) /\ n \in 0..Len(e.vars)
        /\ c \in Nat /\ Len(e.vars) \in Nat
    BY <1>1, FormFields
  <2>2. /\ Len(after) = c + n
        /\ \A i \in 1..c : after[i] = e.names[i]
        /\ \A i \in 1..n : after[c + i] = e.vars[i]
    BY <1>1 DEF Goes, Grown
  <2> HIDE DEF n
  <2>3. n \in Nat /\ 1 \in Int /\ n \in Int /\ \A i \in 1..n : e.vars[i] \in Var
    <3>1. n \in Nat /\ \A i \in 1..n : i \in 1..Len(e.vars)
      BY <2>1
    <3>2. QED
      BY <2>1, <3>1, ElementOfSeq
  <2>4. t \in Seq(Var) /\ Len(t) = n /\ \A i \in 1..n : t[i] = e.vars[i]
    <3>1. /\ t \in Seq(Var) /\ Len(t) = IF 1 <= n THEN n - 1 + 1 ELSE 0
          /\ \A i \in 1 .. (n - 1 + 1) : t[i] = e.vars[1 + i - 1]
      BY <2>3, SubSeqProperties
    <3>2. n - 1 + 1 = n /\ (IF 1 <= n THEN n - 1 + 1 ELSE 0) = n
      BY <2>3
    <3>3. \A i \in 1..n : 1 + i - 1 = i
      BY <2>3
    <3>4. t \in Seq(Var) /\ Len(t) = n
      BY ONLY <3>1, <3>2, Zenon
    <3>5. \A i \in 1..n : t[i] = e.vars[i]
      BY ONLY <3>1, <3>2, <3>3, Zenon
    <3>6. QED
      BY ONLY <3>4, <3>5
  <2> HIDE DEF t
  <2>5. /\ s \in Seq(Var) /\ Len(s) = c + n
        /\ \A i \in 1..(c + n) : s[i] = IF i <= c THEN e.names[i] ELSE t[i - c]
    <3>1. /\ s \in Seq(Var) /\ Len(s) = c + Len(t)
          /\ \A i \in 1..(c + Len(t)) : s[i] = IF i <= c THEN e.names[i] ELSE t[i - c]
      BY ONLY <2>1, <2>4, ConcatProperties
    <3>2. QED
      BY ONLY <2>4, <3>1
  <2> HIDE DEF s, c
  <2>6. ASSUME NEW i \in 1..(c + n)
        PROVE  after[i] = s[i]
    <3>1. CASE i <= c
      <4>1. i \in 1..c
        BY <2>1, <2>3, <3>1
      <4>2. QED
        BY <2>2, <2>5, <3>1, <4>1
    <3>2. CASE ~(i <= c)
      <4>1. i - c \in 1..n /\ c + (i - c) = i
        BY <2>1, <2>3, <3>2
      <4>2. QED
        BY <2>2, <2>4, <2>5, <3>2, <4>1
    <3>3. QED
      BY <3>1, <3>2
  <2>7. after = s
    BY <2>2, <2>5, <2>6, SeqEqual
  <2>8. QED
    BY <1>1, <2>7 DEF Follows, s, t, n
<1>2. CASE ~IsForm(e)
  <2> DEFINE c == Len(after)
             n == Len(e.diffvars)
             s == after \o e.diffvars
  <2>1. /\ e.names \in Seq(Var) /\ e.diffvars \in Seq(Var) /\ c \in Nat /\ n \in Nat
    BY <1>2, LevelFields, LenProperties
  <2>2. /\ Len(e.names) = c + n
        /\ \A i \in 1..c : e.names[i] = after[i]
        /\ \A i \in 1..n : e.names[c + i] = e.diffvars[i]
    BY <1>2 DEF Goes, Shrunk
  <2>3. /\ s \in Seq(Var) /\ Len(s) = c + n
        /\ \A i \in 1..(c + n) : s[i] = IF i <= c THEN after[i] ELSE e.diffvars[i - c]
    BY <2>1, ConcatProperties
  <2> HIDE DEF s, c, n
  <2>4. ASSUME NEW i \in 1..(c + n)
        PROVE  e.names[i] = s[i]
    <3>1. CASE i <= c
      <4>1. i \in 1..c
        BY <2>1, <3>1
      <4>2. QED
        BY <2>2, <2>3, <3>1, <4>1
    <3>2. CASE ~(i <= c)
      <4>1. i - c \in 1..n /\ c + (i - c) = i
        BY <2>1, <3>2
      <4>2. QED
        BY <2>2, <2>3, <3>2, <4>1
    <3>3. QED
      BY <3>1, <3>2
  <2>5. e.names = s
    BY <2>1, <2>2, <2>3, <2>4, SeqEqual
  <2>6. QED
    BY <1>2, <2>5 DEF Follows, s
<1>3. QED
  BY <1>1, <1>2

(* However calls and break loops are nested, bindlist is what the calls below  *)
(* have bound less what the break loops below have taken off (mdebug.lisp:386, *)
(* the unwind-protect of break-dbm-loop).                                   *)
THEOREM ListsAlwaysFollowStack == DbgSpec => []ListsFollowStack
<1>1. ASSUME DInv PROVE ListsFollowStack
  <2>1. /\ StackOK(stack, bindlist) /\ ChainOK(stack, bindlist) /\ bindlist \in Seq(Var)
        /\ stack \in Seq(Entry) /\ DOMAIN stack = 1..Len(stack) /\ Len(stack) \in Nat
    BY <1>1, LenProperties DEF DInv, BindTypeOK, StackOK
  <2>2. \A i : NamesAt(i) = NamesIn(stack, bindlist, i)
    BY DEF NamesAt, NamesIn
  <2>3. NamesAt(1) = <<>>
    BY <2>1, <2>2 DEF ChainOK
  <2>4. ASSUME NEW i \in DOMAIN stack
        PROVE  Follows(stack[i], NamesAt(i + 1))
    <3>1. EntryOK(stack[i]) /\ Goes(stack[i], NamesAt(i + 1))
      BY <2>1, <2>2 DEF StackOK, ChainOK
    <3>2. NamesAt(i + 1) \in Seq(Var)
      <4>1. CASE i + 1 \in DOMAIN stack
        <5>1. EntryOK(stack[i + 1])
          BY <2>1, <4>1 DEF StackOK
        <5>2. stack[i + 1].names \in Seq(Var)
          BY <5>1, FormFields, LevelFields
        <5>3. QED
          BY <4>1, <5>2 DEF NamesAt
      <4>2. CASE i + 1 \notin DOMAIN stack
        BY <2>1, <4>2 DEF NamesAt
      <4>3. QED
        BY <4>1, <4>2
    <3>3. QED
      BY <3>1, <3>2, GoesFollows
  <2>5. QED
    BY <2>3, <2>4 DEF ListsFollowStack
<1>2. QED
  BY DebuggerInvariant, <1>1, PTL

(* When a break loop has put the bindings back they are the ones it took off,  *)
(* in their order and with their values (mdebug.lisp:710, restore-bindings).  *)
THEOREM RestoredIsRemoved == DbgSpec => []RestoredAsRemoved
<1>1. ASSUME DInv PROVE RestoredAsRemoved
  <2> DEFINE h == Len(Top.had)
             n == Len(bindlist)
  <2> SUFFICES ASSUME Restored
               PROVE  /\ n - h >= 0
                      /\ \A i \in DOMAIN Top.had :
                           Top.had[i] = <<bindlist[n - h + i], ValueAt(bindlist[n - h + i], n - h + i)>>
    BY DEF RestoredAsRemoved
  <2>1. TopIs(FALSE, "restore") /\ Top.diffvars = <<>>
    BY DEF Restored
  <2>2. ~IsForm(Top) /\ EntryOK(Top) /\ Goes(Top, bindlist) /\ InPlace(Top, value, bindlist, mspeclist)
    BY <1>1, <2>1, TopIsTop
  <2>3. bindlist \in Seq(Var) /\ bindlist = Top.names
    BY <1>1, <2>1, <2>2, NothingOff DEF DInv, BindTypeOK
  <2>4. h \in Nat /\ n \in Nat /\ h <= n /\ DOMAIN Top.had = 1..h /\ Len(Top.diffvars) = 0
    BY <2>1, <2>2, <2>3, LevelFields, LenProperties, EmptySeq DEF LevelOK
  <2>5. h - Len(Top.diffvars) = h
    BY <2>4
  <2>6. \A i \in 1..h :
          Top.had[i] = <<bindlist[n - h + i], ValueAt(bindlist[n - h + i], n - h + i)>>
    BY <2>2, <2>3, <2>5 DEF InPlace, ValueAt
  <2>7. n - h >= 0
    BY <2>4
  <2>8. QED
    BY <2>4, <2>6, <2>7
<1>2. QED
  BY DebuggerInvariant, <1>1, PTL

(* Before the first outer frame is selected, a return inside a call, from the  *)
(* body of a function or of a block in it, is legal (mlisp.lisp:2321): the      *)
(* break-frame 0 with which an error enters the debugger finds a frame there   *)
(* and takes nothing off.                                                    *)
THEOREM ReturnsAlwaysLegal == DbgSpec => []ReturnsStayLegal
<1>1. ASSUME DInv PROVE ReturnsStayLegal
  <2> SUFFICES ASSUME looks = 0, InBody, Calls # {}
               PROVE  Top.inside = Len(bindlist)
    BY DEF ReturnsStayLegal
  <2>1. IsForm(Top) /\ Top.phase = "body" /\ Goes(Top, bindlist) /\ Unlooked(Top)
    <3>1. InCall
      BY <1>1, BdlistOfFacts DEF InCall
    <3>2. QED
      BY <1>1, <3>1, TopIsTop DEF InBody
  <2>2. BoundBy(Top) = Len(Top.vars)
    BY <2>1 DEF BoundBy
  <2>3. QED
    BY <2>1, <2>2 DEF Goes, Grown, Unlooked
<1>2. QED
  BY DebuggerInvariant, <1>1, PTL

LEMMA CallsUnderTop ==
  ASSUME DInv, TopIs(FALSE, "prompt"), NEW n \in 1..Cardinality(Calls)
  PROVE  /\ CallsUnder(stack, Len(stack)) = Calls
         /\ Len(stack[FromAbove(Calls, n)].names) \in Nat
<1>1. stack # <<>> /\ ~IsForm(stack[Len(stack)])
  BY TopIsTop
<1>2. Len(stack) \in Nat /\ Len(stack) > 0 /\ Calls = CallsIn(stack)
  BY <1>1, TopFacts, BdlistOfFacts DEF DInv
<1>3. \A j \in 1..Len(stack) : stack[j].kind = "call" => j \in 1..(Len(stack) - 1)
  BY <1>1, <1>2 DEF IsForm
<1>4. \A j \in 1..(Len(stack) - 1) : j \in 1..Len(stack)
  BY <1>2
<1>5. FromAbove(Calls, n) \in Calls
  <2>1. Calls \subseteq 1..Len(stack)
    BY <1>2 DEF CallsIn
  <2>2. QED
    BY <1>2, <2>1, FromAboveIn
<1>6. EntryOK(stack[FromAbove(Calls, n)])
  BY <1>2, <1>5 DEF CallsIn, DInv, StackOK
<1>7. QED
  BY <1>2, <1>3, <1>4, <1>6, FormFields, LevelFields DEF CallsUnder, CallsIn

(* The first outer frame that is selected is shown with the bindings made      *)
(* before it called the next one, no more and no less (mdebug.lisp:21-22).    *)
THEOREM FrameIsShown == DbgSpec => []FrameShown
<1>1. ASSUME DInv PROVE FrameShown
  <2> DEFINE z == Len(stack[FromAbove(Calls, Top.frame)].names)
             h == Len(Top.had)
             b == Len(bindlist)
  <2> SUFFICES ASSUME looks = 1, AtPrompt, 0 < Top.frame, Top.frame < Cardinality(Calls)
               PROVE  b = z
    BY DEF FrameShown
  <2>1. /\ TopIs(FALSE, "prompt") /\ ~IsForm(Top) /\ Top.phase = "prompt" /\ EntryOK(Top)
        /\ Goes(Top, bindlist) /\ Shows(stack, Len(stack), Top)
    BY <1>1, TopIsTop DEF AtPrompt
  <2>2. Top.frame \in 1..Cardinality(Calls)
    BY <1>1, <2>1, LevelFields, BdlistOfFacts
  <2>3. CallsUnder(stack, Len(stack)) = Calls /\ z \in Nat
    BY <1>1, <2>1, <2>2, CallsUnderTop
  <2>4. Len(Top.names) = h + z
    BY <2>1, <2>3 DEF Shows
  <2>5. h \in Nat /\ b \in Nat /\ Len(Top.diffvars) = h
    BY <1>1, <2>1, LevelFields, LenProperties DEF LevelOK, DInv, BindTypeOK
  <2>6. Len(Top.names) = b + h
    BY <2>1, <2>5 DEF Goes, Shrunk
  <2> HIDE DEF z, h, b
  <2>7. h + z = b + h
    BY <2>4, <2>6
  <2>8. QED
    BY <2>3, <2>5, <2>7
<1>2. QED
  BY DebuggerInvariant, <1>1, PTL

=============================================================================
