--------------------------- MODULE PlotStack_proof ---------------------------
(***************************************************************************)
(* Proofs about PlotStack, for all expressions, functions and outcomes.      *)
(*                                                                         *)
(* The layout of an expression has a height at each of its places: what is    *)
(* on the stack when the place is reached, by whatever jumps (Lifts).  It is  *)
(* 0 at the first place and 1 behind the last one (Balanced).  The lemmas     *)
(* say so of the pieces layouts are made of; that each layout is Balanced     *)
(* follows from the operands', which are shorter.  The inductive invariant    *)
(* is that the stack is as high as the places of all executions say.          *)
(***************************************************************************)
EXTENDS PlotStack, SequenceTheorems, WellFoundedInduction, TLAPS

(***************************************************************************)
(* Sequences of anything.                                                  *)
(***************************************************************************)

IsSeq(s) == \E S : s \in Seq(S)

LEMMA LenIsNat ==
  ASSUME NEW s, IsSeq(s)
  PROVE  Len(s) \in Nat /\ DOMAIN s = 1..Len(s)
BY LenProperties DEF IsSeq

LEMMA EmptyIs == IsSeq(<<>>) /\ Len(<<>>) = 0
BY EmptySeq DEF IsSeq

LEMMA EmptyOnly ==
  ASSUME NEW s, IsSeq(s), Len(s) = 0
  PROVE  s = <<>>
BY EmptySeq DEF IsSeq

LEMMA SingleIs ==
  ASSUME NEW a
  PROVE  IsSeq(<<a>>) /\ Len(<<a>>) = 1 /\ <<a>>[1] = a
<1>1. <<a>> \in Seq({a})
  OBVIOUS
<1>2. QED
  BY <1>1 DEF IsSeq

LEMMA Widened ==
  ASSUME NEW s, IsSeq(s), NEW T
  PROVE  \E S : s \in Seq(S) /\ T \subseteq S
<1>1. PICK S : s \in Seq(S)
  BY DEF IsSeq
<1>2. s \in Seq(S \cup T)
  BY <1>1, SeqMonotonic
<1>3. QED
  BY <1>2

LEMMA ConcatIs ==
  ASSUME NEW s, IsSeq(s), NEW t, IsSeq(t)
  PROVE  /\ IsSeq(s \o t)
         /\ Len(s \o t) = Len(s) + Len(t)
         /\ \A i \in 1..(Len(s) + Len(t)) : (s \o t)[i] = IF i <= Len(s) THEN s[i] ELSE t[i - Len(s)]
<1>1. PICK T : t \in Seq(T)
  BY DEF IsSeq
<1>2. PICK S : s \in Seq(S) /\ T \subseteq S
  BY Widened
<1>3. t \in Seq(S)
  BY <1>1, <1>2, SeqMonotonic
<1>4. QED
  BY <1>2, <1>3, ConcatProperties DEF IsSeq

LEMMA AppendIs ==
  ASSUME NEW s, IsSeq(s), NEW a
  PROVE  /\ IsSeq(Append(s, a))
         /\ Len(Append(s, a)) = Len(s) + 1
         /\ \A i \in 1..Len(s) : Append(s, a)[i] = s[i]
         /\ Append(s, a)[Len(s) + 1] = a
<1>1. PICK S : s \in Seq(S) /\ {a} \subseteq S
  BY Widened
<1>2. QED
  BY <1>1, AppendProperties DEF IsSeq

LEMMA UnderIs ==
  ASSUME NEW s, IsSeq(s), NEW n \in 0..Len(s)
  PROVE  /\ IsSeq(Under(s, n))
         /\ Len(Under(s, n)) = Len(s) - n
         /\ \A i \in 1..(Len(s) - n) : Under(s, n)[i] = s[i]
<1>1. PICK S : s \in Seq(S)
  BY DEF IsSeq
<1>2. Len(s) \in Nat /\ \A i \in 1..Len(s) : s[i] \in S
  BY <1>1, LenProperties, ElementOfSeq
<1> DEFINE l == Len(s)
           u == SubSeq(s, 1, l - n)
<1>3. l \in Nat /\ n \in 0..l /\ \A i \in 1..(l - n) : s[i] \in S
  BY <1>2
<1> HIDE DEF l
<1>4. u \in Seq(S) /\ Len(u) = (IF 1 <= l - n THEN l - n - 1 + 1 ELSE 0)
      /\ \A i \in 1..(l - n - 1 + 1) : u[i] = s[1 + i - 1]
  BY <1>3, SubSeqProperties
<1> HIDE DEF u
<1>5. u \in Seq(S) /\ Len(u) = l - n /\ \A i \in 1..(l - n) : u[i] = s[i]
  BY <1>3, <1>4
<1>6. u = Under(s, n)
  BY DEF u, l, Under
<1>7. QED
  BY <1>5, <1>6 DEF l, IsSeq

LEMMA UpperIs ==
  ASSUME NEW s, IsSeq(s), NEW n \in 0..Len(s)
  PROVE  \A k \in 1..n : Upper(s, n)[k] = s[Len(s) - n + k]
<1>1. PICK S : s \in Seq(S)
  BY DEF IsSeq
<1>2. Len(s) \in Nat /\ \A i \in 1..Len(s) : s[i] \in S
  BY <1>1, LenProperties, ElementOfSeq
<1> DEFINE l == Len(s)
           u == SubSeq(s, l - n + 1, l)
<1>3. l \in Nat /\ n \in 0..l /\ \A i \in (l - n + 1)..l : s[i] \in S
  BY <1>2
<1> HIDE DEF l
<1>4. \A i \in 1..(l - (l - n + 1) + 1) : u[i] = s[(l - n + 1) + i - 1]
  BY <1>3, SubSeqProperties
<1> HIDE DEF u
<1>5. \A k \in 1..n : u[k] = s[l - n + k]
  BY <1>3, <1>4
<1>6. u = Upper(s, n)
  BY DEF u, l, Upper
<1>7. QED
  BY <1>5, <1>6 DEF l

(* A sequence is a prefix of one that has its elements at its places. *)
LEMMA PrefixIs ==
  ASSUME NEW s, IsSeq(s), NEW t, IsSeq(t), Len(s) <= Len(t), \A i \in 1..Len(s) : s[i] = t[i]
  PROVE  Seqs!IsPrefix(s, t)
<1>1. PICK T : t \in Seq(T)
  BY DEF IsSeq
<1>2. PICK S : s \in Seq(S) /\ T \subseteq S
  BY Widened
<1>3. t \in Seq(S) /\ Len(s) \in Nat /\ Len(t) \in Nat
  BY <1>1, <1>2, SeqMonotonic, LenProperties
<1> DEFINE n == Len(s)
<1>4. n \in Nat /\ (\A i \in 1..n : s[i] \in S) /\ (\A i \in 1..n : t[i] \in S) /\ \A i \in 1..n : s[i] = t[i]
  BY <1>2, <1>3, ElementOfSeq
<1> HIDE DEF n
<1>5. /\ SubSeq(s, 1, n) \in Seq(S) /\ SubSeq(t, 1, n) \in Seq(S)
      /\ Len(SubSeq(s, 1, n)) = (IF 1 <= n THEN n - 1 + 1 ELSE 0)
      /\ Len(SubSeq(t, 1, n)) = (IF 1 <= n THEN n - 1 + 1 ELSE 0)
      /\ \A i \in 1..(n - 1 + 1) : SubSeq(s, 1, n)[i] = s[1 + i - 1]
      /\ \A i \in 1..(n - 1 + 1) : SubSeq(t, 1, n)[i] = t[1 + i - 1]
  BY <1>4, SubSeqProperties
<1> DEFINE u == SubSeq(s, 1, n)
           v == SubSeq(t, 1, n)
<1> HIDE DEF u, v
<1>6. u \in Seq(S) /\ v \in Seq(S) /\ Len(u) = n /\ Len(v) = n /\ \A i \in 1..n : u[i] = s[i] /\ v[i] = t[i]
  BY <1>4, <1>5 DEF u, v
<1>7. u = v
  BY <1>4, <1>6, SeqEqual
<1>8. QED
  BY <1>7 DEF u, v, n, Seqs!IsPrefix

-----------------------------------------------------------------------------
(***************************************************************************)
(* Heights of the places of a layout.                                       *)
(***************************************************************************)

Plain == {"push", "pushc", "pushd", "call", "rand"} \cup One \cup Bessel \cup Two

(* What an action takes from the stack. *)
Needs(a) == IF a.op = "call" THEN Udf[a.fn].n_arg
            ELSE IF a.op \in {"jumpz", "jumpnz", "jtern"} THEN 1 ELSE Takes(a.op)

(* An action may leave so many values and go on so far away. *)
Exit(a, go, left) ==
  \/ a.op \in Plain /\ go = 1 /\ left = 1
  \/ a.op = "jump" /\ go = a.j_arg /\ left = 0
  \/ a.op \in {"jumpz", "jumpnz"} /\ ((go = 1 /\ left = 0) \/ (go = a.j_arg /\ left = 1))
  \/ a.op = "jtern" /\ go \in {1, a.j_arg} /\ left = 0

Known(a) == /\ a.op \in Plain \cup JumpOps
            /\ a.op = "call" => a.fn \in DOMAIN Udf
            /\ a.op \in JumpOps => a.j_arg \in Nat

(* The action a at the place p of n: there is enough on the stack, and the   *)
(* places where it goes are as high as what it leaves.                       *)
Fits(a, h, p, n) ==
  /\ Known(a) /\ Needs(a) <= h[p]
  /\ \A go, left \in Nat : Exit(a, go, left) => p + go <= n + 1 /\ h[p + go] = h[p] - Needs(a) + left

Lifts(c, h, from, to) ==
  /\ h \in [1..(Len(c) + 1) -> Nat] /\ h[1] = from /\ h[Len(c) + 1] = to
  /\ \A p \in 1..Len(c) : Fits(c[p], h, p, Len(c))

Raises(c, from, to) == IsSeq(c) /\ \E h : Lifts(c, h, from, to)
Balanced(c) == Raises(c, 0, 1)

LEMMA NeedsIsNat ==
  ASSUME NEW a, Known(a)
  PROVE  Needs(a) \in Nat
BY PlotStackAssumption DEF Known, Needs, Takes

(* A piece at another place, on a higher stack. *)
LEMMA FitsMoved ==
  ASSUME NEW a, NEW h, NEW g, NEW n \in Nat, NEW p \in 1..n, NEW d \in Nat, NEW r \in Nat, NEW m \in Nat,
         h \in [1..(n + 1) -> Nat], Fits(a, h, p, n), m >= n + d,
         \A i \in 1..(n + 1) : g[i + d] = h[i] + r
  PROVE  Fits(a, g, p + d, m)
<1> DEFINE k == Needs(a)
<1>1. Known(a) /\ k \in Nat /\ k <= h[p] /\ h[p] \in Nat /\ g[p + d] = h[p] + r
  BY NeedsIsNat DEF Fits
<1>2. ASSUME NEW go \in Nat, NEW left \in Nat, Exit(a, go, left)
      PROVE  (p + d) + go <= m + 1 /\ g[(p + d) + go] = g[p + d] - k + left
  <2>1. p + go <= n + 1 /\ h[p + go] = h[p] - k + left
    BY <1>2 DEF Fits
  <2>2. p + go \in 1..(n + 1) /\ (p + d) + go = (p + go) + d
    BY <2>1
  <2>3. g[(p + d) + go] = h[p + go] + r
    BY <2>2
  <2> HIDE DEF k
  <2>4. (p + d) + go <= m + 1
    BY <2>1
  <2>5. h[p + go] + r = (h[p] + r) - k + left
    <3> DEFINE x == h[p + go]
               y == h[p]
    <3>1. y \in Nat /\ k \in Nat /\ x = y - k + left
      BY <1>1, <2>1
    <3> HIDE DEF x, y
    <3>2. x + r = (y + r) - k + left
      BY <3>1
    <3>3. QED
      BY <3>2 DEF x, y
  <2>6. QED
    BY <1>1, <2>3, <2>4, <2>5
<1>3. k <= g[p + d]
  <2> HIDE DEF k
  <2> QED BY <1>1
<1>4. QED
  BY <1>1, <1>2, <1>3 DEF Fits

LEMMA Raise ==
  ASSUME NEW c, NEW a \in Nat, NEW b \in Nat, NEW r \in Nat, Raises(c, a, b)
  PROVE  Raises(c, a + r, b + r)
<1>1. IsSeq(c) /\ Len(c) \in Nat
  BY LenIsNat DEF Raises
<1>2. PICK h : Lifts(c, h, a, b)
  BY DEF Raises
<1> DEFINE n == Len(c)
           g == [i \in 1..(n + 1) |-> h[i] + r]
<1>3. h \in [1..(n + 1) -> Nat] /\ h[1] = a /\ h[n + 1] = b /\ \A p \in 1..n : Fits(c[p], h, p, n)
  BY <1>2 DEF Lifts
<1> HIDE DEF n
<1>4. n \in Nat
  BY <1>1 DEF n
<1>5. g \in [1..(n + 1) -> Nat] /\ g[1] = a + r /\ g[n + 1] = b + r /\ \A i \in 1..(n + 1) : g[i + 0] = h[i] + r
  BY <1>3, <1>4
<1> HIDE DEF g
<1>6. \A p \in 1..n : Fits(c[p], g, p, n)
  <2>1. ASSUME NEW p \in 1..n
        PROVE  Fits(c[p], g, p + 0, n)
    <3>1. Fits(c[p], h, p, n) /\ n >= n + 0 /\ 0 \in Nat
      BY <1>3, <1>4
    <3>2. QED
      BY <1>3, <1>4, <1>5, <3>1, FitsMoved
  <2>2. QED
    BY <1>4, <2>1
<1>7. Lifts(c, g, a + r, b + r)
  BY <1>5, <1>6 DEF Lifts, n
<1>8. QED
  BY <1>1, <1>7 DEF Raises

(* Heights of two pieces, the second behind the first. *)
Joined(h, n, g, m) == [i \in 1..(n + m + 1) |-> IF i <= n + 1 THEN h[i] ELSE g[i - n]]

LEMMA JoinedIs ==
  ASSUME NEW n \in Nat, NEW m \in Nat, NEW h \in [1..(n + 1) -> Nat], NEW g \in [1..(m + 1) -> Nat],
         h[n + 1] = g[1]
  PROVE  /\ Joined(h, n, g, m) \in [1..(n + m + 1) -> Nat]
         /\ \A i \in 1..(n + 1) : Joined(h, n, g, m)[i] = h[i]
         /\ \A i \in 1..(m + 1) : Joined(h, n, g, m)[i + n] = g[i]
BY DEF Joined

LEMMA ConcatLifts ==
  ASSUME NEW c, IsSeq(c), NEW d, IsSeq(d), NEW from, NEW mid, NEW to,
         NEW h, Lifts(c, h, from, mid), NEW g, Lifts(d, g, mid, to)
  PROVE  Lifts(c \o d, Joined(h, Len(c), g, Len(d)), from, to)
<1>1. Len(c) \in Nat /\ Len(d) \in Nat
  BY LenIsNat
<1> DEFINE n == Len(c)
           m == Len(d)
           x == c \o d
           j == Joined(h, n, g, m)
<1>4. IsSeq(x) /\ Len(x) = n + m /\ \A i \in 1..(n + m) : x[i] = IF i <= n THEN c[i] ELSE d[i - n]
  BY <1>1, ConcatIs
<1>5. h \in [1..(n + 1) -> Nat] /\ h[1] = from /\ h[n + 1] = mid /\ \A p \in 1..n : Fits(c[p], h, p, n)
  BY DEF Lifts
<1>6. g \in [1..(m + 1) -> Nat] /\ g[1] = mid /\ g[m + 1] = to /\ \A p \in 1..m : Fits(d[p], g, p, m)
  BY DEF Lifts
<1>7. n \in Nat /\ m \in Nat
  BY <1>1
<1> HIDE DEF n, m, x
<1>8. /\ j \in [1..(n + m + 1) -> Nat]
      /\ \A i \in 1..(n + 1) : j[i] = h[i]
      /\ \A i \in 1..(m + 1) : j[i + n] = g[i]
  <2>1. h[n + 1] = g[1]
    BY <1>5, <1>6
  <2>2. QED
    BY <1>5, <1>6, <1>7, <2>1, JoinedIs
<1> HIDE DEF j
<1>9. j[1] = from /\ j[n + m + 1] = to
  <2>1. 1 \in 1..(n + 1) /\ m + 1 \in 1..(m + 1) /\ (m + 1) + n = n + m + 1
    BY <1>7
  <2>2. QED
    BY <1>5, <1>6, <1>8, <2>1
<1>10. ASSUME NEW p \in 1..(n + m)
       PROVE  Fits(x[p], j, p, n + m)
  <2>1. CASE p <= n
    <3>1. p \in 1..n /\ x[p] = c[p] /\ n + m >= n + 0 /\ p + 0 = p
      BY <1>4, <1>7, <2>1
    <3>2. \A i \in 1..(n + 1) : j[i + 0] = h[i] + 0
      BY <1>5, <1>7, <1>8
    <3>3. n + m \in Nat /\ Fits(c[p], h, p, n)
      BY <1>5, <1>7, <3>1
    <3>4. Fits(c[p], j, p + 0, n + m)
      BY <1>5, <1>7, <3>1, <3>2, <3>3, FitsMoved
    <3>5. QED
      BY <3>1, <3>4
  <2>2. CASE p > n
    <3>1. p - n \in 1..m /\ x[p] = d[p - n] /\ n + m >= m + n /\ (p - n) + n = p
      BY <1>4, <1>7, <2>2
    <3>2. \A i \in 1..(m + 1) : j[i + n] = g[i] + 0
      BY <1>6, <1>7, <1>8
    <3>3. n + m \in Nat /\ Fits(d[p - n], g, p - n, m)
      BY <1>6, <1>7, <3>1
    <3>4. Fits(d[p - n], j, (p - n) + n, n + m)
      BY <1>6, <1>7, <3>1, <3>2, <3>3, FitsMoved
    <3>5. QED
      BY <3>1, <3>4
  <2>3. QED
    BY <1>7, <2>1, <2>2
<1>11. Lifts(x, j, from, to)
  BY <1>4, <1>7, <1>8, <1>9, <1>10 DEF Lifts
<1>12. QED
  BY <1>11 DEF x, j, n, m

LEMMA Concat ==
  ASSUME NEW c, NEW d, NEW from, NEW mid, NEW to, Raises(c, from, mid), Raises(d, mid, to)
  PROVE  Raises(c \o d, from, to)
<1>1. PICK h : Lifts(c, h, from, mid)
  BY DEF Raises
<1>2. PICK g : Lifts(d, g, mid, to)
  BY DEF Raises
<1>3. IsSeq(c) /\ IsSeq(d)
  BY DEF Raises
<1>4. Lifts(c \o d, Joined(h, Len(c), g, Len(d)), from, to)
  BY <1>1, <1>2, <1>3, ConcatLifts
<1>5. QED
  BY <1>3, <1>4, ConcatIs DEF Raises

(* One action that goes on with the next. *)
LEMMA Single ==
  ASSUME NEW a, Known(a), a.op \in Plain
  PROVE  Raises(<<a>>, Needs(a), 1)
<1> DEFINE k == Needs(a)
           h == [i \in 1..2 |-> IF i = 1 THEN k ELSE 1]
<1>1. k \in Nat
  BY NeedsIsNat
<1> HIDE DEF k
<1>2. h \in [1..2 -> Nat] /\ h[1] = k /\ h[2] = 1
  BY <1>1
<1> HIDE DEF h
<1>3. \A go, left : Exit(a, go, left) => go = 1 /\ left = 1
  BY DEF Exit, Plain, One, Two, Bessel, Logicals
<1>4. Fits(a, h, 1, 1)
  BY <1>1, <1>2, <1>3 DEF Fits, k
<1>5. Lifts(<<a>>, h, k, 1)
  <2>1. Len(<<a>>) = 1 /\ <<a>>[1] = a
    BY SingleIs
  <2> DEFINE c == <<a>>
  <2> HIDE DEF c
  <2>2. Len(c) = 1 /\ c[1] = a
    BY <2>1 DEF c
  <2>3. Lifts(c, h, k, 1)
    BY <1>2, <1>4, <2>2 DEF Lifts
  <2>4. QED
    BY <2>3 DEF c
<1>6. QED
  BY <1>5, SingleIs DEF Raises, k

(* One action, at the height from, before a piece that begins at mid. *)
Before(from, mid, g, m) == Joined([i \in 1..2 |-> IF i = 1 THEN from ELSE mid], 1, g, m)

LEMMA BeforeIs ==
  ASSUME NEW from \in Nat, NEW m \in Nat, NEW g \in [1..(m + 1) -> Nat]
  PROVE  /\ Before(from, g[1], g, m) \in [1..(m + 2) -> Nat]
         /\ Before(from, g[1], g, m)[1] = from
         /\ \A i \in 1..(m + 1) : Before(from, g[1], g, m)[i + 1] = g[i]
<1> DEFINE h == [i \in 1..2 |-> IF i = 1 THEN from ELSE g[1]]
<1>1. h \in [1..(1 + 1) -> Nat] /\ h[1] = from /\ h[1 + 1] = g[1]
  OBVIOUS
<1>2. Before(from, g[1], g, m) = Joined(h, 1, g, m)
  BY DEF Before
<1> HIDE DEF h
<1>3. /\ Joined(h, 1, g, m) \in [1..(1 + m + 1) -> Nat]
      /\ \A i \in 1..(1 + 1) : Joined(h, 1, g, m)[i] = h[i]
      /\ \A i \in 1..(m + 1) : Joined(h, 1, g, m)[i + 1] = g[i]
  BY <1>1, 1 \in Nat, JoinedIs, ZenonT(60)
<1>4. 1 + m + 1 = m + 2
  OBVIOUS
<1>5. QED
  BY <1>1, <1>2, <1>3, <1>4

LEMMA BeforeLifts ==
  ASSUME NEW a, NEW c, IsSeq(c), NEW from \in Nat, NEW mid, NEW to,
         NEW g, Lifts(c, g, mid, to), Fits(a, Before(from, mid, g, Len(c)), 1, Len(c) + 1)
  PROVE  /\ IsSeq(<<a>> \o c) /\ Len(<<a>> \o c) = Len(c) + 1
         /\ Lifts(<<a>> \o c, Before(from, mid, g, Len(c)), from, to)
<1> DEFINE m == Len(c)
           x == <<a>> \o c
           j == Before(from, mid, g, m)
<1>1. m \in Nat
  BY LenIsNat
<1>2. IsSeq(x) /\ Len(x) = 1 + m /\ \A i \in 1..(1 + m) : x[i] = IF i <= 1 THEN <<a>>[i] ELSE c[i - 1]
  BY SingleIs, ConcatIs
<1>3. g \in [1..(m + 1) -> Nat] /\ g[1] = mid /\ g[m + 1] = to /\ \A p \in 1..m : Fits(c[p], g, p, m)
  BY DEF Lifts
<1>4. Fits(a, j, 1, m + 1)
  OBVIOUS
<1>5. <<a>>[1] = a
  OBVIOUS
<1> HIDE DEF m, x
<1>6. j \in [1..(m + 2) -> Nat] /\ j[1] = from /\ \A i \in 1..(m + 1) : j[i + 1] = g[i]
  <2>1. j = Before(from, g[1], g, m)
    BY <1>3
  <2> HIDE DEF j
  <2>2. QED
    BY <1>1, <1>3, <2>1, BeforeIs, ZenonT(60)
<1> HIDE DEF j
<1>7. Len(x) = m + 1 /\ Len(x) + 1 = m + 2 /\ x[1] = a /\ \A p \in 1..m : x[p + 1] = c[p]
  BY <1>1, <1>2, <1>5
<1>8. j[m + 2] = to
  <2>1. m + 1 \in 1..(m + 1) /\ (m + 1) + 1 = m + 2
    BY <1>1
  <2>2. QED
    BY <1>3, <1>6, <2>1
<1>9. ASSUME NEW p \in 1..(m + 1)
      PROVE  Fits(x[p], j, p, m + 1)
  <2>1. CASE p = 1
    BY <1>4, <1>7, <2>1
  <2>2. CASE p # 1
    <3>1. p - 1 \in 1..m /\ (p - 1) + 1 = p /\ x[p] = c[p - 1] /\ m + 1 >= m + 1 /\ m + 1 \in Nat
      BY <1>1, <1>2, <2>2
    <3>2. \A i \in 1..(m + 1) : j[i + 1] = g[i] + 0
      BY <1>3, <1>6
    <3>3. Fits(c[p - 1], g, p - 1, m)
      BY <1>3, <3>1
    <3>4. Fits(c[p - 1], j, (p - 1) + 1, m + 1)
      BY <1>1, <1>3, <3>1, <3>2, <3>3, FitsMoved
    <3>5. QED
      BY <3>1, <3>4
  <2>3. QED
    BY <2>1, <2>2
<1>10. Lifts(x, j, from, to)
  BY <1>6, <1>7, <1>8, <1>9 DEF Lifts
<1>11. QED
  BY <1>2, <1>7, <1>10 DEF x, j, m

(* The jumps, as the actions of a layout. *)
LEMMA JumpIs ==
  ASSUME NEW op \in JumpOps, NEW j \in Nat, NEW a, a = [op |-> op, j_arg |-> j]
  PROVE  /\ Known(a) /\ a.op = op /\ a.j_arg = j
         /\ Needs(a) = IF op = "jump" THEN 0 ELSE 1
         /\ \A go, left : Exit(a, go, left) =>
              \/ op = "jump" /\ go = j /\ left = 0
              \/ op \in {"jumpz", "jumpnz"} /\ ((go = 1 /\ left = 0) \/ (go = j /\ left = 1))
              \/ op = "jtern" /\ go \in {1, j} /\ left = 0
<1>1. a.op = op /\ a.j_arg = j
  OBVIOUS
<1>2. op \notin Plain /\ op # "call"
  BY DEF JumpOps, Plain, One, Two, Bessel, Logicals
<1>3. Takes(op) = 0
  BY DEF JumpOps, Takes, One, Two, Bessel, Logicals
<1>4. Needs(a) = IF op = "jump" THEN 0 ELSE 1
  BY <1>1, <1>2, <1>3 DEF Needs, JumpOps
<1>5. QED
  BY <1>1, <1>2, <1>4 DEF Known, Exit

(* The second operand of && and ||, behind the first. *)
LEMMA UnlessRaises ==
  ASSUME NEW op \in {"jumpz", "jumpnz"}, NEW c, Balanced(c)
  PROVE  Raises(Unless(op, c), 1, 1)
<1>1. IsSeq(c) /\ Len(c) \in Nat
  BY LenIsNat DEF Balanced, Raises
<1>2. PICK g : Lifts(c, g, 0, 1)
  BY DEF Balanced, Raises
<1> DEFINE m == Len(c)
           a == [op |-> op, j_arg |-> m + 1]
           j == Before(1, 0, g, m)
<1>3. g \in [1..(m + 1) -> Nat] /\ g[1] = 0 /\ g[m + 1] = 1
  BY <1>2 DEF Lifts
<1>4. Unless(op, c) = <<a>> \o c
  BY DEF Unless, Jump
<1>5. Known(a) /\ Needs(a) = 1
      /\ \A go, left : Exit(a, go, left) => (go = 1 /\ left = 0) \/ (go = m + 1 /\ left = 1)
  <2>1. op \in JumpOps /\ op # "jump" /\ op # "jtern" /\ m + 1 \in Nat
    BY <1>1 DEF JumpOps
  <2> HIDE DEF m
  <2>2. QED
    BY <2>1, JumpIs
<1>6. m \in Nat
  BY <1>1
<1> HIDE DEF m, a
<1>7. j[1] = 1 /\ \A i \in 1..(m + 1) : j[i + 1] = g[i]
  <2>1. j = Before(1, g[1], g, m)
    BY <1>3
  <2> HIDE DEF j
  <2>2. QED
    BY <1>3, <1>6, <2>1, BeforeIs, ZenonT(60)
<1> HIDE DEF j
<1>8. j[2] = 0 /\ j[m + 2] = 1
  <2>1. 1 \in 1..(m + 1) /\ 1 + 1 = 2 /\ m + 1 \in 1..(m + 1) /\ (m + 1) + 1 = m + 2
    BY <1>6
  <2>2. QED
    BY <1>3, <1>7, <2>1
<1>9. Fits(a, j, 1, m + 1)
  <2>1. ASSUME NEW go \in Nat, NEW left \in Nat, Exit(a, go, left)
        PROVE  1 + go <= (m + 1) + 1 /\ j[1 + go] = j[1] - Needs(a) + left
    <3>1. CASE go = 1 /\ left = 0
      BY <1>5, <1>6, <1>7, <1>8, <3>1
    <3>2. CASE go = m + 1 /\ left = 1
      <4>1. 1 + go = m + 2
        BY <1>6, <3>2
      <4>2. QED
        BY <1>5, <1>6, <1>7, <1>8, <3>2, <4>1
    <3>3. QED
      BY <1>5, <2>1, <3>1, <3>2
  <2>2. QED
    BY <1>5, <1>7, <2>1 DEF Fits
<1>10. IsSeq(<<a>> \o c) /\ Lifts(<<a>> \o c, j, 1, 1)
  BY <1>1, <1>2, <1>9, BeforeLifts DEF j, m
<1>11. QED
  BY <1>4, <1>10 DEF Raises

(* The arms of ?:, behind the condition: the jump over the second one takes   *)
(* the value of the first along.                                            *)
LEMMA ArmsRaise ==
  ASSUME NEW c, NEW d, Balanced(c), Balanced(d)
  PROVE  Raises(Arms(c, d), 1, 1)
<1>1. IsSeq(c) /\ Len(c) \in Nat /\ IsSeq(d) /\ Len(d) \in Nat
  BY LenIsNat DEF Balanced, Raises
<1>2. PICK h : Lifts(c, h, 0, 1)
  BY DEF Balanced, Raises
<1>3. PICK g : Lifts(d, g, 0, 1)
  BY DEF Balanced, Raises
<1> DEFINE n == Len(c)
           m == Len(d)
           a == [op |-> "jtern", j_arg |-> n + 2]
           b == [op |-> "jump", j_arg |-> m + 1]
           y == <<b>> \o d
           x == c \o y
           jy == Before(1, 0, g, m)
           jx == Joined(h, n, jy, m + 1)
           j == Before(1, 0, jx, n + m + 1)
<1>4. Arms(c, d) = <<a>> \o x
  BY DEF Arms, Jump
<1>5. n \in Nat /\ m \in Nat
  BY <1>1
<1>6. h \in [1..(n + 1) -> Nat] /\ h[1] = 0 /\ h[n + 1] = 1
  BY <1>2 DEF Lifts
<1>7. g \in [1..(m + 1) -> Nat] /\ g[1] = 0 /\ g[m + 1] = 1
  BY <1>3 DEF Lifts
<1>8. Known(b) /\ Needs(b) = 0 /\ \A go, left : Exit(b, go, left) => go = m + 1 /\ left = 0
  <2>1. "jump" \in JumpOps /\ m + 1 \in Nat
    BY <1>5 DEF JumpOps
  <2> HIDE DEF m
  <2>2. QED
    BY <2>1, JumpIs
<1>9. Known(a) /\ Needs(a) = 1
      /\ \A go, left : Exit(a, go, left) => (go = 1 \/ go = n + 2) /\ left = 0
  <2>1. "jtern" \in JumpOps /\ n + 2 \in Nat
    BY <1>5 DEF JumpOps
  <2> HIDE DEF n
  <2>2. QED
    BY <2>1, JumpIs
<1> HIDE DEF n, m, a, b
<1>10. jy \in [1..(m + 2) -> Nat] /\ jy[1] = 1 /\ \A i \in 1..(m + 1) : jy[i + 1] = g[i]
  <2>1. jy = Before(1, g[1], g, m)
    BY <1>7
  <2> HIDE DEF jy
  <2>2. QED
    BY 1 \in Nat, <1>5, <1>7, <2>1, BeforeIs, ZenonT(60)
<1> HIDE DEF jy
<1>11. jy[2] = 0 /\ jy[m + 2] = 1
  <2>1. 1 \in 1..(m + 1) /\ 1 + 1 = 2 /\ m + 1 \in 1..(m + 1) /\ (m + 1) + 1 = m + 2
    BY <1>5
  <2>2. QED
    BY <1>7, <1>10, <2>1
<1>12. IsSeq(y) /\ Len(y) = m + 1 /\ Lifts(y, jy, 1, 1)
  <2>1. Fits(b, jy, 1, m + 1)
    <3>1. 1 + (m + 1) = m + 2 /\ 1 + (m + 1) <= (m + 1) + 1
      BY <1>5
    <3>2. QED
      BY <1>8, <1>10, <1>11, <3>1 DEF Fits
  <2>2. QED
    BY <1>1, <1>3, <2>1, BeforeLifts DEF jy, m
<1> HIDE DEF y
<1>13. IsSeq(x) /\ Len(x) = n + m + 1
  <2>1. IsSeq(x) /\ Len(x) = Len(c) + Len(y)
    BY <1>1, <1>12, ConcatIs
  <2> HIDE DEF x
  <2>2. QED
    BY <1>5, <1>12, <2>1 DEF n
<1>14. Lifts(x, jx, 0, 1)
  BY <1>1, <1>2, <1>12, ConcatLifts DEF n
<1>15. jx \in [1..(n + m + 2) -> Nat] /\ jx[1] = 0 /\ jx[n + 2] = 0
  <2>1. /\ jx \in [1..(n + (m + 1) + 1) -> Nat]
        /\ \A i \in 1..(n + 1) : jx[i] = h[i]
        /\ \A i \in 1..((m + 1) + 1) : jx[i + n] = jy[i]
    <3>1. m + 1 \in Nat /\ jy \in [1..((m + 1) + 1) -> Nat] /\ h[n + 1] = jy[1]
      BY <1>5, <1>6, <1>10
    <3>2. QED
      BY <1>5, <1>6, <3>1, JoinedIs, ZenonT(60)
  <2>2. 1 \in 1..(n + 1) /\ 2 \in 1..((m + 1) + 1) /\ 2 + n = n + 2 /\ n + (m + 1) + 1 = n + m + 2
    BY <1>5
  <2> HIDE DEF jx
  <2>3. QED
    BY <1>6, <1>11, <2>1, <2>2
<1> HIDE DEF x, jx
<1>16. j[1] = 1 /\ \A i \in 1..(n + m + 2) : j[i + 1] = jx[i]
  <2> DEFINE l == n + m + 1
  <2>1. l \in Nat /\ l + 1 = n + m + 2
    BY <1>5
  <2>2. j = Before(1, jx[1], jx, l)
    BY <1>15
  <2> HIDE DEF j, l
  <2>3. jx \in [1..(l + 1) -> Nat]
    BY <1>15, <2>1
  <2>4. j[1] = 1 /\ \A i \in 1..(l + 1) : j[i + 1] = jx[i]
    BY <2>1, <2>2, <2>3, BeforeIs, ZenonT(60)
  <2>5. QED
    BY <2>1, <2>4
<1> HIDE DEF j
<1>17. j[2] = 0 /\ j[n + 3] = 0
  <2>1. 1 \in 1..(n + m + 2) /\ 1 + 1 = 2 /\ n + 2 \in 1..(n + m + 2) /\ (n + 2) + 1 = n + 3
    BY <1>5
  <2>2. QED
    BY <1>15, <1>16, <2>1
<1>18. Fits(a, j, 1, (n + m + 1) + 1)
  <2>1. ASSUME NEW go \in Nat, NEW left \in Nat, Exit(a, go, left)
        PROVE  1 + go <= ((n + m + 1) + 1) + 1 /\ j[1 + go] = j[1] - Needs(a) + left
    <3>1. CASE go = 1
      BY <1>5, <1>9, <1>16, <1>17, <2>1, <3>1
    <3>2. CASE go = n + 2
      <4>1. 1 + go = n + 3
        BY <1>5, <3>2
      <4>2. QED
        BY <1>5, <1>9, <1>16, <1>17, <2>1, <4>1
    <3>3. QED
      BY <1>9, <2>1, <3>1, <3>2
  <2>2. QED
    BY <1>9, <1>16, <2>1 DEF Fits
<1>19. IsSeq(<<a>> \o x) /\ Lifts(<<a>> \o x, j, 1, 1)
  BY <1>13, <1>14, <1>18, BeforeLifts DEF j
<1>20. QED
  BY <1>4, <1>19 DEF Raises

(* What FlattenSeq computes: the pieces one after the other. *)
LEMMA FlattenIs ==
  ASSUME NEW s, NEW n \in 1..4, Len(s) = n
  PROVE  \E f : /\ Seqs!FlattenSeq(s) = f[n] /\ f[1] = s[1]
                /\ \A i \in 2..n : f[i] = f[i - 1] \o s[i]
<1> DEFINE two == s[1] \o s[2]
           three == two \o s[3]
           g == [i \in 1..n |-> IF i = 1 THEN s[1] ELSE IF i = 2 THEN two ELSE IF i = 3 THEN three
                                ELSE three \o s[4]]
           fl == CHOOSE f : f = [i \in 1..n |-> IF i = 1 THEN s[i] ELSE f[i - 1] \o s[i]]
<1>1. n \in {1, 2, 3, 4}
  OBVIOUS
<1>2. \A i \in 1..n : g[i] = IF i = 1 THEN s[1] ELSE IF i = 2 THEN two ELSE IF i = 3 THEN three
                             ELSE three \o s[4]
  OBVIOUS
<1>3. g = [i \in 1..n |-> IF i = 1 THEN s[i] ELSE g[i - 1] \o s[i]]
  <2>1. ASSUME NEW i \in 1..n
        PROVE  g[i] = IF i = 1 THEN s[i] ELSE g[i - 1] \o s[i]
    <3> HIDE DEF g
    <3>1. CASE i = 1
      BY <1>2, <3>1
    <3>2. CASE i # 1
      <4>1. i - 1 \in 1..n /\ i \in {2, 3, 4}
        BY <1>1, <3>2
      <4>2. two = s[1] \o s[2] /\ three = two \o s[3]
        OBVIOUS
      <4> HIDE DEF two, three
      <4>3. CASE i = 2
        <5>1. i - 1 = 1 /\ g[i] = two /\ g[1] = s[1]
          BY <1>2, <4>1, <4>3
        <5>2. QED
          BY <4>2, <4>3, <5>1, Zenon
      <4>4. CASE i = 3
        <5>1. i - 1 = 2 /\ g[i] = three /\ g[2] = two /\ i # 1
          BY <1>2, <4>1, <4>4
        <5>2. QED
          BY <4>2, <4>4, <5>1, Zenon
      <4>5. CASE i = 4
        <5>1. i - 1 = 3 /\ 3 \in 1..n /\ i # 1 /\ i # 2 /\ i # 3 /\ 3 # 1 /\ 3 # 2
          BY <4>1, <4>5
        <5>2. g[3] = three
          BY <1>2, <5>1, Zenon
        <5>3. g[i] = three \o s[4]
          BY <1>2, <5>1, Zenon
        <5>4. QED
          BY <4>5, <5>1, <5>2, <5>3, Zenon
      <4>6. QED
        BY <4>1, <4>3, <4>4, <4>5
    <3>3. QED
      BY <3>1, <3>2
  <2>2. g = [i \in 1..n |-> g[i]]
    OBVIOUS
  <2> HIDE DEF g
  <2>3. QED
    BY <2>1, <2>2
<1> HIDE DEF g
<1>4. fl = [i \in 1..n |-> IF i = 1 THEN s[i] ELSE fl[i - 1] \o s[i]]
  BY <1>3, Zenon
<1>5. Seqs!FlattenSeq(s) = fl[n]
  <2>1. Len(s) # 0
    BY <1>1
  <2>2. QED
    BY <2>1, Zenon DEF Seqs!FlattenSeq
<1> HIDE DEF fl
<1>6. fl[1] = s[1] /\ \A i \in 2..n : fl[i] = fl[i - 1] \o s[i]
  <2>1. \A i \in 1..n : fl[i] = IF i = 1 THEN s[i] ELSE fl[i - 1] \o s[i]
    BY <1>4
  <2>2. 1 \in 1..n /\ \A i \in 2..n : i \in 1..n /\ i # 1
    OBVIOUS
  <2>3. fl[1] = s[1]
    BY <2>1, <2>2, Zenon
  <2>4. ASSUME NEW i \in 2..n
        PROVE  fl[i] = fl[i - 1] \o s[i]
    BY <2>1, <2>2, Zenon
  <2>5. QED
    BY <2>3, <2>4
<1>7. QED
  BY <1>5, <1>6

LEMMA EmptyRaises == Raises(<<>>, 0, 0)
<1> DEFINE c == <<>>
           h == [i \in 1..1 |-> 0]
<1>1. IsSeq(c) /\ Len(c) = 0
  BY EmptyIs
<1> HIDE DEF c
<1>2. h \in [1..(0 + 1) -> Nat] /\ h[1] = 0 /\ h[0 + 1] = 0
  OBVIOUS
<1> HIDE DEF h
<1>3. Lifts(c, h, 0, 0)
  BY <1>1, <1>2 DEF Lifts
<1>4. QED
  BY <1>1, <1>3 DEF Raises, c

(* The operands, one after the other. *)
LEMMA FlattenRaises ==
  ASSUME NEW s, IsSeq(s), NEW n \in 0..4, Len(s) = n, \A i \in 1..n : Balanced(s[i])
  PROVE  Raises(Seqs!FlattenSeq(s), 0, n)
<1>1. CASE n = 0
  <2>1. Seqs!FlattenSeq(s) = s
    BY <1>1, Zenon DEF Seqs!FlattenSeq
  <2>2. s = <<>>
    BY <1>1, EmptyOnly
  <2>3. QED
    BY <1>1, <2>1, <2>2, EmptyRaises
<1>2. CASE n # 0
  <2>1. n \in 1..4
    BY <1>2
  <2>2. PICK f : /\ Seqs!FlattenSeq(s) = f[n] /\ f[1] = s[1]
                 /\ \A i \in 2..n : f[i] = f[i - 1] \o s[i]
    BY <2>1, FlattenIs
  <2>3. Raises(f[1], 0, 1)
    BY <2>1, <2>2 DEF Balanced
  <2>4. ASSUME NEW i \in 2..n, Raises(f[i - 1], 0, i - 1)
        PROVE  Raises(f[i], 0, i)
    <3>1. Raises(s[i], 0, 1) /\ i - 1 \in Nat /\ 0 \in Nat /\ 1 \in Nat
      BY DEF Balanced
    <3>2. Raises(s[i], 0 + (i - 1), 1 + (i - 1))
      BY <3>1, Raise
    <3>3. 0 + (i - 1) = i - 1 /\ 1 + (i - 1) = i
      OBVIOUS
    <3>4. Raises(s[i], i - 1, i)
      BY <3>2, <3>3
    <3>5. Raises(f[i - 1] \o s[i], 0, i)
      BY <2>4, <3>4, Concat
    <3>6. QED
      BY <2>2, <3>5
  <2>5. n >= 2 => Raises(f[2], 0, 2)
    BY <2>3, <2>4
  <2>6. n >= 3 => Raises(f[3], 0, 3)
    BY <2>4, <2>5
  <2>7. n >= 4 => Raises(f[4], 0, 4)
    BY <2>4, <2>6
  <2>8. n = 1 \/ n = 2 \/ n = 3 \/ n = 4
    BY <2>1
  <2>9. QED
    BY <2>2, <2>3, <2>5, <2>6, <2>7, <2>8
<1>3. QED
  BY <1>1, <1>2

LEMMA NotLonger ==
  ASSUME NEW a \in Nat, NEW b \in Nat, NEW c \in Nat, NEW d, d = b + c, a <= b
  PROVE  a <= d
OBVIOUS

LEMMA FlattenLonger ==
  ASSUME NEW s, IsSeq(s), NEW n \in 0..4, Len(s) = n, \A i \in 1..n : IsSeq(s[i])
  PROVE  IsSeq(Seqs!FlattenSeq(s)) /\ \A i \in 1..n : Len(s[i]) <= Len(Seqs!FlattenSeq(s))
<1>1. CASE n = 0
  <2>1. Seqs!FlattenSeq(s) = s
    BY <1>1, Zenon DEF Seqs!FlattenSeq
  <2>2. QED
    BY <1>1, <2>1
<1>2. CASE n # 0
  <2>1. n \in 1..4
    BY <1>2
  <2>2. PICK f : /\ Seqs!FlattenSeq(s) = f[n] /\ f[1] = s[1]
                 /\ \A i \in 2..n : f[i] = f[i - 1] \o s[i]
    BY <2>1, FlattenIs
  <2> DEFINE Longer(k) == IsSeq(f[k]) /\ \A i \in 1..k : Len(s[i]) <= Len(f[k])
  <2>3. Longer(1)
    <3>1. IsSeq(s[1]) /\ Len(s[1]) \in Nat
      BY <2>1, LenIsNat
    <3>2. QED
      BY <2>2, <3>1
  <2>4. ASSUME NEW k \in 2..n, Longer(k - 1)
        PROVE  Longer(k)
    <3>1. IsSeq(s[k]) /\ IsSeq(f[k - 1])
      BY <2>4
    <3>2. IsSeq(f[k]) /\ Len(f[k]) = Len(f[k - 1]) + Len(s[k])
      <4>1. f[k] = f[k - 1] \o s[k]
        BY <2>2
      <4>2. IsSeq(f[k - 1] \o s[k]) /\ Len(f[k - 1] \o s[k]) = Len(f[k - 1]) + Len(s[k])
        BY <3>1, ConcatIs, Zenon
      <4>3. QED
        BY <4>1, <4>2, Zenon
    <3>3. Len(s[k]) \in Nat /\ Len(f[k - 1]) \in Nat
      BY <3>1, LenIsNat
    <3>4. ASSUME NEW i \in 1..k
          PROVE  Len(s[i]) <= Len(f[k])
      <4>1. CASE i = k
        BY <3>2, <3>3, <4>1
      <4>2. CASE i # k
        <5>1. i \in 1..(k - 1) /\ i \in 1..n
          BY <4>2
        <5>2. IsSeq(s[i])
          BY <5>1
        <5>3. Len(s[i]) \in Nat
          BY <5>2, LenIsNat
        <5>4. Len(s[i]) <= Len(f[k - 1])
          BY <2>4, <5>1
        <5>5. QED
          BY ONLY <3>2, <3>3, <5>3, <5>4, NotLonger, Zenon
      <4>3. QED
        BY <4>1, <4>2
    <3>5. QED
      BY <3>2, <3>4
  <2> HIDE DEF Longer
  <2>5. n >= 2 => Longer(2)
    BY <2>3, <2>4
  <2>6. n >= 3 => Longer(3)
    BY <2>4, <2>5
  <2>7. n >= 4 => Longer(4)
    BY <2>4, <2>6
  <2>8. Longer(n)
    <3>1. n = 1 \/ n = 2 \/ n = 3 \/ n = 4
      BY <2>1
    <3>2. QED
      BY <2>3, <2>5, <2>6, <2>7, <3>1
  <2>9. QED
    BY <2>2, <2>8 DEF Longer
<1>3. QED
  BY <1>1, <1>2

-----------------------------------------------------------------------------
(***************************************************************************)
(* Every layout is balanced.                                               *)
(***************************************************************************)

Eager == One \cup Bessel \cup Two \cup {"rand"}
Simple == {"const", "var", "dummy"}

LEMMA OperationsAre ==
  ASSUME NEW op \in Operations
  PROVE  op \in Simple \/ op \in Eager \/ op \in {"call", "and", "or", "cond"}
BY DEF Operations, Leaf, Simple, Eager

LEMMA EagerAre ==
  ASSUME NEW op \in Eager
  PROVE  op \in Plain /\ op \notin Simple /\ op \notin {"call", "and", "or", "cond"} /\ op \notin JumpOps
BY DEF Eager, Simple, Plain, One, Bessel, Two, Logicals, JumpOps

(* The action of an operator takes its operands. *)
LEMMA TakesArity ==
  ASSUME NEW e, e.op \in Eager
  PROVE  Arity(e) = Takes(e.op) /\ Takes(e.op) \in 0..2
<1>1. CASE e.op = "rand"
  BY <1>1 DEF Arity, Takes, Leaf, One, Bessel, Two, Logicals
<1>2. CASE e.op \in One \cup Bessel
  <2>1. e.op \notin Two \cup {"and", "or"} /\ e.op \notin Leaf /\ e.op # "cond" /\ e.op # "call"
    BY <1>2 DEF Leaf, One, Bessel, Two, Logicals
  <2>2. Arity(e) = 1 /\ Takes(e.op) = 1
    BY <1>2, <2>1 DEF Arity, Takes
  <2>3. QED
    BY <2>2
<1>3. CASE e.op \in Two
  <2>1. e.op \notin One \cup Bessel /\ e.op \notin Leaf /\ e.op # "cond" /\ e.op # "call"
    BY <1>3 DEF Leaf, One, Bessel, Two, Logicals
  <2>2. Arity(e) = 2 /\ Takes(e.op) = 2
    BY <1>3, <2>1 DEF Arity, Takes
  <2>3. QED
    BY <2>2
<1>4. QED
  BY <1>1, <1>2, <1>3 DEF Eager

LEMMA ArityIs ==
  ASSUME NEW e \in Expr
  PROVE  /\ e.op \in Operations /\ IsSeq(e.args) /\ Len(e.args) = Arity(e) /\ Arity(e) \in 0..4
         /\ \A i \in 1..Len(e.args) : e.args[i] \in Expr
         /\ e.op = "call" => e.fn \in DOMAIN Udf /\ Arity(e) = Udf[e.fn].n_arg
         /\ e.op \in {"and", "or"} => Arity(e) = 2
         /\ e.op = "cond" => Arity(e) = 3
<1>1. Parsed(e, Expr)
  BY PlotStackAssumption
<1>2. e.op \in Operations /\ e.args \in Seq(Expr) /\ Len(e.args) = Arity(e)
      /\ (e.op = "call" => e.fn \in DOMAIN Udf)
  BY <1>1 DEF Parsed
<1>3. e.op \in Simple => Arity(e) = 0
  BY DEF Simple, Arity, Leaf, One, Bessel, Two, Logicals
<1>4. e.op = "call" => Arity(e) = Udf[e.fn].n_arg /\ Udf[e.fn].n_arg \in 1..4
  BY <1>2, PlotStackAssumption DEF Arity, Leaf, One, Bessel, Two, Logicals
<1>5. (e.op \in {"and", "or"} => Arity(e) = 2) /\ (e.op = "cond" => Arity(e) = 3)
  BY DEF Arity, Leaf, One, Bessel, Two, Logicals
<1>6. Arity(e) \in 0..4
  BY <1>2, <1>3, <1>4, <1>5, OperationsAre, TakesArity
<1>7. QED
  BY <1>2, <1>4, <1>5, <1>6, ElementOfSeq DEF IsSeq

(* c is the layout of e, whose operands are laid out as code. *)
Shape(c, e, code) ==
  /\ e.op \in Simple => \E a : c = <<a>> /\ a.op \in {"push", "pushc", "pushd"}
  /\ e.op = "call" => \E a : c = Seqs!FlattenSeq(code) \o <<a>> /\ a.op = "call" /\ a.fn = e.fn
  /\ e.op \in {"and", "or"} => \E a : \E op \in {"jumpz", "jumpnz"} :
        c = (code[1] \o Unless(op, code[2])) \o <<a>> /\ a.op = "bool"
  /\ e.op = "cond" => c = code[1] \o Arms(code[2], code[3])
  /\ e.op \in Eager => \E a : c = Seqs!FlattenSeq(code) \o <<a>> /\ a.op = e.op

LEMMA LaidIs ==
  ASSUME NEW e, NEW fn, NEW code
  PROVE  Shape(Laid(e, fn, code), e, code)
<1> USE DEF Laid
<1>1. ASSUME e.op = "const" PROVE Laid(e, fn, code) = <<[op |-> "pushc", val |-> e.val]>>
  BY <1>1
<1>2. ASSUME e.op = "var" PROVE Laid(e, fn, code) = <<[op |-> "push", name |-> e.name]>>
  BY <1>2
<1>3. ASSUME e.op = "dummy" PROVE Laid(e, fn, code) = <<[op |-> "pushd", i |-> e.i, fn |-> fn]>>
  BY <1>3
<1>4. ASSUME e.op = "call" PROVE Laid(e, fn, code) = Seqs!FlattenSeq(code) \o <<[op |-> "call", fn |-> e.fn]>>
  BY <1>4
<1>5. ASSUME e.op = "and" PROVE Laid(e, fn, code) = (code[1] \o Unless("jumpz", code[2])) \o <<[op |-> "bool"]>>
  BY <1>5 DEF Act
<1>6. ASSUME e.op = "or" PROVE Laid(e, fn, code) = (code[1] \o Unless("jumpnz", code[2])) \o <<[op |-> "bool"]>>
  BY <1>6 DEF Act
<1>7. ASSUME e.op = "cond" PROVE Laid(e, fn, code) = code[1] \o Arms(code[2], code[3])
  BY <1>7
<1>8. ASSUME e.op \in Eager PROVE Laid(e, fn, code) = Seqs!FlattenSeq(code) \o <<[op |-> e.op]>>
  <2>1. e.op \notin {"const", "var", "dummy", "call", "and", "or", "cond"}
    BY <1>8, EagerAre DEF Simple
  <2>2. QED
    BY <2>1 DEF Act
<1> HIDE DEF Laid
<1>9. ASSUME e.op \in Simple
      PROVE  \E a : Laid(e, fn, code) = <<a>> /\ a.op \in {"push", "pushc", "pushd"}
  <2>1. \A v, i, x : /\ [op |-> "pushc", val |-> v].op = "pushc" /\ [op |-> "push", name |-> x].op = "push"
                     /\ [op |-> "pushd", i |-> i, fn |-> x].op = "pushd"
    OBVIOUS
  <2>2. CASE e.op = "const"
    BY <1>1, <2>1, <2>2
  <2>3. CASE e.op = "var"
    BY <1>2, <2>1, <2>3
  <2>4. CASE e.op = "dummy"
    BY <1>3, <2>1, <2>4
  <2>5. QED
    BY <1>9, <2>2, <2>3, <2>4 DEF Simple
<1>10. ASSUME e.op = "call"
       PROVE  \E a : Laid(e, fn, code) = Seqs!FlattenSeq(code) \o <<a>> /\ a.op = "call" /\ a.fn = e.fn
  <2> DEFINE a == [op |-> "call", fn |-> e.fn]
  <2>1. a.op = "call" /\ a.fn = e.fn
    OBVIOUS
  <2>2. QED
    BY <1>4, <1>10, <2>1
<1>11. ASSUME e.op \in {"and", "or"}
       PROVE  \E a : \E op \in {"jumpz", "jumpnz"} :
                Laid(e, fn, code) = (code[1] \o Unless(op, code[2])) \o <<a>> /\ a.op = "bool"
  <2>1. [op |-> "bool"].op = "bool"
    OBVIOUS
  <2>2. CASE e.op = "and"
    BY <1>5, <2>1, <2>2
  <2>3. CASE e.op = "or"
    BY <1>6, <2>1, <2>3
  <2>4. QED
    BY <1>11, <2>2, <2>3
<1>12. ASSUME e.op \in Eager
       PROVE  \E a : Laid(e, fn, code) = Seqs!FlattenSeq(code) \o <<a>> /\ a.op = e.op
  <2>1. [op |-> e.op].op = e.op
    OBVIOUS
  <2>2. QED
    BY <1>8, <1>12, <2>1
<1>13. QED
  BY <1>7, <1>9, <1>10, <1>11, <1>12 DEF Shape

(* A layout is balanced if those of the operands are. *)
LEMMA LaidBalanced ==
  ASSUME NEW e \in Expr, NEW fn, NEW code, IsSeq(code), Len(code) = Len(e.args),
         \A i \in 1..Len(code) : Balanced(code[i])
  PROVE  Balanced(Laid(e, fn, code))
<1> DEFINE n == Arity(e)
           c == Laid(e, fn, code)
           flat == Seqs!FlattenSeq(code)
<1>1. /\ e.op \in Operations /\ Len(code) = n /\ n \in 0..4
      /\ e.op = "call" => e.fn \in DOMAIN Udf /\ n = Udf[e.fn].n_arg
      /\ e.op \in {"and", "or"} => n = 2
      /\ e.op = "cond" => n = 3
  BY ArityIs
<1>2. \A i \in 1..n : Balanced(code[i])
  BY <1>1
<1>0. Shape(c, e, code)
  BY LaidIs
<1> HIDE DEF n, c
<1>3. Raises(flat, 0, n)
  BY <1>1, <1>2, FlattenRaises
<1>4. CASE e.op \in Simple
  <2>1. PICK a : c = <<a>> /\ a.op \in {"push", "pushc", "pushd"}
    BY <1>0, <1>4 DEF Shape
  <2>2. Known(a) /\ a.op \in Plain
    BY <2>1 DEF Known, Plain, JumpOps
  <2>3. Needs(a) = 0
    BY <2>1 DEF Needs, Takes, One, Bessel, Two, Logicals
  <2>4. Raises(<<a>>, 0, 1)
    BY <2>2, <2>3, Single
  <2>5. QED
    BY <2>1, <2>4 DEF Balanced, c
<1>5. CASE e.op = "call"
  <2>1. PICK a : c = flat \o <<a>> /\ a.op = "call" /\ a.fn = e.fn
    BY <1>0, <1>5 DEF Shape
  <2>2. Known(a) /\ a.op \in Plain /\ Needs(a) = n
    BY <1>1, <1>5, <2>1 DEF Known, Plain, JumpOps, Needs
  <2>3. Raises(<<a>>, n, 1)
    BY <2>2, Single
  <2>4. Raises(flat \o <<a>>, 0, 1)
    BY <1>3, <2>3, Concat
  <2>5. QED
    BY <2>1, <2>4 DEF Balanced, c
<1>6. CASE e.op \in {"and", "or"}
  <2>0. \E a : \E op \in {"jumpz", "jumpnz"} :
           c = (code[1] \o Unless(op, code[2])) \o <<a>> /\ a.op = "bool"
    BY <1>0, <1>6 DEF Shape
  <2>1. PICK a : \E op \in {"jumpz", "jumpnz"} :
           c = (code[1] \o Unless(op, code[2])) \o <<a>> /\ a.op = "bool"
    BY <2>0
  <2>9. PICK op \in {"jumpz", "jumpnz"} : c = (code[1] \o Unless(op, code[2])) \o <<a>>
    BY <2>1
  <2>2. Known(a) /\ a.op \in Plain /\ Needs(a) = 1
    BY <2>1 DEF Known, Plain, JumpOps, Needs, Takes, One, Bessel, Two, Logicals
  <2>3. Raises(<<a>>, 1, 1)
    BY <2>2, Single
  <2>4. Balanced(code[1]) /\ Balanced(code[2])
    BY <1>1, <1>2, <1>6
  <2>5. Raises(Unless(op, code[2]), 1, 1)
    BY <2>4, UnlessRaises
  <2>6. Raises(code[1] \o Unless(op, code[2]), 0, 1)
    BY <2>4, <2>5, Concat DEF Balanced
  <2>7. Raises((code[1] \o Unless(op, code[2])) \o <<a>>, 0, 1)
    BY <2>3, <2>6, Concat
  <2>8. QED
    BY <2>7, <2>9 DEF Balanced, c
<1>7. CASE e.op = "cond"
  <2>1. Balanced(code[1]) /\ Balanced(code[2]) /\ Balanced(code[3])
    BY <1>1, <1>2, <1>7
  <2>2. Raises(Arms(code[2], code[3]), 1, 1)
    BY <2>1, ArmsRaise
  <2>3. Raises(code[1] \o Arms(code[2], code[3]), 0, 1)
    BY <2>1, <2>2, Concat DEF Balanced
  <2>4. c = code[1] \o Arms(code[2], code[3])
    BY <1>0, <1>7 DEF Shape
  <2>5. QED
    BY <2>3, <2>4 DEF Balanced, c
<1>8. CASE e.op \in Eager
  <2>1. PICK a : c = flat \o <<a>> /\ a.op = e.op
    BY <1>0, <1>8 DEF Shape
  <2>2. Known(a) /\ a.op \in Plain /\ Needs(a) = Takes(e.op)
    BY <1>8, <2>1, EagerAre DEF Known, Needs, JumpOps
  <2>3. Takes(e.op) = n
    BY <1>8, TakesArity DEF n
  <2>4. Raises(<<a>>, n, 1)
    BY <2>2, <2>3, Single
  <2>5. Raises(flat \o <<a>>, 0, 1)
    BY <1>3, <2>4, Concat
  <2>6. QED
    BY <2>1, <2>5 DEF Balanced, c
<1>9. QED
  BY <1>1, <1>4, <1>5, <1>6, <1>7, <1>8, OperationsAre

(* The layouts of the operands are parts of it. *)
LEMMA ConcatLonger ==
  ASSUME NEW c, IsSeq(c), NEW d, IsSeq(d)
  PROVE  IsSeq(c \o d) /\ Len(c) <= Len(c \o d) /\ Len(d) <= Len(c \o d)
         /\ (Len(d) > 0 => Len(c) < Len(c \o d)) /\ (Len(c) > 0 => Len(d) < Len(c \o d))
<1>1. IsSeq(c \o d) /\ Len(c \o d) = Len(c) + Len(d)
  BY ConcatIs
<1>2. Len(c) \in Nat /\ Len(d) \in Nat
  BY LenIsNat
<1> DEFINE x == Len(c \o d)
           n == Len(c)
           m == Len(d)
<1>3. x = n + m /\ n \in Nat /\ m \in Nat
  BY <1>1, <1>2
<1> HIDE DEF x, n, m
<1>4. n <= x /\ m <= x /\ (m > 0 => n < x) /\ (n > 0 => m < x)
  BY <1>3
<1>5. QED
  BY <1>1, <1>4 DEF x, n, m

LEMMA LaidLonger ==
  ASSUME NEW e \in Expr, NEW fn, NEW code, IsSeq(code), Len(code) = Len(e.args),
         \A i \in 1..Len(code) : IsSeq(code[i])
  PROVE  \A i \in 1..Len(code) : Len(code[i]) < Len(Laid(e, fn, code))
<1> DEFINE n == Arity(e)
           c == Laid(e, fn, code)
           flat == Seqs!FlattenSeq(code)
<1>1. /\ e.op \in Operations /\ Len(code) = n /\ n \in 0..4
      /\ e.op \in {"and", "or"} => n = 2
      /\ e.op = "cond" => n = 3
  BY ArityIs
<1>2. \A i \in 1..n : IsSeq(code[i]) /\ Len(code[i]) \in Nat
  BY <1>1, LenIsNat
<1>3. e.op \in Simple => n = 0
  BY DEF Simple, Arity, Leaf, One, Bessel, Two, Logicals
<1>0. Shape(c, e, code)
  BY LaidIs
<1> HIDE DEF n, c
<1>4. IsSeq(flat) /\ \A i \in 1..n : Len(code[i]) <= Len(flat)
  BY <1>1, <1>2, FlattenLonger
<1>5. \A a : IsSeq(<<a>>) /\ Len(<<a>>) = 1
  BY SingleIs
<1>6. CASE e.op \in Simple
  BY <1>1, <1>3, <1>6
<1>7. CASE e.op = "call" \/ e.op \in Eager
  <2>1. PICK a : c = flat \o <<a>>
    BY <1>0, <1>7 DEF Shape
  <2>2. Len(flat) < Len(flat \o <<a>>) /\ IsSeq(flat \o <<a>>)
    BY <1>4, <1>5, ConcatLonger
  <2>3. Len(flat) \in Nat /\ Len(c) \in Nat /\ Len(flat) < Len(c)
    BY <1>4, <2>1, <2>2, LenIsNat
  <2> DEFINE l == Len(flat)
             k == Len(c)
  <2> HIDE DEF l, k
  <2>4. \A i \in 1..n : Len(code[i]) \in Nat /\ Len(code[i]) <= l
    BY <1>2, <1>4 DEF l
  <2>5. l \in Nat /\ k \in Nat /\ l < k
    BY <2>3 DEF l, k
  <2>6. \A i \in 1..n : Len(code[i]) < k
    BY <2>4, <2>5
  <2>7. QED
    BY <1>1, <2>6 DEF k, c
<1>8. CASE e.op \in {"and", "or"}
  <2>0. \E a : \E op : c = (code[1] \o Unless(op, code[2])) \o <<a>>
    BY <1>0, <1>8 DEF Shape
  <2>1. PICK a, op : c = (code[1] \o Unless(op, code[2])) \o <<a>>
    BY <2>0
  <2> DEFINE u == Unless(op, code[2])
             d == code[1] \o u
  <2>2. IsSeq(code[1]) /\ IsSeq(code[2]) /\ Len(code[1]) \in Nat /\ Len(code[2]) \in Nat
    BY <1>1, <1>2, <1>8
  <2>3. IsSeq(u) /\ Len(code[2]) <= Len(u)
    BY <1>5, <2>2, ConcatLonger DEF Unless, Jump
  <2> HIDE DEF u
  <2>4. IsSeq(d) /\ Len(code[1]) <= Len(d) /\ Len(u) <= Len(d)
    BY <2>2, <2>3, ConcatLonger
  <2> HIDE DEF d
  <2>5. IsSeq(c) /\ Len(d) < Len(c)
    <3>1. c = d \o <<a>>
      BY <2>1 DEF d, u
    <3>2. IsSeq(d \o <<a>>) /\ Len(d) < Len(d \o <<a>>)
      BY <1>5, <2>4, ConcatLonger
    <3>3. QED
      BY <3>1, <3>2
  <2>6. Len(u) \in Nat /\ Len(d) \in Nat /\ Len(c) \in Nat
    BY <2>3, <2>4, <2>5, LenIsNat
  <2>7. Len(code[1]) < Len(c) /\ Len(code[2]) < Len(c)
    BY <2>2, <2>3, <2>4, <2>5, <2>6
  <2>8. QED
    BY <1>1, <1>8, <2>7 DEF c
<1>9. CASE e.op = "cond"
  <2> DEFINE j(op, k) == <<[op |-> op, j_arg |-> k]>>
             x == j("jump", Len(code[3]) + 1) \o code[3]
             y == code[2] \o x
             z == j("jtern", Len(code[2]) + 2) \o y
  <2>1. c = code[1] \o z
    BY <1>0, <1>9 DEF Shape, Arms, Jump
  <2>2. IsSeq(code[1]) /\ IsSeq(code[2]) /\ IsSeq(code[3])
        /\ Len(code[1]) \in Nat /\ Len(code[2]) \in Nat /\ Len(code[3]) \in Nat
    BY <1>1, <1>2, <1>9
  <2>3. IsSeq(x) /\ Len(code[3]) <= Len(x)
    BY <1>5, <2>2, ConcatLonger
  <2> HIDE DEF x
  <2>4. IsSeq(y) /\ Len(code[2]) <= Len(y) /\ Len(x) <= Len(y)
    BY <2>2, <2>3, ConcatLonger
  <2> HIDE DEF y
  <2>5. IsSeq(z) /\ Len(y) < Len(z)
    BY <1>5, <2>4, ConcatLonger
  <2> HIDE DEF z, j
  <2>6. Len(x) \in Nat /\ Len(y) \in Nat /\ Len(z) \in Nat
    BY <2>3, <2>4, <2>5, LenIsNat
  <2>7. Len(z) > 0
    BY <2>5, <2>6
  <2>8. IsSeq(code[1] \o z) /\ Len(code[1]) < Len(code[1] \o z) /\ Len(z) <= Len(code[1] \o z)
    BY <2>2, <2>5, <2>7, ConcatLonger
  <2>9. Len(code[1]) < Len(c) /\ Len(z) <= Len(c) /\ Len(c) \in Nat
    BY <2>1, <2>8, LenIsNat
  <2>10. Len(code[1]) < Len(c) /\ Len(code[2]) < Len(c) /\ Len(code[3]) < Len(c)
    BY <2>2, <2>3, <2>4, <2>5, <2>6, <2>9
  <2>11. QED
    BY <1>1, <1>9, <2>10 DEF c
<1>10. QED
  BY <1>1, <1>6, <1>7, <1>8, <1>9, OperationsAre

(* A non-empty set of naturals has a least element. *)
LEMMA LeastLength ==
  ASSUME NEW T, T \subseteq Nat, T # {}
  PROVE  \E m \in T : \A k \in T : m <= k
<1>1. PICK m \in T : \A k \in T : ~ (<<k, m>> \in OpToRel(<, Nat))
  BY WFMin, NatLessThanWellFounded
<1>2. \A k \in T : ~ (k < m)
  BY <1>1 DEF OpToRel
<1>3. QED
  BY <1>2

(* Whatever jumps an execution of a layout takes, it finds its operands and  *)
(* leaves one value: by induction on the length of the layout.               *)
THEOREM LayoutsAreBalanced ==
  \A e \in Expr, fn \in DOMAIN Udf \cup {"main"} : Balanced(Code(e, fn))
<1> DEFINE Names == DOMAIN Udf \cup {"main"}
           Bad(n) == \E e \in Expr, fn \in Names : Len(Code(e, fn)) = n /\ ~ Balanced(Code(e, fn))
           T == {n \in Nat : Bad(n)}
<1>1. \A e \in Expr, fn \in Names : IsSeq(Code(e, fn)) /\ Len(Code(e, fn)) \in Nat
  BY PlotCodeAssumption, LenIsNat DEF IsSeq
<1>2. SUFFICES ASSUME T # {}
               PROVE  FALSE
  BY <1>1
<1>3. PICK n \in T : \A k \in T : n <= k
  <2>1. T \subseteq Nat
    OBVIOUS
  <2> HIDE DEF T
  <2>2. QED
    BY <1>2, <2>1, LeastLength
<1>4. PICK e \in Expr, fn \in Names : Len(Code(e, fn)) = n /\ ~ Balanced(Code(e, fn))
  OBVIOUS
<1> DEFINE m == Len(e.args)
           code == [i \in 1..m |-> Code(e.args[i], fn)]
<1>5. m \in Nat /\ \A i \in 1..m : e.args[i] \in Expr
  BY ArityIs
<1>6. Code(e, fn) = Laid(e, fn, code)
  BY PlotCodeAssumption
<1>7. IsSeq(code) /\ Len(code) = m /\ \A i \in 1..m : code[i] = Code(e.args[i], fn)
  <2> HIDE DEF m
  <2>1. code \in Seq({code[i] : i \in 1..m})
    BY <1>5
  <2>2. QED
    BY <1>5, <2>1 DEF IsSeq
<1> HIDE DEF code
<1>8. \A i \in 1..m : IsSeq(code[i]) /\ Len(code[i]) \in Nat
  BY <1>1, <1>5, <1>7
<1>9. \A i \in 1..m : Len(code[i]) < Len(Laid(e, fn, code))
  BY <1>7, <1>8, LaidLonger
<1>10. ASSUME NEW i \in 1..m
       PROVE  Balanced(code[i])
  <2>1. Len(code[i]) \in Nat /\ Len(code[i]) < n /\ n \in Nat
    BY <1>4, <1>6, <1>8, <1>9
  <2>2. Len(code[i]) \notin T
    <3> HIDE DEF T
    <3>1. QED
      BY <1>3, <2>1
  <2>3. ~ Bad(Len(code[i]))
    BY <2>1, <2>2
  <2>4. QED
    BY <1>5, <1>7, <2>3
<1>11. Balanced(Laid(e, fn, code))
  BY <1>7, <1>10, LaidBalanced
<1>12. QED
  BY <1>4, <1>6, <1>11

-----------------------------------------------------------------------------
(***************************************************************************)
(* The stack and the executions of actions.                                 *)
(***************************************************************************)

Height(f) == (CHOOSE h : Lifts(f.code, h, 0, 1))[f.pc]

IsFrame(f) == f = [fn |-> f.fn, code |-> f.code, pc |-> f.pc, args |-> f.args, below |-> f.below]

(* b is at the bottom of s. *)
Lies(b, s) == IsSeq(b) /\ Len(b) <= Len(s) /\ \A i \in 1..Len(b) : b[i] = s[i]

FrameOK(f, s) == /\ IsFrame(f) /\ Balanced(f.code) /\ f.pc \in 1..(Len(f.code) + 1)
                 /\ Lies(f.below, s)

(* The stack s is as high as the places of the executions fs say: what is    *)
(* below one and its own values are below the arguments of the next, whose    *)
(* value is still to come.                                                  *)
Heaped(fs, s) ==
  /\ IsSeq(fs) /\ IsSeq(s) /\ Len(fs) > 0 /\ fs[1].below = <<>>
  /\ \A i \in 1..Len(fs) : FrameOK(fs[i], s)
  /\ \A i, j \in 1..Len(fs) : i <= j => Len(fs[i].below) <= Len(fs[j].below)
  /\ \A i \in 1..(Len(fs) - 1) : Len(fs[i + 1].below) + 1 = Len(fs[i].below) + Height(fs[i])
  /\ Len(s) = Len(fs[Len(fs)].below) + Height(fs[Len(fs)])

StackInv == /\ status \in {"idle", "run", "done", "int_error", "trap"}
            /\ status = "done" => stack = <<>>
            /\ status = "run" => Heaped(frames, stack)

(* t is s with the upper k values replaced by left others. *)
Replaces(s, k, left, t) ==
  IsSeq(t) /\ Len(t) = Len(s) - k + left /\ \A i \in 1..(Len(s) - k) : t[i] = s[i]

LEMMA LiesOn ==
  ASSUME NEW b, NEW s, Lies(b, s), NEW t, NEW m \in Nat, IsSeq(t), Len(b) <= m, m <= Len(t),
         \A i \in 1..m : t[i] = s[i]
  PROVE  Lies(b, t)
<1>1. Len(b) \in Nat /\ Len(t) \in Nat
  BY LenIsNat DEF Lies
<1>2. Len(b) <= Len(t)
  BY <1>1
<1>3. \A i \in 1..Len(b) : i \in 1..m
  BY <1>1
<1>4. QED
  BY <1>2, <1>3 DEF Lies

(* The heights of an execution. *)
LEMMA HeightIs ==
  ASSUME NEW f, Balanced(f.code), f.pc \in 1..(Len(f.code) + 1)
  PROVE  /\ Height(f) \in Nat
         /\ f.pc = 1 => Height(f) = 0
         /\ f.pc > Len(f.code) => Height(f) = 1
<1> DEFINE h == CHOOSE g : Lifts(f.code, g, 0, 1)
           n == Len(f.code)
<1>1. Lifts(f.code, h, 0, 1)
  BY DEF Balanced, Raises
<1>2. n \in Nat
  BY LenIsNat DEF Balanced, Raises
<1>3. Height(f) = h[f.pc]
  BY DEF Height
<1> HIDE DEF h
<1>4. h \in [1..(n + 1) -> Nat] /\ h[1] = 0 /\ h[n + 1] = 1
  BY <1>1 DEF Lifts
<1> HIDE DEF n
<1>5. f.pc \in 1..(n + 1)
  BY DEF n
<1>6. f.pc > n => f.pc = n + 1
  BY <1>2, <1>5
<1>7. QED
  BY <1>2, <1>3, <1>4, <1>5, <1>6 DEF n

LEMMA HeightMoves ==
  ASSUME NEW f, Balanced(f.code), f.pc \in 1..Len(f.code), NEW a, a = f.code[f.pc]
  PROVE  /\ Known(a) /\ Needs(a) \in Nat /\ Needs(a) <= Height(f)
         /\ \A go, left \in Nat : Exit(a, go, left) =>
              \A g : g.code = f.code /\ g.pc = f.pc + go =>
                g.pc \in 1..(Len(f.code) + 1) /\ Height(g) = Height(f) - Needs(a) + left
<1> DEFINE h == CHOOSE x : Lifts(f.code, x, 0, 1)
           n == Len(f.code)
           p == f.pc
<1>1. Lifts(f.code, h, 0, 1)
  BY DEF Balanced, Raises
<1>2. n \in Nat
  BY LenIsNat DEF Balanced, Raises
<1>3. Height(f) = h[p] /\ \A g : g.code = f.code => Height(g) = h[g.pc]
  BY DEF Height
<1> HIDE DEF h
<1>4. p \in 1..n /\ Fits(a, h, p, n)
  BY <1>1 DEF Lifts
<1>5. Known(a) /\ Needs(a) <= h[p]
  BY <1>4 DEF Fits
<1> HIDE DEF n, p
<1>6. ASSUME NEW go \in Nat, NEW left \in Nat, Exit(a, go, left),
             NEW g, g.code = f.code, g.pc = p + go
      PROVE  g.pc \in 1..(n + 1) /\ Height(g) = h[p] - Needs(a) + left
  <2>1. p + go <= n + 1 /\ h[p + go] = h[p] - Needs(a) + left
    BY <1>4, <1>6 DEF Fits
  <2>2. p + go \in 1..(n + 1)
    BY <1>2, <1>4, <2>1
  <2>3. Height(g) = h[p + go]
    BY <1>3, <1>6
  <2>4. QED
    BY <1>6, <2>1, <2>2, <2>3
<1>7. QED
  BY <1>3, <1>5, <1>6, NeedsIsNat DEF n, p

(* The last execution goes on: its new place f is as high as what becomes of  *)
(* the stack.                                                              *)
LEMMA TopMoves ==
  ASSUME NEW fs, NEW s, Heaped(fs, s), NEW n, n = Len(fs),
         NEW gs, IsSeq(gs), Len(gs) = n, \A i \in 1..(n - 1) : gs[i] = fs[i],
         NEW f, gs[n] = f, IsFrame(f), f.code = fs[n].code, f.below = fs[n].below,
         f.pc \in 1..(Len(f.code) + 1),
         NEW k \in Nat, NEW left \in Nat, k <= Height(fs[n]), Height(f) = Height(fs[n]) - k + left,
         NEW t, Replaces(s, k, left, t)
  PROVE  Heaped(gs, t)
<1> DEFINE B(i) == Len(fs[i].below)
           H == Height(fs[n])
           l == Len(s)
<1>1. n \in Nat /\ n > 0 /\ n \in 1..n /\ l \in Nat
  BY LenIsNat DEF Heaped
<1>2. \A i \in 1..n : FrameOK(fs[i], s)
  BY DEF Heaped
<1>3. \A i \in 1..n : B(i) \in Nat
  BY <1>2, LenIsNat DEF FrameOK, Lies
<1>4. l = B(n) + H /\ \A i, j \in 1..n : i <= j => B(i) <= B(j)
  BY DEF Heaped
<1>5. H \in Nat /\ k <= H
  BY <1>1, <1>2, HeightIs DEF FrameOK
<1>6. IsSeq(t) /\ Len(t) = l - k + left /\ \A i \in 1..(l - k) : t[i] = s[i]
  BY DEF Replaces
<1>7. \A i \in 1..n : gs[i].below = fs[i].below
  BY <1>1
<1>8. gs[1].below = <<>>
  BY <1>1, <1>7 DEF Heaped
<1>9. ASSUME NEW i \in 1..n
      PROVE  FrameOK(gs[i], t)
  <2> DEFINE m == l - k
  <2>1. m \in Nat /\ m <= Len(t) /\ B(i) <= m
    <3> DEFINE x == B(i)
               y == B(n)
    <3>1. x \in Nat /\ y \in Nat /\ x <= y /\ l = y + H
      BY <1>1, <1>3, <1>4
    <3> HIDE DEF x, y, H, l
    <3>2. m \in Nat /\ m <= l - k + left /\ x <= m
      BY <1>1, <1>5, <3>1
    <3>3. QED
      BY <1>6, <3>2 DEF x
  <2>2. Lies(fs[i].below, s) /\ \A j \in 1..m : t[j] = s[j]
    BY <1>2, <1>6 DEF FrameOK
  <2>3. Lies(fs[i].below, t)
    <3> DEFINE b == fs[i].below
    <3>1. Len(b) <= m
      BY <2>1
    <3> HIDE DEF b, m
    <3>2. Lies(b, s) /\ IsSeq(t) /\ m \in Nat /\ m <= Len(t) /\ \A j \in 1..m : t[j] = s[j]
      BY <1>6, <2>1, <2>2 DEF b
    <3>3. Lies(b, t)
      BY ONLY <3>1, <3>2, LiesOn
    <3>4. QED
      BY <3>3 DEF b
  <2>4. CASE i = n
    BY <1>1, <1>2, <2>3, <2>4 DEF FrameOK
  <2>5. CASE i # n
    <3>1. gs[i] = fs[i]
      BY <2>5
    <3>2. QED
      BY <1>2, <2>3, <3>1 DEF FrameOK
  <2>6. QED
    BY <2>4, <2>5
<1>10. \A i, j \in 1..n : i <= j => Len(gs[i].below) <= Len(gs[j].below)
  BY <1>4, <1>7
<1>11. ASSUME NEW i \in 1..(n - 1)
       PROVE  Len(gs[i + 1].below) + 1 = Len(gs[i].below) + Height(gs[i])
  <2>1. gs[i] = fs[i] /\ gs[i + 1].below = fs[i + 1].below
    BY <1>1, <1>7
  <2>2. Len(fs[i + 1].below) + 1 = Len(fs[i].below) + Height(fs[i])
    BY DEF Heaped
  <2>3. QED
    BY <2>1, <2>2
<1>12. Len(t) = Len(f.below) + Height(f)
  <2> DEFINE y == B(n)
  <2>1. Len(f.below) = y /\ y \in Nat /\ l = y + H /\ Height(f) = H - k + left
    BY <1>1, <1>3, <1>4
  <2> HIDE DEF y, H, l
  <2>2. l - k + left = y + (H - k + left)
    BY <1>1, <1>5, <2>1
  <2>3. QED
    BY <1>6, <2>1, <2>2
<1>13. QED
  BY <1>1, <1>6, <1>8, <1>9, <1>10, <1>11, <1>12 DEF Heaped

(* A function is called: its execution f begins with the stack s, on which    *)
(* its value will be (t).                                                   *)
LEMMA PushFrame ==
  ASSUME NEW fs, NEW t, Heaped(fs, t), NEW s, Replaces(t, 1, 0, s), IsSeq(s), Len(t) = Len(s) + 1,
         Len(fs[Len(fs)].below) <= Len(s),
         NEW f, IsFrame(f), Balanced(f.code), f.pc = 1, f.below = s
  PROVE  Heaped(Append(fs, f), s)
<1> DEFINE n == Len(fs)
           gs == Append(fs, f)
           l == Len(s)
           B(i) == Len(fs[i].below)
<1>1. n \in Nat /\ n > 0 /\ n \in 1..n /\ l \in Nat
  BY LenIsNat DEF Heaped
<1>2. IsSeq(gs) /\ Len(gs) = n + 1 /\ (\A i \in 1..n : gs[i] = fs[i]) /\ gs[n + 1] = f
  BY AppendIs DEF Heaped
<1>3. \A i \in 1..n : FrameOK(fs[i], t)
  BY DEF Heaped
<1>4. \A i, j \in 1..n : i <= j => B(i) <= B(j)
  BY DEF Heaped
<1>5. \A i \in 1..n : B(i) \in Nat
  BY <1>3, LenIsNat DEF FrameOK, Lies
<1>6. \A i \in 1..n : B(i) <= l
  <2>1. ASSUME NEW i \in 1..n
        PROVE  B(i) <= l
    <3> DEFINE x == B(i)
               y == B(n)
    <3>1. x \in Nat /\ y \in Nat /\ x <= y /\ y <= l
      BY <1>1, <1>4, <1>5
    <3> HIDE DEF x, y, l
    <3>2. x <= l
      BY <1>1, <3>1
    <3>3. QED
      BY <3>2 DEF x
  <2>2. QED
    BY <2>1
<1>7. \A i \in 1..l : s[i] = t[i]
  BY <1>1 DEF Replaces
<1> HIDE DEF gs
<1>8. gs[1].below = <<>>
  BY <1>1, <1>2 DEF Heaped
<1>9. Height(f) = 0
  <2>1. Len(f.code) \in Nat
    BY LenIsNat DEF Balanced, Raises
  <2>2. f.pc \in 1..(Len(f.code) + 1)
    BY <2>1
  <2>3. QED
    BY <2>2, HeightIs
<1>10. ASSUME NEW i \in 1..(n + 1)
       PROVE  FrameOK(gs[i], s)
  <2>1. CASE i = n + 1
    <3>1. Len(f.code) \in Nat
      BY LenIsNat DEF Balanced, Raises
    <3>2. f.pc \in 1..(Len(f.code) + 1)
      BY <3>1
    <3>3. Lies(s, s)
      BY <1>1 DEF Lies
    <3>4. gs[i] = f
      BY <1>2, <2>1
    <3>5. QED
      BY <3>2, <3>3, <3>4 DEF FrameOK
  <2>2. CASE i # n + 1
    <3>1. i \in 1..n /\ gs[i] = fs[i]
      BY <1>1, <1>2, <2>2
    <3> DEFINE b == fs[i].below
    <3>2. Lies(b, t) /\ Len(b) <= l
      BY <1>3, <1>6, <3>1 DEF FrameOK
    <3>3. IsSeq(s) /\ l <= Len(s) /\ l \in Nat
      BY <1>1
    <3> HIDE DEF b, l
    <3>5. Lies(b, s)
      BY ONLY <1>7, <3>2, <3>3, LiesOn
    <3>4. QED
      BY <1>3, <3>1, <3>5 DEF FrameOK, b
  <2>3. QED
    BY <2>1, <2>2
<1>11. ASSUME NEW i \in 1..(n + 1), NEW j \in 1..(n + 1), i <= j
       PROVE  Len(gs[i].below) <= Len(gs[j].below)
  <2>1. CASE j = n + 1
    <3>1. CASE i = n + 1
      BY <1>1, <1>2, <2>1, <3>1
    <3>2. CASE i # n + 1
      <4>1. i \in 1..n /\ gs[i] = fs[i] /\ gs[j] = f
        BY <1>1, <1>2, <2>1, <3>2
      <4>2. QED
        BY <1>6, <4>1
    <3>3. QED
      BY <3>1, <3>2
  <2>2. CASE j # n + 1
    <3>1. i \in 1..n /\ j \in 1..n /\ gs[i] = fs[i] /\ gs[j] = fs[j]
      BY <1>1, <1>2, <1>11, <2>2
    <3>2. QED
      BY <1>4, <1>11, <3>1
  <2>3. QED
    BY <2>1, <2>2
<1>12. Len(s) + 1 = Len(fs[n].below) + Height(fs[n])
  BY DEF Heaped
<1>13. ASSUME NEW i \in 1..n
       PROVE  Len(gs[i + 1].below) + 1 = Len(gs[i].below) + Height(gs[i])
  <2>1. CASE i = n
    <3>1. gs[i + 1] = f /\ gs[i] = fs[n]
      BY <1>1, <1>2, <2>1
    <3>2. QED
      BY <1>12, <3>1
  <2>2. CASE i # n
    <3>1. i \in 1..(n - 1) /\ gs[i + 1] = fs[i + 1] /\ gs[i] = fs[i]
      BY <1>1, <1>2, <2>2
    <3>2. Len(fs[i + 1].below) + 1 = Len(fs[i].below) + Height(fs[i])
      BY <3>1 DEF Heaped
    <3>3. QED
      BY <3>1, <3>2
  <2>3. QED
    BY <2>1, <2>2
<1>14. Len(s) = Len(f.below) + Height(f)
  BY <1>1, <1>9
<1>15. Heaped(gs, s)
  <2>1. Len(gs) = n + 1 /\ Len(gs) - 1 = n /\ gs[Len(gs)] = f /\ Len(gs) > 0
    BY <1>1, <1>2
  <2> HIDE DEF n
  <2>2. QED
    BY <1>2, <1>8, <1>10, <1>11, <1>13, <1>14, <2>1 DEF Heaped
<1>16. QED
  BY <1>15 DEF gs

LEMMA FrontIs ==
  ASSUME NEW fs, IsSeq(fs), NEW n \in Nat, Len(fs) = n + 1
  PROVE  IsSeq(Seqs!Front(fs)) /\ Len(Seqs!Front(fs)) = n /\ \A i \in 1..n : Seqs!Front(fs)[i] = fs[i]
<1>1. Seqs!Front(fs) = Under(fs, 1)
  BY DEF Seqs!Front, Under
<1>2. 1 \in 0..Len(fs)
  BY SMT
<1> DEFINE l == Len(fs)
           u == Under(fs, 1)
<1>3. IsSeq(u) /\ Len(u) = l - 1 /\ \A i \in 1..(l - 1) : u[i] = fs[i]
  BY <1>2, UnderIs
<1>4. l - 1 = n
  OBVIOUS
<1> HIDE DEF u, l
<1>5. QED
  BY <1>1, <1>3, <1>4 DEF u

(* A function returns: its value is on the stack. *)
LEMMA PopFrame ==
  ASSUME NEW fs, NEW s, Heaped(fs, s), NEW n \in Nat, n > 0, Len(fs) = n + 1, Height(fs[n + 1]) = 1
  PROVE  Heaped(Seqs!Front(fs), s)
<1> DEFINE gs == Seqs!Front(fs)
<1>1. IsSeq(gs) /\ Len(gs) = n /\ \A i \in 1..n : gs[i] = fs[i]
  BY FrontIs DEF Heaped
<1> HIDE DEF gs
<1>2. \A i \in 1..n : i \in 1..(n + 1)
  OBVIOUS
<1>3. \A i \in 1..n : FrameOK(gs[i], s)
  BY <1>1, <1>2 DEF Heaped
<1>4. \A i, j \in 1..n : i <= j => Len(gs[i].below) <= Len(gs[j].below)
  BY <1>1, <1>2 DEF Heaped
<1>5. ASSUME NEW i \in 1..n
      PROVE  Len(fs[i + 1].below) + 1 = Len(fs[i].below) + Height(fs[i])
  <2>1. i \in 1..(Len(fs) - 1)
    OBVIOUS
  <2>2. QED
    BY <2>1 DEF Heaped
<1>6. Len(s) = Len(gs[n].below) + Height(gs[n])
  <2>1. Len(s) = Len(fs[n + 1].below) + 1
    BY DEF Heaped
  <2>2. n \in 1..n
    OBVIOUS
  <2>3. Len(fs[n + 1].below) + 1 = Len(fs[n].below) + Height(fs[n])
    BY <1>5, <2>2
  <2>4. QED
    BY <1>1, <2>1, <2>2, <2>3
<1>7. ASSUME NEW i \in 1..(n - 1)
      PROVE  Len(gs[i + 1].below) + 1 = Len(gs[i].below) + Height(gs[i])
  <2>1. i \in 1..n /\ i + 1 \in 1..n
    OBVIOUS
  <2>2. gs[i] = fs[i] /\ gs[i + 1] = fs[i + 1]
    BY <1>1, <2>1
  <2>3. QED
    BY <1>5, <2>1, <2>2
<1>8. gs[1].below = <<>>
  BY <1>1 DEF Heaped
<1>9. Heaped(gs, s)
  BY <1>1, <1>3, <1>4, <1>6, <1>7, <1>8 DEF Heaped
<1>10. QED
  BY <1>9 DEF gs

LEMMA SkipIs ==
  ASSUME IsSeq(frames), NEW n \in Nat, n > 0, Len(frames) = n, IsFrame(frames[n]), NEW go
  PROVE  /\ IsSeq(Skip(go)) /\ Len(Skip(go)) = n
         /\ \A i \in 1..(n - 1) : Skip(go)[i] = frames[i]
         /\ IsFrame(Skip(go)[n]) /\ Skip(go)[n].code = frames[n].code
         /\ Skip(go)[n].below = frames[n].below /\ Skip(go)[n].pc = frames[n].pc + go
         /\ Skip(go)[n].fn = frames[n].fn /\ Skip(go)[n].args = frames[n].args
<1> DEFINE f == frames[n]
           g == [fn |-> f.fn, code |-> f.code, pc |-> f.pc + go, args |-> f.args, below |-> f.below]
<1>1. IsFrame(g) /\ g.code = f.code /\ g.below = f.below /\ g.pc = f.pc + go /\ g.fn = f.fn /\ g.args = f.args
  BY DEF IsFrame
<1>2. [f EXCEPT !.pc = @ + go] = g
  <2> DEFINE a == f.fn
             b == f.code
             c == f.pc
             d == f.args
             e == f.below
  <2>1. f = [fn |-> a, code |-> b, pc |-> c, args |-> d, below |-> e]
    BY DEF IsFrame
  <2>2. g = [fn |-> a, code |-> b, pc |-> c + go, args |-> d, below |-> e]
    OBVIOUS
  <2> HIDE DEF f, g, a, b, c, d, e
  <2>3. QED
    BY <2>1, <2>2
<1>3. Skip(go) = [frames EXCEPT ![n] = g]
  <2>1. Skip(go) = [frames EXCEPT ![n] = [f EXCEPT !.pc = @ + go]]
    BY DEF Skip
  <2> HIDE DEF g
  <2>2. QED
    BY <1>2, <2>1
<1> HIDE DEF f, g
<1>4. PICK S : frames \in Seq(S) /\ {g} \subseteq S
  BY Widened
<1>5. n \in 1..Len(frames) /\ DOMAIN frames = 1..n
  BY LenIsNat
<1>6. [frames EXCEPT ![n] = g] \in Seq(S) /\ Len([frames EXCEPT ![n] = g]) = n
  BY <1>4, <1>5, ExceptSeq
<1>7. [frames EXCEPT ![n] = g][n] = g /\ \A i \in 1..(n - 1) : [frames EXCEPT ![n] = g][i] = frames[i]
  BY <1>5
<1>8. QED
  BY <1>1, <1>3, <1>6, <1>7 DEF IsSeq, f

(* An execution goes on as its action lets it. *)
LEMMA Step ==
  ASSUME Heaped(frames, stack), Here.pc <= Len(Here.code),
         NEW go \in Nat, NEW left \in Nat, Exit(Action, go, left),
         NEW t, Replaces(stack, Needs(Action), left, t)
  PROVE  Heaped(Skip(go), t)
<1> DEFINE n == Len(frames)
           f == frames[n]
           gs == Skip(go)
           g == gs[n]
           k == Needs(Action)
<1>1. n \in Nat /\ n > 0 /\ IsSeq(frames) /\ FrameOK(f, stack) /\ n \in 1..n
  <2>1. n \in Nat /\ n > 0 /\ IsSeq(frames)
    BY LenIsNat DEF Heaped
  <2>2. n \in 1..n
    BY <2>1
  <2>3. QED
    BY <2>1, <2>2 DEF Heaped
<1>2. IsFrame(f) /\ Balanced(f.code) /\ f.pc \in 1..Len(f.code)
  <2>1. f.pc \in 1..(Len(f.code) + 1) /\ f.pc <= Len(f.code) /\ Balanced(f.code) /\ IsFrame(f)
    BY <1>1 DEF FrameOK, Here
  <2>2. Len(f.code) \in Nat
    BY <2>1, LenIsNat DEF Balanced, Raises
  <2> DEFINE p == f.pc
             l == Len(f.code)
  <2>3. p \in 1..(l + 1) /\ p <= l /\ l \in Nat
    BY <2>1, <2>2
  <2> HIDE DEF p, l
  <2>4. p \in 1..l
    BY <2>3
  <2>5. QED
    BY <2>1, <2>4 DEF p, l
<1>3. Action = f.code[f.pc]
  BY DEF Action, Here
<1>4. k \in Nat /\ k <= Height(f)
      /\ \A x : x.code = f.code /\ x.pc = f.pc + go =>
                x.pc \in 1..(Len(f.code) + 1) /\ Height(x) = Height(f) - k + left
  BY <1>2, <1>3, HeightMoves, SMTT(30)
<1>5. /\ IsSeq(gs) /\ Len(gs) = n /\ (\A i \in 1..(n - 1) : gs[i] = frames[i])
      /\ IsFrame(g) /\ g.code = f.code /\ g.below = f.below /\ g.pc = f.pc + go
  BY <1>1, <1>2, SkipIs
<1> HIDE DEF n, gs, k, f, g
<1>6. g.pc \in 1..(Len(g.code) + 1) /\ Height(g) = Height(f) - k + left
  BY <1>4, <1>5
<1>7. Heaped(gs, t)
  <2>1. f = frames[n] /\ g = gs[n] /\ n = Len(frames) /\ Replaces(stack, k, left, t)
    BY DEF f, g, n, k
  <2>2. QED
    BY <1>4, <1>5, <1>6, <2>1, TopMoves
<1>8. QED
  BY <1>7 DEF gs

(* What an action needs is on the stack. *)
LEMMA StackHas ==
  ASSUME Heaped(frames, stack), Here.pc <= Len(Here.code)
  PROVE  /\ Known(Action) /\ Needs(Action) \in 0..Len(stack) /\ IsSeq(stack) /\ Len(stack) \in Nat
         /\ Len(Here.below) + Needs(Action) <= Len(stack) /\ Len(Here.below) \in Nat
<1> DEFINE n == Len(frames)
           f == frames[n]
           k == Needs(Action)
<1>1. n \in Nat /\ n > 0 /\ n \in 1..n /\ FrameOK(f, stack)
  <2>1. n \in Nat /\ n > 0
    BY LenIsNat DEF Heaped
  <2>2. n \in 1..n
    BY <2>1
  <2>3. QED
    BY <2>1, <2>2 DEF Heaped
<1>2. IsSeq(stack) /\ Len(stack) \in Nat /\ Len(f.below) \in Nat /\ Len(f.code) \in Nat /\ IsSeq(f.below)
  BY <1>1, LenIsNat DEF Heaped, FrameOK, Lies, Balanced, Raises
<1>3. Balanced(f.code) /\ f.pc \in 1..Len(f.code)
  <2>1. f.pc \in 1..(Len(f.code) + 1) /\ f.pc <= Len(f.code) /\ Balanced(f.code)
    BY <1>1 DEF FrameOK, Here
  <2> DEFINE p == f.pc
             l == Len(f.code)
  <2>2. p \in 1..(l + 1) /\ p <= l /\ l \in Nat
    BY <1>2, <2>1
  <2> HIDE DEF p, l
  <2>3. p \in 1..l
    BY <2>2
  <2>4. QED
    BY <2>1, <2>3 DEF p, l
<1>4. Action = f.code[f.pc] /\ Here = f
  BY DEF Action, Here
<1>5. Known(Action) /\ k \in Nat /\ k <= Height(f)
  BY <1>3, <1>4, HeightMoves
<1>6. Height(f) \in Nat
  BY <1>1, HeightIs DEF FrameOK
<1>7. Len(stack) = Len(f.below) + Height(f)
  BY DEF Heaped
<1> DEFINE l == Len(stack)
           b == Len(f.below)
           h == Height(f)
<1> HIDE DEF l, b, h, k
<1>8. l = b + h /\ l \in Nat /\ b \in Nat /\ h \in Nat /\ k \in Nat /\ k <= h
  BY <1>2, <1>5, <1>6, <1>7 DEF l, b, h
<1>9. k \in 0..l /\ b + k <= l
  BY <1>8
<1>10. QED
  BY <1>2, <1>4, <1>5, <1>9 DEF l, b, k

-----------------------------------------------------------------------------
(***************************************************************************)
(* The f_ functions on the stack.                                           *)
(***************************************************************************)

LEMMA AppendUnder ==
  ASSUME NEW s, IsSeq(s), NEW k \in 0..Len(s), NEW v
  PROVE  Replaces(s, k, 1, Append(Under(s, k), v))
<1> DEFINE u == Under(s, k)
           l == Len(s)
<1>1. IsSeq(u) /\ Len(u) = l - k /\ \A i \in 1..(l - k) : u[i] = s[i]
  BY UnderIs
<1> HIDE DEF u
<1>2. IsSeq(Append(u, v)) /\ Len(Append(u, v)) = Len(u) + 1 /\ \A i \in 1..Len(u) : Append(u, v)[i] = u[i]
  BY <1>1, AppendIs
<1>3. Replaces(s, k, 1, Append(u, v))
  BY <1>1, <1>2 DEF Replaces
<1>4. QED
  BY <1>3 DEF u

LEMMA UnderReplaces ==
  ASSUME NEW s, IsSeq(s), NEW k \in 0..Len(s)
  PROVE  Replaces(s, k, 0, Under(s, k))
<1>1. Len(s) \in Nat
  BY LenIsNat
<1>2. IsSeq(Under(s, k)) /\ Len(Under(s, k)) = Len(s) - k /\ \A i \in 1..(Len(s) - k) : Under(s, k)[i] = s[i]
  BY UnderIs
<1>3. Len(s) - k + 0 = Len(s) - k
  BY <1>1
<1>4. QED
  BY <1>2, <1>3 DEF Replaces

LEMMA SameReplaces ==
  ASSUME NEW s, IsSeq(s), NEW k \in Nat
  PROVE  Replaces(s, k, k, s)
<1>1. Len(s) \in Nat
  BY LenIsNat
<1>2. QED
  BY <1>1 DEF Replaces

LEMMA ReplacesAgain ==
  ASSUME NEW s, NEW t, NEW u, NEW k \in Nat, NEW a \in Nat, NEW b \in Nat, NEW c \in Nat,
         IsSeq(s), k <= Len(s), b <= a, Replaces(s, k, a, t), Replaces(t, b, c, u)
  PROVE  Replaces(s, k, a - b + c, u)
<1> DEFINE l == Len(s)
           m == Len(t)
<1>1. l \in Nat /\ k <= l
  BY LenIsNat
<1>2. m = l - k + a /\ \A i \in 1..(l - k) : t[i] = s[i]
  BY DEF Replaces
<1>3. IsSeq(u) /\ Len(u) = m - b + c /\ \A i \in 1..(m - b) : u[i] = t[i]
  BY DEF Replaces
<1> HIDE DEF l, m
<1>4. Len(u) = l - k + (a - b + c)
  BY <1>1, <1>2, <1>3
<1>5. \A i \in 1..(l - k) : i \in 1..(m - b)
  BY <1>1, <1>2
<1>6. \A i \in 1..(l - k) : u[i] = s[i]
  BY <1>2, <1>3, <1>5
<1>7. QED
  BY <1>3, <1>4, <1>6 DEF Replaces, l

Ends == {"int_error", "trap"}

(* A machine that runs on has left values for the k it found on top of s. *)
Leaves(m, s, k, left) ==
  m.status \in Ends \cup {"run"} /\ (m.status = "run" => Replaces(s, k, left, m.stack))

LEMMA MachineIs ==
  ASSUME NEW s, NEW u, NEW st
  PROVE  Machine(s, u, st).stack = s /\ Machine(s, u, st).undefined = u /\ Machine(s, u, st).status = st
BY DEF Machine

LEMMA OperatorLeaves ==
  ASSUME NEW op, NEW m, m.status = "run", IsSeq(m.stack), Takes(op) \in 0..Len(m.stack),
         NEW r \in Operator(op, m)
  PROVE  Leaves(r, m.stack, Takes(op), 1)
<1>1. PICK o \in Outcomes(op, Upper(m.stack, Takes(op))) : r = Becomes(op, m, o)
  BY DEF Operator
<1>2. CASE o.flag \in Ends
  <2>1. r = Machine(Left(op, m.stack), m.undefined, o.flag)
    BY <1>1, <1>2 DEF Becomes, Ends
  <2>2. r.status = o.flag
    BY <2>1, MachineIs
  <2>3. QED
    BY <1>2, <2>2 DEF Leaves, Ends
<1>3. CASE o.flag \notin Ends
  <2> DEFINE s == Append(Under(m.stack, Takes(op)), o.val)
             u == (m.undefined \/ o.flag = "undefined")
  <2>1. r = Machine(s, u, m.status)
    BY <1>1, <1>3 DEF Becomes, Ends
  <2> HIDE DEF s, u
  <2>2. r.stack = s /\ r.status = "run"
    BY <2>1, MachineIs
  <2>3. Replaces(m.stack, Takes(op), 1, s)
    BY AppendUnder DEF s
  <2>4. QED
    BY <2>2, <2>3 DEF Leaves
<1>4. QED
  BY <1>2, <1>3

(* The machines a Bessel function has reached have k values for its operand. *)
Reached(x, s, k) == \A m \in x.of : Leaves(m, s, 1, k)

LEMMA PlusOf ==
  ASSUME NEW x, NEW op, NEW m \in AndThen(x, op).of
  PROVE  \/ m \in x.of /\ m.status # "run"
         \/ \E n \in x.of : n.status = "run" /\ m \in IF op = "push" THEN {Pushed(n, x.a)} ELSE Operator(op, n)
BY DEF AndThen

LEMMA PlusIs ==
  ASSUME NEW x, NEW op
  PROVE  x ++ op = AndThen(x, op)
BY DEF ++

LEMMA ThenReached ==
  ASSUME NEW s, IsSeq(s), 1 <= Len(s), NEW x, NEW k \in Nat, Reached(x, s, k),
         NEW op, op = "push" \/ Takes(op) <= k, op # "push" => Takes(op) \in Nat, NEW l \in Nat,
         l = IF op = "push" THEN k + 1 ELSE k - Takes(op) + 1
  PROVE  Reached(x ++ op, s, l)
<1> DEFINE y == x ++ op
           Next(n) == IF op = "push" THEN {Pushed(n, x.a)} ELSE Operator(op, n)
<1>1. \A m \in y.of : \/ m \in x.of /\ m.status # "run"
                      \/ \E n \in x.of : n.status = "run" /\ m \in Next(n)
  BY PlusIs, PlusOf
<1>2. ASSUME NEW m \in y.of
      PROVE  Leaves(m, s, 1, l)
  <2>1. CASE m \in x.of /\ m.status # "run"
    BY <2>1 DEF Reached, Leaves
  <2>2. CASE \E n \in x.of : n.status = "run" /\ m \in Next(n)
    <3>1. PICK n \in x.of : n.status = "run" /\ m \in Next(n)
      BY <2>2
    <3>2. Replaces(s, 1, k, n.stack)
      BY <3>1 DEF Reached, Leaves
    <3>3. IsSeq(n.stack) /\ Len(n.stack) \in Nat /\ Len(n.stack) = Len(s) - 1 + k /\ Len(s) \in Nat
      BY <3>2, LenIsNat DEF Replaces
    <3>4. k <= Len(n.stack)
      <4> DEFINE a == Len(n.stack)
                 b == Len(s)
      <4>1. a \in Nat /\ a = b - 1 + k /\ b \in Nat /\ 1 <= b
        BY <3>3
      <4> HIDE DEF a, b
      <4>2. k <= a
        BY <4>1
      <4>3. QED
        BY <4>2 DEF a
    <3>5. CASE op = "push"
      <4> DEFINE t == Append(n.stack, x.a)
      <4>1. m = Pushed(n, x.a)
        BY <3>1, <3>5
      <4>2. m.stack = t /\ m.status = "run"
        <5>1. m = Machine(t, n.undefined, n.status)
          BY <4>1 DEF Pushed
        <5> HIDE DEF t
        <5>2. QED
          BY <3>1, <5>1, MachineIs
      <4>3. Len(t) = Len(n.stack) + 1 /\ IsSeq(t) /\ \A i \in 1..Len(n.stack) : t[i] = n.stack[i]
        BY <3>3, AppendIs
      <4> HIDE DEF t
      <4>4. Replaces(n.stack, 0, 1, t)
        <5> DEFINE a == Len(n.stack)
        <5>1. a \in Nat /\ Len(t) = a + 1 /\ IsSeq(t) /\ \A i \in 1..a : t[i] = n.stack[i]
          BY <3>3, <4>3
        <5> HIDE DEF a
        <5>2. Len(t) = a - 0 + 1 /\ \A i \in 1..(a - 0) : t[i] = n.stack[i]
          BY <5>1
        <5>3. QED
          BY <5>1, <5>2 DEF Replaces, a
      <4>5. Replaces(s, 1, k - 0 + 1, t)
        <5>1. 0 \in Nat /\ 1 \in Nat /\ 0 <= k
          OBVIOUS
        <5>2. QED
          BY <3>2, <4>4, <5>1, ReplacesAgain
      <4>6. k - 0 + 1 = l
        BY <3>5
      <4>7. QED
        BY <4>2, <4>5, <4>6 DEF Leaves
    <3>6. CASE op # "push"
      <4>1. m \in Operator(op, n) /\ Takes(op) \in Nat /\ Takes(op) <= k /\ l = k - Takes(op) + 1
        BY <3>1, <3>6
      <4>2. Takes(op) \in 0..Len(n.stack)
        <5> DEFINE a == Len(n.stack)
                   b == Takes(op)
        <5>1. a \in Nat /\ b \in Nat /\ b <= k /\ k <= a
          BY <3>3, <3>4, <4>1
        <5> HIDE DEF a, b
        <5>2. b \in 0..a
          BY <5>1
        <5>3. QED
          BY <5>2 DEF a, b
      <4>3. Leaves(m, n.stack, Takes(op), 1)
        BY <3>1, <3>3, <4>1, <4>2, OperatorLeaves
      <4>4. CASE m.status = "run"
        <5>1. Replaces(n.stack, Takes(op), 1, m.stack)
          BY <4>3, <4>4 DEF Leaves
        <5>2. Replaces(s, 1, k - Takes(op) + 1, m.stack)
          BY <3>2, <4>1, <5>1, ReplacesAgain
        <5>3. QED
          BY <4>1, <4>3, <5>2 DEF Leaves
      <4>5. CASE m.status # "run"
        BY <4>3, <4>5 DEF Leaves
      <4>6. QED
        BY <4>4, <4>5
    <3>7. QED
      BY <3>5, <3>6
  <2>3. QED
    BY <1>1, <2>1, <2>2
<1> HIDE DEF y
<1>3. Reached(y, s, l)
  BY <1>2 DEF Reached
<1>4. QED
  BY <1>3 DEF y

LEMMA TakesOf ==
  /\ \A op \in {"sin", "cos", "uminus"} : op # "push" /\ Takes(op) = 1
  /\ \A op \in {"div", "mult", "minus", "plus"} : op # "push" /\ Takes(op) = 2
BY DEF Takes, One, Bessel, Two, Logicals

(* The three kinds of steps a Bessel function is made of. *)
LEMMA ThenPush ==
  ASSUME NEW s, IsSeq(s), 1 <= Len(s), NEW x, NEW k \in Nat, NEW l \in Nat, l = k + 1, Reached(x, s, k)
  PROVE  Reached(x ++ "push", s, l)
BY ThenReached

LEMMA ThenOne ==
  ASSUME NEW s, IsSeq(s), 1 <= Len(s), NEW x, NEW k \in Nat, 1 <= k, Reached(x, s, k),
         NEW op \in {"sin", "cos", "uminus"}
  PROVE  Reached(x ++ op, s, k)
<1>1. op # "push" /\ Takes(op) = 1
  BY TakesOf
<1>2. k = k - 1 + 1
  OBVIOUS
<1>3. QED
  BY <1>1, <1>2, ThenReached

LEMMA ThenTwo ==
  ASSUME NEW s, IsSeq(s), 1 <= Len(s), NEW x, NEW k \in Nat, NEW l \in Nat, k = l + 1, 1 <= l, Reached(x, s, k),
         NEW op \in {"div", "mult", "minus", "plus"}
  PROVE  Reached(x ++ op, s, l)
<1>1. op # "push" /\ Takes(op) = 2
  BY TakesOf
<1>2. l = k - 2 + 1 /\ 2 <= k
  OBVIOUS
<1>3. QED
  BY <1>1, <1>2, ThenReached

LEMMA ComposedLeaves ==
  ASSUME NEW op \in Bessel, NEW m, m.status = "run", IsSeq(m.stack), 1 <= Len(m.stack),
         NEW r \in Composed(op, m)
  PROVE  Leaves(r, m.stack, 1, 1)
<1> DEFINE s == m.stack
           x == [a |-> Top(s), of |-> {m}]
<1>1. x.of = {m}
  OBVIOUS
<1>2. Leaves(m, s, 1, 1)
  BY SameReplaces DEF Leaves
<1>3. Composed(op, m) = CASE op = "besj0" -> f_besj0(x).of [] op = "besj1" -> f_besj1(x).of
                          [] op = "besy0" -> f_besy0(x).of [] op = "besy1" -> f_besy1(x).of
  BY DEF Composed
<1>4. IsSeq(s) /\ 1 <= Len(s)
  OBVIOUS
<1> HIDE DEF x, s
<1>5. Reached(x, s, 1)
  BY <1>1, <1>2 DEF Reached
<1>6. Reached(f_besj0(x), s, 1)
  <2>1. Reached(x ++ "sin", s, 1)
    BY <1>4, <1>5, ThenOne
  <2>2. Reached(x ++ "sin" ++ "push", s, 2)
    BY <1>4, <2>1, ThenPush
  <2>3. QED
    BY <1>4, <2>2, ThenTwo DEF f_besj0
<1>7. Reached(f_besy0(x), s, 1)
  <2>1. Reached(x ++ "cos", s, 1)
    BY <1>4, <1>5, ThenOne
  <2>2. Reached(x ++ "cos" ++ "push", s, 2)
    BY <1>4, <2>1, ThenPush
  <2>3. Reached(x ++ "cos" ++ "push" ++ "div", s, 1)
    BY <1>4, <2>2, ThenTwo
  <2>4. QED
    BY <1>4, <2>3, ThenOne DEF f_besy0
(* f_besj1 and f_besy1 have a part in common. *)
<1>8. ASSUME NEW f \in {"sin", "cos"}, NEW g \in {"sin", "cos"}, NEW h \in {"minus", "plus"}
      PROVE  Reached(x ++ f ++ "push" ++ "push" ++ "mult" ++ "div" ++ "push" ++ g ++ "push" ++ "div" ++ h, s, 1)
  <2> DEFINE x1 == x ++ f ++ "push" ++ "push" ++ "mult" ++ "div"
  <2>1. Reached(x ++ f, s, 1)
    BY <1>4, <1>5, ThenOne
  <2>2. Reached(x ++ f ++ "push", s, 2)
    BY <1>4, <2>1, ThenPush
  <2>3. Reached(x ++ f ++ "push" ++ "push", s, 3)
    BY <1>4, <2>2, ThenPush
  <2>4. Reached(x ++ f ++ "push" ++ "push" ++ "mult", s, 2)
    BY <1>4, <2>3, ThenTwo
  <2>5. Reached(x1, s, 1)
    BY <1>4, <2>4, ThenTwo
  <2> HIDE DEF x1
  <2>6. Reached(x1 ++ "push", s, 2)
    BY <1>4, <2>5, ThenPush
  <2>7. Reached(x1 ++ "push" ++ g, s, 2)
    BY <1>4, <2>6, ThenOne
  <2>8. Reached(x1 ++ "push" ++ g ++ "push", s, 3)
    BY <1>4, <2>7, ThenPush
  <2>9. Reached(x1 ++ "push" ++ g ++ "push" ++ "div", s, 2)
    BY <1>4, <2>8, ThenTwo
  <2>10. Reached(x1 ++ "push" ++ g ++ "push" ++ "div" ++ h, s, 1)
    BY <1>4, <2>9, ThenTwo
  <2>11. QED
    BY <2>10 DEF x1
<1>9. Reached(f_besj1(x), s, 1)
  BY <1>8 DEF f_besj1
<1>10. Reached(f_besy1(x), s, 1)
  BY <1>4, <1>8, ThenOne DEF f_besy1
<1>11. \/ r \in f_besj0(x).of \/ r \in f_besj1(x).of \/ r \in f_besy0(x).of \/ r \in f_besy1(x).of
  BY <1>3 DEF Bessel
<1>12. QED
  BY <1>6, <1>7, <1>9, <1>10, <1>11 DEF Reached, s

-----------------------------------------------------------------------------
(***************************************************************************)
(* The steps of the machine.                                               *)
(***************************************************************************)

LEMMA InitStack == PlotInit => StackInv
BY DEF PlotInit, StackInv

(* One execution, at its first place, on an empty stack. *)
LEMMA EvaluateHeaped ==
  ASSUME NEW f, IsFrame(f), Balanced(f.code), f.pc = 1, f.below = <<>>
  PROVE  Heaped(<<f>>, <<>>)
<1> DEFINE fs == <<f>>
           s == <<>>
<1>1. IsSeq(fs) /\ Len(fs) = 1 /\ fs[1] = f
  BY SingleIs
<1>2. IsSeq(s) /\ Len(s) = 0
  BY EmptyIs
<1>3. Len(f.code) \in Nat
  BY LenIsNat DEF Balanced, Raises
<1>4. f.pc \in 1..(Len(f.code) + 1)
  BY <1>3
<1>5. Height(f) = 0
  BY <1>4, HeightIs
<1>6. f.below = s
  OBVIOUS
<1> HIDE DEF fs, s
<1>7. Lies(s, s)
  BY <1>2 DEF Lies
<1>8. FrameOK(f, s)
  BY <1>4, <1>6, <1>7 DEF FrameOK
<1>9. \A i \in 1..1 : i = 1
  OBVIOUS
<1>10. Heaped(fs, s)
  <2>1. \A i \in 1..Len(fs) : FrameOK(fs[i], s)
    BY <1>1, <1>8, <1>9
  <2>2. \A i, j \in 1..Len(fs) : Len(fs[i].below) <= Len(fs[j].below)
    BY <1>1, <1>2, <1>6, <1>9
  <2>3. 1..(Len(fs) - 1) = {}
    BY <1>1
  <2>4. Len(s) = Len(f.below) + Height(f)
    BY <1>2, <1>5, <1>6
  <2>5. fs[1].below = <<>>
    BY <1>1
  <2>6. QED
    BY <1>1, <1>2, <2>1, <2>2, <2>3, <2>4, <2>5 DEF Heaped
<1>11. QED
  BY <1>10 DEF fs, s

LEMMA ExecutionIs ==
  ASSUME NEW fn \in DOMAIN Udf \cup {"main"}, NEW e \in Expr, NEW args, NEW below, NEW f,
         f = Execution(fn, e, args, below)
  PROVE  /\ IsFrame(f) /\ Balanced(f.code) /\ f.pc = 1 /\ f.below = below
         /\ f.fn = fn /\ f.args = args
<1>1. f = [fn |-> fn, code |-> Code(e, fn), pc |-> 1, args |-> args, below |-> below]
  BY DEF Execution
<1>2. f.code = Code(e, fn) /\ f.pc = 1 /\ f.below = below /\ f.fn = fn /\ f.args = args
  BY <1>1
<1>3. IsFrame(f)
  BY <1>1, <1>2 DEF IsFrame
<1>4. QED
  BY <1>2, <1>3, LayoutsAreBalanced

LEMMA EvaluateStack ==
  ASSUME NEW e \in Exprs \cup Probes, Evaluate(e)
  PROVE  StackInv'
<1> DEFINE f == Execution("main", e, <<>>, <<>>)
<1>1. stack' = <<>> /\ status' = "run" /\ frames' = <<f>>
  BY DEF Evaluate, reset_stack
<1>2. e \in Expr
  BY PlotStackAssumption
<1>3. IsFrame(f) /\ Balanced(f.code) /\ f.pc = 1 /\ f.below = <<>>
  BY <1>2, ExecutionIs
<1> HIDE DEF f
<1>4. Heaped(<<f>>, <<>>)
  BY <1>3, EvaluateHeaped
<1>5. QED
  BY <1>1, <1>4 DEF StackInv

LEMMA PlainIs ==
  ASSUME NEW op \in Plain
  PROVE  op \notin {"jump", "jumpz", "jumpnz", "jtern"}
BY DEF Plain, One, Bessel, Two, Logicals

(* An action that leaves a value and goes on with the next. *)
LEMMA PlainStep ==
  ASSUME Heaped(frames, stack), Here.pc <= Len(Here.code), Action.op \in Plain,
         NEW t, Replaces(stack, Needs(Action), 1, t)
  PROVE  Heaped(Skip(1), t)
<1>1. Exit(Action, 1, 1)
  BY DEF Exit
<1>2. QED
  BY <1>1, Step

LEMMA DoingIs ==
  ASSUME NEW ops, Doing(ops), StackInv
  PROVE  /\ status = "run" /\ Heaped(frames, stack) /\ Here.pc <= Len(Here.code) /\ Action.op \in ops
         /\ IsSeq(stack) /\ Len(stack) \in Nat /\ Needs(Action) \in 0..Len(stack) /\ Known(Action)
<1>1. status = "run" /\ Heaped(frames, stack) /\ Here.pc <= Len(Here.code) /\ Action.op \in ops
  BY DEF Doing, StackInv
<1>2. QED
  BY <1>1, StackHas

LEMMA OperateStack ==
  ASSUME StackInv, Operate
  PROVE  StackInv'
<1> DEFINE ops == One \cup Two \cup Bessel \cup {"rand"}
           op == Action.op
           m == Machine(stack, undefined, status)
<1>1. Doing(ops) /\ frames' = Skip(1)
  BY DEF Operate
<1>2. PICK r \in IF op \in Bessel THEN Composed(op, m) ELSE Operator(op, m) :
             stack' = r.stack /\ undefined' = r.undefined /\ status' = r.status
  BY DEF Operate
<1>3. /\ status = "run" /\ Heaped(frames, stack) /\ Here.pc <= Len(Here.code) /\ op \in ops
      /\ IsSeq(stack) /\ Len(stack) \in Nat /\ Needs(Action) \in 0..Len(stack)
  BY <1>1, DoingIs
<1>4. op \in Plain /\ Needs(Action) = Takes(op)
  <2>1. op \in Eager
    BY <1>3 DEF Eager
  <2>2. op \in Plain /\ op \notin JumpOps /\ op # "call"
    BY <2>1, EagerAre
  <2> HIDE DEF op
  <2>3. QED
    BY <2>2 DEF Needs, JumpOps, op
<1>5. m.stack = stack /\ m.status = "run"
  BY <1>3, MachineIs
<1> HIDE DEF m, op, ops
<1>6. Leaves(r, stack, Takes(op), 1)
  <2>1. CASE op \in Bessel
    <3>1. Takes(op) = 1
      BY <2>1 DEF Takes, Bessel, One, Two, Logicals
    <3>2. 1 <= Len(m.stack)
      BY <1>3, <1>4, <1>5, <3>1
    <3>3. r \in Composed(op, m)
      BY <1>2, <2>1
    <3>4. Leaves(r, m.stack, 1, 1)
      BY <1>3, <1>5, <2>1, <3>2, <3>3, ComposedLeaves
    <3>5. QED
      BY <1>5, <3>1, <3>4
  <2>2. CASE op \notin Bessel
    <3>1. r \in Operator(op, m)
      BY <1>2, <2>2
    <3>2. Leaves(r, m.stack, Takes(op), 1)
      BY <1>3, <1>4, <1>5, <3>1, OperatorLeaves
    <3>3. QED
      BY <1>5, <3>2
  <2>3. QED
    BY <2>1, <2>2
<1>7. status' \in Ends \cup {"run"}
  BY <1>2, <1>6 DEF Leaves
<1>8. ASSUME status' = "run"
      PROVE  Heaped(frames', stack')
  <2>1. Replaces(stack, Needs(Action), 1, stack')
    BY <1>2, <1>4, <1>6, <1>8 DEF Leaves
  <2>2. Heaped(Skip(1), stack')
    BY <1>3, <1>4, <2>1, PlainStep DEF op
  <2>3. QED
    BY <1>1, <2>2
<1>9. QED
  BY <1>7, <1>8 DEF StackInv, Ends

LEMMA GivesUpStack ==
  ASSUME GivesUp
  PROVE  StackInv'
BY DEF GivesUp, StackInv

LEMMA PushesStack ==
  ASSUME StackInv, NEW op \in {"push", "pushc", "pushd"}, Doing({op}), NEW v, Pushes(v)
  PROVE  StackInv'
<1>1. /\ status = "run" /\ Heaped(frames, stack) /\ Here.pc <= Len(Here.code) /\ Action.op \in {op}
      /\ IsSeq(stack) /\ Len(stack) \in Nat
  BY DoingIs
<1>2. Action.op \in Plain /\ Needs(Action) = 0
  BY <1>1 DEF Plain, Needs, Takes, One, Bessel, Two, Logicals
<1>3. stack' = Append(stack, v) /\ frames' = Skip(1) /\ status' = status
  BY DEF Pushes
<1>4. Replaces(stack, 0, 1, Append(stack, v))
  <2> DEFINE l == Len(stack)
             t == Append(stack, v)
  <2>1. IsSeq(t) /\ Len(t) = l + 1 /\ \A i \in 1..l : t[i] = stack[i]
    BY <1>1, AppendIs
  <2>2. l \in Nat
    BY <1>1
  <2> HIDE DEF l, t
  <2>3. Len(t) = l - 0 + 1 /\ \A i \in 1..(l - 0) : t[i] = stack[i]
    BY <2>1, <2>2
  <2>4. QED
    BY <2>1, <2>3 DEF Replaces, l, t
<1>5. Heaped(Skip(1), Append(stack, v))
  BY <1>1, <1>2, <1>4, PlainStep
<1>6. QED
  BY <1>1, <1>3, <1>5 DEF StackInv

LEMMA PushStack ==
  ASSUME StackInv, f_push
  PROVE  StackInv'
<1>1. Doing({"push"}) /\ (GivesUp \/ Pushes(Var[Action.name]))
  BY DEF f_push
<1>2. QED
  BY <1>1, GivesUpStack, PushesStack

LEMMA PushcStack ==
  ASSUME StackInv, f_pushc
  PROVE  StackInv'
BY PushesStack DEF f_pushc

LEMMA PushdStack ==
  ASSUME StackInv, f_pushd
  PROVE  StackInv'
BY PushesStack DEF f_pushd

(* The body of a function begins below its arguments. *)
LEMMA CallStack ==
  ASSUME StackInv, f_call
  PROVE  StackInv' /\ (status' = "run" => Action.fn \in DOMAIN Udf)
<1> DEFINE fn == Action.fn
           k == Udf[fn].n_arg
           s == Under(stack, k)
           f == Execution(fn, Udf[fn].body, Upper(stack, k), s)
<1>1. Doing({"call"})
  BY DEF f_call
<1>2. /\ status = "run" /\ Heaped(frames, stack) /\ Here.pc <= Len(Here.code) /\ Action.op = "call"
      /\ IsSeq(stack) /\ Len(stack) \in Nat /\ Needs(Action) \in 0..Len(stack) /\ Known(Action)
  BY <1>1, DoingIs
<1>3. fn \in DOMAIN Udf /\ Needs(Action) = k /\ Action.op \in Plain
  BY <1>2 DEF Known, Needs, Plain
<1>4. CASE GivesUp
  BY <1>3, <1>4, GivesUpStack
<1>5. CASE ~ GivesUp
  <2>1. /\ Udf[fn].body # NoBody /\ stack' = s /\ status' = status
        /\ frames' = Append(Skip(1), f)
    BY <1>5 DEF f_call
  <2>2. Udf[fn].body \in Expr
    BY <1>3, <2>1, PlotStackAssumption
  <2>3. IsFrame(f) /\ Balanced(f.code) /\ f.pc = 1 /\ f.below = s
    BY <1>3, <2>2, ExecutionIs
  <2>4. k \in 0..Len(stack) /\ Len(Here.below) + k <= Len(stack) /\ Len(Here.below) \in Nat
    BY <1>2, <1>3, StackHas
  <2>5. IsSeq(s) /\ Len(s) = Len(stack) - k /\ \A i \in 1..(Len(stack) - k) : s[i] = stack[i]
    BY <1>2, <2>4, UnderIs
  <2> HIDE DEF f, fn, k
  <2> DEFINE t == Append(s, 0)
             gs == Skip(1)
             n == Len(frames)
  <2>6. Replaces(stack, k, 1, t)
    BY <1>2, <2>4, AppendUnder
  <2>7. IsSeq(t) /\ Len(t) = Len(s) + 1 /\ \A i \in 1..Len(s) : t[i] = s[i]
    BY <2>5, AppendIs
  <2> HIDE DEF s
  <2> HIDE DEF t
  <2>8. Heaped(gs, t)
    BY <1>2, <1>3, <2>6, PlainStep
  <2>9. Len(gs) = n /\ gs[n].below = Here.below
    <3>1. IsSeq(frames) /\ n \in Nat /\ n > 0
      BY <1>2, LenIsNat DEF Heaped
    <3>2. n \in 1..n
      BY <3>1
    <3>3. IsFrame(frames[n])
      BY <1>2, <3>2 DEF Heaped, FrameOK
    <3>4. QED
      BY <3>1, <3>3, SkipIs DEF Here
  <2> HIDE DEF gs
  <2> DEFINE l == Len(s)
             b == Len(Here.below)
             m == Len(stack)
  <2>10. l = m - k /\ m \in Nat /\ k \in 0..m /\ b + k <= m /\ b \in Nat
    BY <1>2, <2>4, <2>5
  <2>11. Len(gs[Len(gs)].below) = b
    BY <2>9
  <2>12. Len(t) = l + 1
    BY <2>7
  <2> HIDE DEF l, b, m
  <2>13. b <= l /\ l \in Nat /\ Len(t) - 1 + 0 = l
    BY <2>10, <2>12
  <2>14. Replaces(t, 1, 0, s)
    <3>1. Len(t) - 1 = l
      BY <2>12, <2>13
    <3>2. \A i \in 1..l : s[i] = t[i]
      BY <2>7 DEF l
    <3>3. QED
      BY <2>5, <2>13, <3>1, <3>2 DEF Replaces, l
  <2>15. Heaped(Append(gs, f), s)
    BY <2>3, <2>5, <2>7, <2>8, <2>11, <2>13, <2>14, PushFrame DEF l
  <2>16. QED
    BY <1>2, <1>3, <2>1, <2>15 DEF StackInv, gs, fn
<1>6. QED
  BY <1>4, <1>5

LEMMA EitherIs ==
  ASSUME NEW x, NEW A, NEW B, NEW y \in Either(x, A, B)
  PROVE  y \in A \cup B
BY DEF Either

LEMMA GoesIs ==
  ASSUME NEW s, NEW go, NEW g \in Goes(s, go)
  PROVE  g.stack = s /\ g.go = go
BY DEF Goes

(* A jump leaves the stack or pops the top, as Exit says. *)
LEMMA JumpIsExit ==
  ASSUME NEW op \in JumpOps, NEW s, NEW j, NEW g \in JumpTo(op, s, j)
  PROVE  \/ op = "jump" /\ g.stack = s /\ g.go = j
         \/ op \in {"jumpz", "jumpnz"} /\ g.stack = Under(s, 1) /\ g.go = 1
         \/ op \in {"jumpz", "jumpnz"} /\ g.stack = s /\ g.go = j
         \/ op = "jtern" /\ g.stack = Under(s, 1) /\ g.go \in {1, j}
<1>1. CASE op = "jump"
  <2>1. g \in Goes(s, j)
    BY <1>1 DEF JumpTo, f_jump
  <2>2. QED
    BY <1>1, <2>1, GoesIs
<1>2. CASE op = "jumpz"
  <2>1. g \in Either(Top(s).int, Goes(s, j), Goes(Under(s, 1), 1))
    BY <1>2 DEF JumpTo, f_jumpz
  <2>2. g \in Goes(s, j) \cup Goes(Under(s, 1), 1)
    BY <2>1, EitherIs
  <2>3. QED
    BY <1>2, <2>2, GoesIs
<1>3. CASE op = "jumpnz"
  <2>1. g \in Either(Top(s).int, Goes(Under(s, 1), 1), Goes(s, j))
    BY <1>3 DEF JumpTo, f_jumpnz
  <2>2. g \in Goes(s, j) \cup Goes(Under(s, 1), 1)
    BY <2>1, EitherIs
  <2>3. QED
    BY <1>3, <2>2, GoesIs
<1>4. CASE op = "jtern"
  <2>1. g \in Either(Top(s).int, Goes(Under(s, 1), j), Goes(Under(s, 1), 1))
    BY <1>4 DEF JumpTo, f_jtern
  <2>2. g \in Goes(Under(s, 1), j) \cup Goes(Under(s, 1), 1)
    BY <2>1, EitherIs
  <2>3. QED
    BY <1>4, <2>2, GoesIs
<1>5. QED
  BY <1>1, <1>2, <1>3, <1>4 DEF JumpOps

LEMMA JumpsStack ==
  ASSUME StackInv, Jumps
  PROVE  StackInv'
<1> DEFINE op == Action.op
           j == Action.j_arg
<1>1. Doing(JumpOps)
  BY DEF Jumps
<1>2. /\ status = "run" /\ Heaped(frames, stack) /\ Here.pc <= Len(Here.code) /\ op \in JumpOps
      /\ IsSeq(stack) /\ Needs(Action) \in 0..Len(stack) /\ Known(Action)
  BY <1>1, DoingIs
<1>3. j \in Nat
  BY <1>2 DEF Known
<1>4. Needs(Action) = IF op = "jump" THEN 0 ELSE 1
  <2>1. op # "call" /\ Takes(op) = 0
    BY <1>2 DEF JumpOps, Takes, One, Bessel, Two, Logicals
  <2>2. QED
    BY <1>2, <2>1 DEF Needs, JumpOps
<1>5. CASE GivesUp
  BY <1>5, GivesUpStack
<1>6. CASE ~ GivesUp
  <2>1. PICK g \in JumpTo(op, stack, j) : stack' = g.stack /\ frames' = Skip(g.go)
    BY <1>6 DEF Jumps
  <2>2. status' = status
    BY <1>6 DEF Jumps
  <2> HIDE DEF op, j
  <2>3. \E go, left \in Nat :
          go = g.go /\ Exit(Action, go, left) /\ Replaces(stack, Needs(Action), left, g.stack)
    <3>1. 1 \in Nat /\ 0 \in Nat /\ j \in Nat
      BY <1>3
    <3>2. CASE op = "jump" /\ g.stack = stack /\ g.go = j
      <4>1. Needs(Action) = 0
        BY <1>4, <3>2
      <4>2. Replaces(stack, 0, 0, stack)
        BY <1>2, SameReplaces
      <4>3. Exit(Action, j, 0)
        BY <3>2 DEF Exit, op, j
      <4>4. QED
        BY <3>1, <3>2, <4>1, <4>2, <4>3
    <3>3. CASE op \in {"jumpz", "jumpnz"} /\ g.stack = stack /\ g.go = j
      <4>1. Needs(Action) = 1
        BY <1>4, <3>3
      <4>2. Replaces(stack, 1, 1, stack)
        BY <1>2, SameReplaces
      <4>3. Exit(Action, j, 1)
        BY <3>3 DEF Exit, op, j
      <4>4. QED
        BY <3>1, <3>3, <4>1, <4>2, <4>3
    <3>4. CASE /\ g.stack = Under(stack, 1)
               /\ (op \in {"jumpz", "jumpnz"} /\ g.go = 1) \/ (op = "jtern" /\ g.go \in {1, j})
      <4>1. Needs(Action) = 1
        BY <1>4, <3>4
      <4>2. Replaces(stack, 1, 0, Under(stack, 1))
        BY <1>2, <4>1, UnderReplaces
      <4>3. Exit(Action, g.go, 0)
        BY <3>4 DEF Exit, op, j
      <4>4. g.go \in Nat
        BY <3>1, <3>4
      <4>5. QED
        BY <3>1, <3>4, <4>1, <4>2, <4>3, <4>4
    <3>5. QED
      BY <1>2, <3>2, <3>3, <3>4, JumpIsExit
  <2>4. Heaped(Skip(g.go), g.stack)
    BY <1>2, <2>3, Step
  <2>5. QED
    BY <1>2, <2>1, <2>2, <2>4 DEF StackInv
<1>7. QED
  BY <1>5, <1>6

(* Behind the last action the last execution has left one value. *)
LEMMA EndIs ==
  ASSUME StackInv, status = "run", Here.pc > Len(Here.code)
  PROVE  /\ Heaped(frames, stack) /\ Len(frames) \in Nat /\ Len(frames) > 0
         /\ Height(frames[Len(frames)]) = 1 /\ Len(stack) = Len(Here.below) + 1
<1> DEFINE n == Len(frames)
<1>1. Heaped(frames, stack)
  BY DEF StackInv
<1>2. n \in Nat /\ n > 0
  BY <1>1, LenIsNat DEF Heaped
<1>3. n \in 1..n
  BY <1>2
<1>4. FrameOK(frames[n], stack)
  BY <1>1, <1>3 DEF Heaped
<1>5. Height(frames[n]) = 1
  BY <1>4, HeightIs DEF Here, FrameOK
<1>6. QED
  BY <1>1, <1>2, <1>5 DEF Heaped, Here

LEMMA ReturnStack ==
  ASSUME StackInv, Return
  PROVE  StackInv'
<1> DEFINE n == Len(frames) - 1
<1>1. status = "run" /\ Here.pc > Len(Here.code) /\ Len(frames) > 1
      /\ frames' = Seqs!Front(frames) /\ stack' = stack /\ status' = status
  BY DEF Return
<1>2. Heaped(frames, stack) /\ Len(frames) \in Nat /\ Height(frames[Len(frames)]) = 1
  BY <1>1, EndIs
<1>3. n \in Nat /\ n > 0 /\ Len(frames) = n + 1
  BY <1>1, <1>2
<1> HIDE DEF n
<1>4. Heaped(Seqs!Front(frames), stack)
  BY <1>2, <1>3, PopFrame
<1>5. QED
  BY <1>1, <1>4 DEF StackInv

LEMMA FinishStack ==
  ASSUME StackInv, Finish
  PROVE  StackInv'
<1>1. status = "run" /\ Here.pc > Len(Here.code) /\ Len(frames) = 1
      /\ stack' = Under(stack, 1) /\ status' = "done"
  BY DEF Finish
<1>2. Heaped(frames, stack) /\ Len(stack) = Len(Here.below) + 1
  BY <1>1, EndIs
<1>3. Here.below = <<>> /\ IsSeq(stack)
  BY <1>1, <1>2 DEF Here, Heaped
<1>4. Len(stack) = 1
  BY <1>2, <1>3, EmptyIs
<1>5. 1 \in 0..Len(stack)
  BY <1>4
<1>6. IsSeq(Under(stack, 1)) /\ Len(Under(stack, 1)) = Len(stack) - 1
  BY <1>3, <1>5, UnderIs
<1>7. Under(stack, 1) = <<>>
  BY <1>4, <1>6, EmptyOnly
<1>8. QED
  BY <1>1, <1>7 DEF StackInv

LEMMA StackStep == StackInv /\ [PlotNext]_plotvars => StackInv'
<1> SUFFICES ASSUME StackInv, [PlotNext]_plotvars
             PROVE  StackInv'
  OBVIOUS
<1>1. CASE \E e \in (IF status = "idle" THEN Exprs ELSE Probes) : Evaluate(e)
  <2>1. PICK e \in Exprs \cup Probes : Evaluate(e)
    BY <1>1
  <2>2. QED
    BY <2>1, EvaluateStack
<1>2. CASE Operate
  BY <1>2, OperateStack
<1>3. CASE f_push
  BY <1>3, PushStack
<1>4. CASE f_pushc
  BY <1>4, PushcStack
<1>5. CASE f_pushd
  BY <1>5, PushdStack
<1>6. CASE f_call
  BY <1>6, CallStack
<1>7. CASE Jumps
  BY <1>7, JumpsStack
<1>8. CASE Return
  BY <1>8, ReturnStack
<1>9. CASE Finish
  BY <1>9, FinishStack
<1>10. CASE UNCHANGED plotvars
  BY <1>10 DEF plotvars, StackInv
<1>11. QED
  BY <1>1, <1>2, <1>3, <1>4, <1>5, <1>6, <1>7, <1>8, <1>9, <1>10 DEF PlotNext

LEMMA StackImplies == StackInv => StackBalanced
<1> SUFFICES ASSUME StackInv
             PROVE  StackBalanced
  OBVIOUS
<1>1. ASSUME status = "run", NEW i \in DOMAIN frames
      PROVE  /\ Seqs!IsPrefix(frames[i].below, stack)
             /\ i = Len(frames) /\ frames[i].pc > Len(frames[i].code) => Len(stack) = Len(frames[i].below) + 1
  <2>1. Heaped(frames, stack)
    BY <1>1 DEF StackInv
  <2>2. IsSeq(frames) /\ IsSeq(stack)
    BY <2>1 DEF Heaped
  <2>3. i \in 1..Len(frames)
    BY <2>2, LenIsNat
  <2>4. Lies(frames[i].below, stack)
    BY <2>1, <2>3 DEF Heaped, FrameOK
  <2>5. Seqs!IsPrefix(frames[i].below, stack)
    BY <2>2, <2>4, PrefixIs DEF Lies
  <2>6. ASSUME i = Len(frames), frames[i].pc > Len(frames[i].code)
        PROVE  Len(stack) = Len(frames[i].below) + 1
    BY <1>1, <2>6, EndIs DEF Here
  <2>7. QED
    BY <2>5, <2>6
<1>2. status = "done" => stack = <<>>
  BY DEF StackInv
<1>3. QED
  BY <1>1, <1>2 DEF StackBalanced

(* The stack is as high as the places of the executions say, in every state. *)
THEOREM StackInvariant == PlotSpec => []StackInv
<1>1. PlotInit => StackInv
  BY InitStack
<1>2. StackInv /\ [PlotNext]_plotvars => StackInv'
  BY StackStep
<1>3. QED
  BY <1>1, <1>2, PTL DEF PlotSpec

(* Each execution leaves what is below its arguments alone and one value     *)
(* above, and nothing is left when an evaluation is done: check_stack never  *)
(* warns.                                                                   *)
THEOREM EvaluationsBalance == PlotSpec => []StackBalanced
BY StackInvariant, StackImplies, PTL

(* Every action finds its operands above what its execution began with: the  *)
(* stack underflow that pop tests for only if DEBUG is defined cannot happen, *)
(* and no execution touches the values of the one below it.                  *)
OperandsThere ==
  status = "run" /\ Here.pc <= Len(Here.code) =>
    Known(Action) /\ Len(Here.below) + Needs(Action) <= Len(stack)

THEOREM NeverUnderflows == PlotSpec => []OperandsThere
<1>1. StackInv => OperandsThere
  BY StackHas DEF StackInv, OperandsThere
<1>2. QED
  BY <1>1, StackInvariant, PTL

-----------------------------------------------------------------------------
(***************************************************************************)
(* The arguments of functions.                                              *)
(***************************************************************************)

ArgInv == /\ dummy = [f \in DOMAIN Udf |-> dummy[f]]
          /\ status = "run" => \A i \in 2..Len(frames) : frames[i].fn \in DOMAIN Udf
          /\ CallSeesArguments

LEMMA CallArgs ==
  ASSUME StackInv, ArgInv, f_call
  PROVE  ArgInv'
<1> DEFINE fn == Action.fn
           k == Udf[fn].n_arg
           s == Under(stack, k)
           f == Execution(fn, Udf[fn].body, Upper(stack, k), s)
           n == Len(frames)
           gs == Skip(1)
<1>1. Doing({"call"})
  BY DEF f_call
<1>2. status = "run" /\ Heaped(frames, stack) /\ IsSeq(stack) /\ Here.pc <= Len(Here.code)
  BY <1>1, DoingIs
<1>3. CASE GivesUp
  <2>1. status' = "int_error" /\ dummy' = dummy
    BY <1>2, <1>3 DEF f_call, GivesUp
  <2>2. QED
    BY <2>1 DEF ArgInv, CallSeesArguments
<1>4. CASE ~ GivesUp
  <2>1. /\ Udf[fn].body # NoBody /\ stack' = s /\ status' = "run"
        /\ dummy' = [dummy EXCEPT ![fn] = Popped(dummy[fn], stack, k)]
        /\ frames' = Append(gs, f)
        /\ reentered' = (reentered \/ \E i \in DOMAIN frames : frames[i].fn = fn)
    BY <1>2, <1>4 DEF f_call
  <2>2. fn \in DOMAIN Udf
    BY <2>1, CallStack
  <2>3. Udf[fn].body \in Expr /\ k \in 1..4
    BY <2>1, <2>2, PlotStackAssumption
  <2>4. f.fn = fn /\ f.args = Upper(stack, k)
    BY <2>2, <2>3, ExecutionIs
  <2>5. k \in 0..Len(stack)
    <3>1. Action.op = "call"
      BY <1>1, DoingIs
    <3>2. Needs(Action) = k
      BY <3>1 DEF Needs
    <3>3. QED
      BY <1>2, <3>2, StackHas
  <2>6. \A i \in 1..k : f.args[i] = stack[Len(stack) - k + i]
    BY <1>2, <2>4, <2>5, UpperIs
  <2>7. n \in Nat /\ n > 0 /\ IsSeq(frames) /\ DOMAIN frames = 1..n
    BY <1>2, LenIsNat DEF Heaped
  <2>8. IsFrame(frames[n])
    <3>1. n \in 1..n
      BY <2>7
    <3>2. QED
      BY <1>2, <3>1 DEF Heaped, FrameOK
  <2>9. /\ IsSeq(gs) /\ Len(gs) = n /\ (\A i \in 1..(n - 1) : gs[i] = frames[i])
        /\ gs[n].fn = frames[n].fn /\ gs[n].args = frames[n].args
    BY <2>7, <2>8, SkipIs
  <2> HIDE DEF f, gs, fn, n, k, s
  <2>10. /\ Len(frames') = n + 1 /\ frames'[n + 1] = f /\ DOMAIN frames' = 1..(n + 1)
         /\ \A i \in 1..n : frames'[i].fn = frames[i].fn /\ frames'[i].args = frames[i].args
    <3>1. IsSeq(frames') /\ Len(frames') = n + 1 /\ (\A i \in 1..n : frames'[i] = gs[i]) /\ frames'[n + 1] = f
      BY <2>1, <2>9, AppendIs
    <3>2. ASSUME NEW i \in 1..n
          PROVE  frames'[i].fn = frames[i].fn /\ frames'[i].args = frames[i].args
      <4>1. CASE i = n
        BY <2>9, <3>1, <4>1
      <4>2. CASE i # n
        <5>1. i \in 1..(n - 1)
          BY <2>7, <4>2
        <5>2. QED
          BY <2>9, <3>1, <5>1
      <4>3. QED
        BY <4>1, <4>2
    <3>3. QED
      BY <3>1, <3>2, LenIsNat
  <2>11. dummy = [g \in DOMAIN Udf |-> dummy[g]]
    BY DEF ArgInv
  <2>12. /\ dummy' = [g \in DOMAIN Udf |-> dummy'[g]]
         /\ dummy'[fn] = Popped(dummy[fn], stack, k)
         /\ \A g \in DOMAIN Udf : g # fn => dummy'[g] = dummy[g]
    BY <2>1, <2>2, <2>11
  <2>13. \A i \in 2..n : frames[i].fn \in DOMAIN Udf
    BY <1>2 DEF ArgInv, n
  <2>14. \A i \in 2..(n + 1) : frames'[i].fn \in DOMAIN Udf
    <3>1. \A i \in 2..(n + 1) : i = n + 1 \/ (i \in 2..n /\ i \in 1..n)
      BY <2>7
    <3>2. QED
      BY <2>2, <2>4, <2>10, <2>13, <3>1
  <2>15. ASSUME ~ reentered', NEW i \in 2..(n + 1), NEW j \in 1..Udf[frames'[i].fn].n_arg
         PROVE  dummy'[frames'[i].fn][j] = frames'[i].args[j]
    <3>1. CASE i = n + 1
      <4>1. frames'[i].fn = fn /\ frames'[i].args = f.args
        BY <2>4, <2>10, <3>1
      <4>2. j \in 1..k
        BY <2>15, <4>1 DEF k
      <4>3. j \in 1..4 /\ j <= k
        BY <2>3, <4>2
      <4>4. Popped(dummy[fn], stack, k)[j] = stack[Len(stack) - k + j]
        BY <4>3 DEF Popped
      <4>5. QED
        BY <2>6, <2>12, <4>1, <4>2, <4>4
    <3>2. CASE i # n + 1
      <4>1. i \in 2..n /\ i \in 1..n /\ i \in DOMAIN frames \ {1}
        BY <2>7, <3>2
      <4>2. ~ reentered /\ frames[i].fn # fn
        BY <2>1, <2>15, <4>1
      <4>3. frames'[i].fn = frames[i].fn /\ frames'[i].args = frames[i].args
        BY <2>10, <4>1
      <4>4. dummy[frames[i].fn][j] = frames[i].args[j]
        BY <1>2, <2>15, <4>1, <4>2, <4>3 DEF ArgInv, CallSeesArguments
      <4>5. dummy'[frames[i].fn] = dummy[frames[i].fn]
        BY <2>12, <2>13, <4>1, <4>2
      <4>6. QED
        BY <4>3, <4>4, <4>5
    <3>3. QED
      BY <3>1, <3>2
  <2>16. \A i \in DOMAIN frames' \ {1} : i \in 2..(n + 1)
    BY <2>7, <2>10
  <2>17. CallSeesArguments'
    BY <2>15, <2>16 DEF CallSeesArguments
  <2>18. QED
    BY <2>10, <2>12, <2>14, <2>17 DEF ArgInv
<1>5. QED
  BY <1>3, <1>4

(* The executions are those of before, at other places or without the last. *)
LEMMA SameCallsArgs ==
  ASSUME ArgInv, dummy' = dummy, reentered' = reentered, status = "run",
         status' = "run" => /\ \A i \in DOMAIN frames' : /\ i \in DOMAIN frames
                                                         /\ frames'[i].fn = frames[i].fn
                                                         /\ frames'[i].args = frames[i].args
                            /\ DOMAIN frames = 1..Len(frames) /\ DOMAIN frames' = 1..Len(frames')
  PROVE  ArgInv'
<1>1. ASSUME status' = "run", NEW i \in 2..Len(frames')
      PROVE  frames'[i].fn \in DOMAIN Udf
  <2>1. i \in DOMAIN frames'
    BY <1>1
  <2>2. i \in 2..Len(frames) /\ frames'[i].fn = frames[i].fn
    BY <1>1, <2>1
  <2>3. QED
    BY <2>2 DEF ArgInv
<1>2. CallSeesArguments'
  BY DEF ArgInv, CallSeesArguments
<1>3. QED
  BY <1>1, <1>2 DEF ArgInv

LEMMA SkipArgs ==
  ASSUME StackInv, ArgInv, dummy' = dummy, reentered' = reentered, status = "run",
         status' = "run" => \E go : frames' = Skip(go)
  PROVE  ArgInv'
<1> DEFINE n == Len(frames)
<1>1. n \in Nat /\ n > 0 /\ IsSeq(frames) /\ DOMAIN frames = 1..n /\ IsFrame(frames[n])
  <2>1. Heaped(frames, stack)
    BY DEF StackInv
  <2>2. n \in Nat /\ n > 0 /\ IsSeq(frames) /\ DOMAIN frames = 1..n
    BY <2>1, LenIsNat DEF Heaped
  <2>3. n \in 1..n
    BY <2>2
  <2>4. QED
    BY <2>1, <2>2, <2>3 DEF Heaped, FrameOK
<1>2. ASSUME NEW go, frames' = Skip(go)
      PROVE  /\ \A i \in DOMAIN frames' : /\ i \in DOMAIN frames
                                          /\ frames'[i].fn = frames[i].fn
                                          /\ frames'[i].args = frames[i].args
             /\ DOMAIN frames = 1..Len(frames) /\ DOMAIN frames' = 1..Len(frames')
  <2>1. /\ IsSeq(frames') /\ Len(frames') = n /\ (\A i \in 1..(n - 1) : frames'[i] = frames[i])
        /\ frames'[n].fn = frames[n].fn /\ frames'[n].args = frames[n].args
    BY <1>1, <1>2, SkipIs
  <2>2. DOMAIN frames' = 1..n /\ DOMAIN frames' = 1..Len(frames')
    BY <2>1, LenIsNat
  <2>3. \A i \in 1..n : i = n \/ i \in 1..(n - 1)
    <3> HIDE DEF n
    <3>1. QED
      BY <1>1
  <2>4. QED
    BY <1>1, <2>1, <2>2, <2>3
<1>3. QED
  BY <1>2, SameCallsArgs

LEMMA ArgStep == StackInv /\ ArgInv /\ [PlotNext]_plotvars => ArgInv'
<1> SUFFICES ASSUME StackInv, ArgInv, [PlotNext]_plotvars
             PROVE  ArgInv'
  OBVIOUS
<1>1. CASE \E e \in (IF status = "idle" THEN Exprs ELSE Probes) : Evaluate(e)
  <2>1. PICK e : Evaluate(e)
    BY <1>1
  <2> DEFINE f == Execution("main", e, <<>>, <<>>)
  <2>2. frames' = <<f>> /\ dummy' = dummy
    BY <2>1 DEF Evaluate, reset_stack
  <2> HIDE DEF f
  <2>3. 2..Len(frames') = {} /\ DOMAIN frames' \ {1} = {}
    BY <2>2, SingleIs, LenIsNat
  <2>4. QED
    BY <2>2, <2>3 DEF ArgInv, CallSeesArguments
<1>2. CASE Operate
  <2>1. status = "run" /\ dummy' = dummy /\ reentered' = reentered /\ frames' = Skip(1)
    BY <1>2 DEF Operate, Doing, Keeps
  <2>2. QED
    BY <2>1, SkipArgs
<1>3. CASE f_push \/ f_pushc \/ f_pushd
  <2>1. status = "run" /\ dummy' = dummy /\ reentered' = reentered
        /\ (status' = "int_error" \/ frames' = Skip(1))
    BY <1>3 DEF f_push, f_pushc, f_pushd, Doing, Keeps, GivesUp, Pushes
  <2>2. QED
    BY <2>1, SkipArgs
<1>4. CASE f_call
  BY <1>4, CallArgs
<1>5. CASE Jumps
  <2>1. status = "run" /\ dummy' = dummy /\ reentered' = reentered
        /\ (status' = "int_error" \/ \E go : frames' = Skip(go))
    BY <1>5 DEF Jumps, Doing, Keeps, GivesUp
  <2>2. QED
    BY <2>1, SkipArgs
<1>6. CASE Return
  <2> DEFINE n == Len(frames) - 1
  <2>1. status = "run" /\ dummy' = dummy /\ reentered' = reentered /\ frames' = Seqs!Front(frames)
        /\ Len(frames) > 1 /\ Here.pc > Len(Here.code)
    BY <1>6 DEF Return, Keeps
  <2>2. IsSeq(frames) /\ DOMAIN frames = 1..Len(frames) /\ Len(frames) \in Nat
    BY <2>1, EndIs, LenIsNat DEF Heaped
  <2>3. n \in Nat /\ Len(frames) = n + 1
    BY <2>1, <2>2
  <2> HIDE DEF n
  <2>4. IsSeq(frames') /\ Len(frames') = n /\ \A i \in 1..n : frames'[i] = frames[i]
    BY <2>1, <2>2, <2>3, FrontIs
  <2>5. DOMAIN frames' = 1..n /\ DOMAIN frames' = 1..Len(frames') /\ \A i \in 1..n : i \in 1..(n + 1)
    BY <2>3, <2>4, LenIsNat
  <2>6. QED
    BY <2>1, <2>2, <2>3, <2>4, <2>5, SameCallsArgs
<1>7. CASE Finish
  <2>1. dummy' = dummy /\ status' = "done"
    BY <1>7 DEF Finish
  <2>2. QED
    BY <2>1 DEF ArgInv, CallSeesArguments
<1>8. CASE UNCHANGED plotvars
  BY <1>8 DEF plotvars, ArgInv, CallSeesArguments
<1>9. QED
  BY <1>1, <1>2, <1>3, <1>4, <1>5, <1>6, <1>7, <1>8 DEF PlotNext

(* A function that is not entered again before it is left sees the arguments *)
(* of its own call until then, whatever is called in between.               *)
THEOREM CallsSeeTheirArguments == PlotSpec => []CallSeesArguments
<1>1. PlotInit => ArgInv
  BY DEF PlotInit, ArgInv, CallSeesArguments
<1>2. StackInv /\ ArgInv /\ [PlotNext]_plotvars => ArgInv'
  BY ArgStep
<1>3. ArgInv => CallSeesArguments
  BY DEF ArgInv
<1>4. QED
  BY <1>1, <1>2, <1>3, StackInvariant, PTL DEF PlotSpec

=============================================================================
