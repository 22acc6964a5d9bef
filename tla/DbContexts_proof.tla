--------------------------- MODULE DbContexts_proof ---------------------------
(***************************************************************************)
(* What holds of DbContexts for any number of contexts and facts, as long as *)
(* killcontext is not used on the subcontext of another context.             *)
(*                                                                         *)
(* The argument has two parts.  The order of $contexts: a context is newer   *)
(* than its subcontext, so that killallcontexts, which begins with the        *)
(* newest, never takes away what a context it has not come to rests on        *)
(* (DbOrder).  The marks: every operation that moves marks along the chains   *)
(* of subcontexts takes them away where they were put, because no chain of a  *)
(* marked context changes in between (DbMarked).                             *)
(***************************************************************************)
EXTENDS DbContexts, SequenceTheorems, FiniteSetTheorems, TLAPS

(***************************************************************************)
(* Lists: the newest context first, global last.                           *)
(***************************************************************************)

NoRepetition(s) == \A i, j \in 1 .. Len(s) : s[i] = s[j] => i = j
GoodList(s) == s \in Seq(Ctx) /\ s # <<>> /\ s[Len(s)] = Global /\ NoRepetition(s)

(* In s, subcontexts come later. *)
Sorted(f, s) == \A i, j \in 1 .. Len(s) : f[s[i]] = s[j] => i < j

LEMMA InRange ==
  ASSUME NEW s \in Seq(Ctx)
  PROVE  /\ Range(s) \subseteq Ctx
         /\ \A c : c \in Range(s) <=> \E i \in 1 .. Len(s) : s[i] = c
BY DEF Range

LEMMA Prepended ==
  ASSUME NEW s, GoodList(s), NEW c \in Ctx, c \notin Range(s)
  PROVE  GoodList(<<c>> \o s) /\ Range(<<c>> \o s) = {c} \cup Range(s)
<1>0. s \in Seq(Ctx) /\ <<c>> \in Seq(Ctx) /\ Len(<<c>>) = 1
  BY DEF GoodList
<1>t. <<c>> \o s \in Seq(Ctx)
  BY ONLY <1>0, ConcatProperties
<1> PICK t \in Seq(Ctx) : t = <<c>> \o s
  BY ONLY <1>t
<1>1. /\ s \in Seq(Ctx) /\ Len(s) \in Nat \ {0} /\ Len(t) = Len(s) + 1 /\ t[1] = c
      /\ \A i \in 1 .. Len(s) : t[i + 1] = s[i]
  BY <1>0 DEF GoodList
<1>2. \A i \in 2 .. Len(t) : i - 1 \in 1 .. Len(s) /\ t[i] = s[i - 1]
  BY <1>1
<1>3. \A i \in 1 .. Len(s) : s[i] \in Range(s)
  BY <1>1, InRange
<1>4. t[Len(t)] = Global
  BY <1>1 DEF GoodList
<1>5. NoRepetition(t)
  <2> SUFFICES ASSUME NEW i \in 1 .. Len(t), NEW j \in 1 .. Len(t), t[i] = t[j]
               PROVE  i = j
    BY DEF NoRepetition
  <2>1. CASE i = 1 /\ j # 1
    BY <1>1, <1>2, <1>3, <2>1
  <2>2. CASE i # 1 /\ j = 1
    BY <1>1, <1>2, <1>3, <2>2
  <2>3. CASE i # 1 /\ j # 1
    <3>1. i - 1 \in 1 .. Len(s) /\ j - 1 \in 1 .. Len(s) /\ s[i - 1] = s[j - 1]
      BY <1>1, <1>2, <2>3
    <3>2. i - 1 = j - 1
      BY <3>1 DEF GoodList, NoRepetition
    <3> QED BY <1>1, <3>2
  <2> QED BY <2>1, <2>2, <2>3
<1>6. Range(t) = {c} \cup Range(s)
  <2>1. \A d : (\E i \in 1 .. Len(t) : t[i] = d) <=> d = c \/ \E i \in 1 .. Len(s) : s[i] = d
    <3>1. \A i \in 1 .. Len(s) : i + 1 \in 1 .. Len(t)
      BY <1>1
    <3>2. \A i \in 1 .. Len(t) : i = 1 \/ i \in 2 .. Len(t)
      BY <1>1
    <3>3. 1 \in 1 .. Len(t)
      BY <1>1
    <3> SUFFICES ASSUME NEW d
                 PROVE  (\E i \in 1 .. Len(t) : t[i] = d)
                           <=> d = c \/ \E i \in 1 .. Len(s) : s[i] = d
      OBVIOUS
    <3>4. ASSUME NEW i \in 1 .. Len(t), t[i] = d
          PROVE  d = c \/ \E j \in 1 .. Len(s) : s[j] = d
      <4>1. CASE i = 1
        BY ONLY <3>4, <4>1, <1>1
      <4>2. CASE i \in 2 .. Len(t)
        BY ONLY <3>4, <4>2, <1>2
      <4> QED BY ONLY <3>2, <4>1, <4>2, i \in 1 .. Len(t)
    <3>5. ASSUME NEW i \in 1 .. Len(s), s[i] = d
          PROVE  \E j \in 1 .. Len(t) : t[j] = d
      <4>1. i + 1 \in 1 .. Len(t) /\ t[i + 1] = d
        BY ONLY <3>1, <3>5, <1>1
      <4> QED BY ONLY <4>1
    <3> QED BY ONLY <3>3, <3>4, <3>5, <1>1
  <2>2. (\A d : d \in Range(t) <=> \E i \in 1 .. Len(t) : t[i] = d)
        /\ (\A d : d \in Range(s) <=> \E i \in 1 .. Len(s) : s[i] = d)
    BY <1>1, InRange
  <2> QED BY ONLY <2>1, <2>2
<1>7. t # <<>>
  BY <1>1
<1> QED BY <1>4, <1>5, <1>6, <1>7 DEF GoodList

(* The subcontext of the new context is an older one. *)
LEMMA PrependedSorted ==
  ASSUME NEW s, GoodList(s), NEW c \in Ctx, c \notin Range(s), NEW f, Sorted(f, s),
         NEW g, g[c] # c, \A d \in Range(s) : g[d] = f[d] /\ f[d] # c
  PROVE  Sorted(g, <<c>> \o s)
<1>0. s \in Seq(Ctx) /\ <<c>> \in Seq(Ctx) /\ Len(<<c>>) = 1
  BY DEF GoodList
<1>t. <<c>> \o s \in Seq(Ctx)
  BY ONLY <1>0, ConcatProperties
<1> PICK t \in Seq(Ctx) : t = <<c>> \o s
  BY ONLY <1>t
<1>1. /\ s \in Seq(Ctx) /\ Len(s) \in Nat \ {0} /\ Len(t) = Len(s) + 1 /\ t[1] = c
      /\ \A i \in 1 .. Len(s) : t[i + 1] = s[i]
  BY <1>0 DEF GoodList
<1>2. \A i \in 2 .. Len(t) : i - 1 \in 1 .. Len(s) /\ t[i] = s[i - 1] /\ t[i] \in Range(s)
  BY <1>1, InRange
<1> SUFFICES ASSUME NEW i \in 1 .. Len(t), NEW j \in 1 .. Len(t), g[t[i]] = t[j]
             PROVE  i < j
  BY DEF Sorted
<1>3. CASE i = 1
  <2>1. g[c] = t[j]
    BY ONLY <1>1, <1>3, g[t[i]] = t[j]
  <2>2. j # 1
    BY ONLY <1>1, <2>1, g[c] # c
  <2>3. j # 1 /\ j \in 1 .. Len(t) /\ Len(t) \in Nat
    BY <1>1, <2>2
  <2> QED BY ONLY <1>3, <2>3
<1>4. CASE i # 1 /\ j = 1
  <2>1. t[i] \in Range(s) /\ t[j] = c
    BY <1>1, <1>2, <1>4
  <2> QED BY <2>1
<1>5. CASE i # 1 /\ j # 1
  <2>1. i - 1 \in 1 .. Len(s) /\ j - 1 \in 1 .. Len(s) /\ f[s[i - 1]] = s[j - 1]
    BY <1>1, <1>2, <1>5
  <2>2. i - 1 < j - 1
    BY <2>1 DEF Sorted
  <2> QED BY <1>1, <2>2
<1>6. i # 1 => j = 1 \/ j # 1
  OBVIOUS
<1> QED BY <1>3, <1>4, <1>5, <1>6

(* The positions of s that are left when the one at k is removed. *)
LEMMA Removed ==
  ASSUME NEW s \in Seq(Ctx), NEW k \in 1 .. Len(s)
  PROVE  /\ RemoveAt(s, k) \in Seq(Ctx) /\ Len(RemoveAt(s, k)) = Len(s) - 1
         /\ \A i \in 1 .. Len(s) - 1 : RemoveAt(s, k)[i] = IF i < k THEN s[i] ELSE s[i + 1]
<1>1. Len(s) \in Nat /\ \A i \in 1 .. Len(s) : s[i] \in Ctx
  OBVIOUS
<1> DEFINE u == SubSeq(s, 1, k - 1)
           v == SubSeq(s, k + 1, Len(s))
<1>a. /\ u \in Seq(Ctx) /\ Len(u) = k - 1 /\ \A i \in 1 .. k - 1 : u[i] = s[i]
  <2>1. 1 \in Int /\ k - 1 \in Int /\ \A i \in 1 .. k - 1 : s[i] \in Ctx
    BY <1>1
  <2>2. /\ u \in Seq(Ctx) /\ Len(u) = IF 1 <= k - 1 THEN (k - 1) - 1 + 1 ELSE 0
        /\ \A i \in 1 .. (k - 1) - 1 + 1 : u[i] = s[1 + i - 1]
    BY ONLY <2>1, SubSeqProperties
  <2>3. (k - 1) - 1 + 1 = k - 1 /\ \A i \in 1 .. k - 1 : 1 + i - 1 = i
    BY <1>1
  <2> HIDE DEF u
  <2>4. Len(u) = k - 1
    BY ONLY <1>1, <2>2, k \in 1 .. Len(s)
  <2>5. ASSUME NEW i \in 1 .. k - 1 PROVE u[i] = s[i]
    BY ONLY <2>2, <2>3, <2>5
  <2> QED BY <2>2, <2>4, <2>5
<1>b. /\ v \in Seq(Ctx) /\ Len(v) = Len(s) - k /\ \A i \in 1 .. Len(s) - k : v[i] = s[k + i]
  <2>1. k + 1 \in Int /\ Len(s) \in Int /\ \A i \in k + 1 .. Len(s) : s[i] \in Ctx
    BY <1>1
  <2>2. /\ v \in Seq(Ctx) /\ Len(v) = IF k + 1 <= Len(s) THEN Len(s) - (k + 1) + 1 ELSE 0
        /\ \A i \in 1 .. Len(s) - (k + 1) + 1 : v[i] = s[(k + 1) + i - 1]
    BY ONLY <2>1, SubSeqProperties
  <2>3. Len(s) - (k + 1) + 1 = Len(s) - k /\ \A i \in 1 .. Len(s) - k : (k + 1) + i - 1 = k + i
    BY <1>1
  <2> HIDE DEF v
  <2>4. Len(v) = Len(s) - k
    BY ONLY <1>1, <2>2, k \in 1 .. Len(s)
  <2>5. ASSUME NEW i \in 1 .. Len(s) - k PROVE v[i] = s[k + i]
    BY ONLY <2>2, <2>3, <2>5
  <2> QED BY <2>2, <2>4, <2>5
<1>3. RemoveAt(s, k) = u \o v
  BY DEF RemoveAt
<1> HIDE DEF u, v
<1>2. /\ u \o v \in Seq(Ctx) /\ Len(u \o v) = Len(u) + Len(v)
      /\ \A i \in 1 .. Len(u) + Len(v) : (u \o v)[i] = IF i <= Len(u) THEN u[i] ELSE v[i - Len(u)]
  BY ONLY <1>a, <1>b, ConcatProperties
<1> PICK w \in Seq(Ctx) : w = u \o v
  BY <1>2
<1>4. Len(w) = Len(s) - 1
  BY <1>1, <1>2, <1>a, <1>b
<1>5. ASSUME NEW i \in 1 .. Len(s) - 1 PROVE w[i] = IF i < k THEN s[i] ELSE s[i + 1]
  <2>0. w[i] = IF i <= k - 1 THEN u[i] ELSE v[i - (k - 1)]
    <3>1. i \in 1 .. Len(u) + Len(v)
      BY <1>1, <1>a, <1>b
    <3> QED BY ONLY <1>2, <1>a, <3>1, w = u \o v
  <2>1. CASE i < k
    <3>1. i <= k - 1 /\ i \in 1 .. k - 1
      BY <1>1, <2>1
    <3> QED BY ONLY <1>a, <2>0, <2>1, <3>1
  <2>2. CASE ~(i < k)
    <3>1. i - (k - 1) \in 1 .. Len(s) - k /\ k + (i - (k - 1)) = i + 1
      BY <1>1, <2>2
    <3>2. w[i] = v[i - (k - 1)]
      BY <1>1, <2>0, <2>2
    <3>3. v[i - (k - 1)] = s[k + (i - (k - 1))]
      BY <1>b, <3>1
    <3> QED BY ONLY <3>1, <3>2, <3>3, <2>2
  <2> QED BY <2>1, <2>2
<1> QED BY <1>3, <1>4, <1>5

LEMMA DeletedGood ==
  ASSUME NEW s, GoodList(s), NEW c \in Range(s), c # Global
  PROVE  /\ GoodList(Deleted(s, c)) /\ Range(Deleted(s, c)) = Range(s) \ {c}
         /\ \A f, g : Sorted(f, s) /\ (\A d \in Range(s) \ {c} : g[d] = f[d])
                        => Sorted(g, Deleted(s, c))
<1>1. s \in Seq(Ctx) /\ Len(s) \in Nat /\ s[Len(s)] = Global /\ NoRepetition(s)
  BY DEF GoodList
<1> PICK k \in 1 .. Len(s) : k = (CHOOSE i \in 1 .. Len(s) : s[i] = c) /\ s[k] = c
  <2>1. \E i \in 1 .. Len(s) : s[i] = c
    BY <1>1, InRange
  <2> QED BY <2>1
<1> PICK t : t = Deleted(s, c) /\ t = RemoveAt(s, k)
  BY DEF Deleted
<1>2. /\ t \in Seq(Ctx) /\ Len(t) = Len(s) - 1
      /\ \A i \in 1 .. Len(s) - 1 : t[i] = IF i < k THEN s[i] ELSE s[i + 1]
  BY <1>1, Removed
<1>3. k < Len(s)
  BY <1>1
<1>a. Len(s) \in Nat /\ k \in 1 .. Len(s) /\ k < Len(s) /\ Len(t) = Len(s) - 1
  BY <1>1, <1>2, <1>3
<1> DEFINE from(i) == IF i < k THEN i ELSE i + 1
<1>4. /\ \A i \in 1 .. Len(t) : from(i) \in 1 .. Len(s) /\ from(i) # k /\ t[i] = s[from(i)]
      /\ \A i, j \in 1 .. Len(t) : from(i) = from(j) => i = j
      /\ \A i, j \in 1 .. Len(t) : from(i) < from(j) => i < j
      /\ \A m \in 1 .. Len(s) : m # k => \E i \in 1 .. Len(t) : from(i) = m
  <2>1. ASSUME NEW i \in 1 .. Len(t) PROVE from(i) \in 1 .. Len(s) /\ from(i) # k /\ t[i] = s[from(i)]
    <3>1. i \in 1 .. Len(s) - 1 /\ (i < k => i \in 1 .. Len(s) /\ i # k)
          /\ (~(i < k) => i + 1 \in 1 .. Len(s) /\ i + 1 # k)
      BY ONLY <1>a, i \in 1 .. Len(t)
    <3> QED BY ONLY <1>2, <3>1
  <2>2. ASSUME NEW i \in 1 .. Len(t), NEW j \in 1 .. Len(t)
        PROVE  (from(i) = from(j) => i = j) /\ (from(i) < from(j) => i < j)
    BY ONLY <1>a, i \in 1 .. Len(t), j \in 1 .. Len(t)
  <2>3. ASSUME NEW m \in 1 .. Len(s), m # k PROVE \E i \in 1 .. Len(t) : from(i) = m
    <3>1. CASE m < k
      <4>1. m \in 1 .. Len(t) /\ from(m) = m
        BY ONLY <1>a, <3>1, m \in 1 .. Len(s)
      <4> QED BY <4>1
    <3>2. CASE m > k
      <4>1. m - 1 \in 1 .. Len(t) /\ from(m - 1) = m
        BY ONLY <1>a, <3>2, m \in 1 .. Len(s)
      <4> QED BY <4>1
    <3>3. m < k \/ m > k
      BY ONLY <1>a, <2>3
    <3> QED BY ONLY <3>1, <3>2, <3>3
  <2> QED BY <2>1, <2>2, <2>3
<1>5. \A m \in 1 .. Len(s) : s[m] = c => m = k
  BY <1>1 DEF NoRepetition
<1>6. t[Len(t)] = Global /\ t # <<>>
  <2>1. Len(t) \in 1 .. Len(s) - 1 /\ ~(Len(t) < k) /\ Len(t) + 1 = Len(s)
    BY ONLY <1>a
  <2>2. t # <<>>
    BY ONLY <1>2, <2>1, <1>a
  <2> QED BY ONLY <1>1, <1>2, <2>1, <2>2
<1>7. NoRepetition(t)
  <2> SUFFICES ASSUME NEW i \in 1 .. Len(t), NEW j \in 1 .. Len(t), t[i] = t[j]
               PROVE  i = j
    BY DEF NoRepetition
  <2> HIDE DEF from
  <2>1. from(i) \in 1 .. Len(s) /\ from(j) \in 1 .. Len(s) /\ s[from(i)] = s[from(j)]
    BY <1>4
  <2>2. from(i) = from(j)
    BY <1>1, <2>1 DEF NoRepetition
  <2> QED BY <1>4, <2>2
<1>8. Range(t) = Range(s) \ {c}
  <2> HIDE DEF from
  <2>1. ASSUME NEW d PROVE (\E i \in 1 .. Len(t) : t[i] = d)
                             <=> d # c /\ \E m \in 1 .. Len(s) : s[m] = d
    <3>1. ASSUME NEW i \in 1 .. Len(t), t[i] = d PROVE d # c /\ \E m \in 1 .. Len(s) : s[m] = d
      BY <1>4, <1>5, <3>1
    <3>2. ASSUME d # c, NEW m \in 1 .. Len(s), s[m] = d PROVE \E i \in 1 .. Len(t) : t[i] = d
      <4>1. m # k
        BY <3>2
      <4> PICK i \in 1 .. Len(t) : from(i) = m
        BY <1>4, <4>1
      <4> QED BY <1>4, <3>2
    <3> QED BY <3>1, <3>2
  <2>2. (\A d : d \in Range(t) <=> \E i \in 1 .. Len(t) : t[i] = d)
        /\ (\A d : d \in Range(s) <=> \E i \in 1 .. Len(s) : s[i] = d)
    BY <1>1, <1>2, InRange
  <2> QED BY ONLY <2>1, <2>2
<1>9. ASSUME NEW f, NEW g, Sorted(f, s), \A d \in Range(s) \ {c} : g[d] = f[d]
      PROVE  Sorted(g, t)
  <2> SUFFICES ASSUME NEW i \in 1 .. Len(t), NEW j \in 1 .. Len(t), g[t[i]] = t[j]
               PROVE  i < j
    BY DEF Sorted
  <2> HIDE DEF from
  <2>1. t[i] \in Range(s) \ {c}
    BY <1>2, <1>8, InRange
  <2>2. f[t[i]] = t[j]
    BY <1>9, <2>1
  <2>3. from(i) \in 1 .. Len(s) /\ from(j) \in 1 .. Len(s) /\ f[s[from(i)]] = s[from(j)]
    BY <1>4, <2>2
  <2>4. from(i) < from(j)
    BY <1>9, <2>3 DEF Sorted
  <2> QED BY <1>4, <2>4
<1> QED BY <1>2, <1>6, <1>7, <1>8, <1>9 DEF GoodList

(* The head of a sorted list is nobody's subcontext, and can go. *)
LEMMA TailGood ==
  ASSUME NEW s, GoodList(s), Head(s) # Global
  PROVE  /\ GoodList(Tail(s)) /\ Range(Tail(s)) = Range(s) \ {Head(s)} /\ Head(s) \in Range(s)
         /\ \A f : Sorted(f, s) => \A d \in Range(s) : f[d] # Head(s)
         /\ \A f, g : Sorted(f, s) /\ (\A d \in Range(s) \ {Head(s)} : g[d] = f[d])
                        => Sorted(g, Tail(s))
<1>1. s \in Seq(Ctx) /\ Len(s) \in Nat \ {0} /\ s[Len(s)] = Global /\ NoRepetition(s) /\ s # <<>>
  BY DEF GoodList
<1> PICK t : t = Tail(s)
  OBVIOUS
<1>2. /\ t \in Seq(Ctx) /\ Len(t) = Len(s) - 1 /\ Head(s) = s[1]
      /\ \A i \in 1 .. Len(t) : t[i] = s[i + 1]
  BY <1>1
<1>3. Len(s) > 1
  BY <1>1, <1>2
<1>4. \A i \in 1 .. Len(t) : i + 1 \in 1 .. Len(s) /\ i + 1 # 1
  BY <1>1, <1>2
<1>5. \A m \in 1 .. Len(s) : m # 1 => m - 1 \in 1 .. Len(t) /\ t[m - 1] = s[m]
  BY <1>1, <1>2
<1>6. t[Len(t)] = Global /\ t # <<>>
  <2>1. Len(t) \in 1 .. Len(t) /\ Len(t) + 1 = Len(s)
    BY <1>1, <1>2, <1>3
  <2>2. t # <<>>
    BY <1>2, <2>1
  <2> QED BY ONLY <1>1, <1>2, <2>1, <2>2
<1>7. NoRepetition(t)
  <2> SUFFICES ASSUME NEW i \in 1 .. Len(t), NEW j \in 1 .. Len(t), t[i] = t[j]
               PROVE  i = j
    BY DEF NoRepetition
  <2>1. i + 1 = j + 1
    BY <1>1, <1>2, <1>4 DEF NoRepetition
  <2> QED BY <2>1
<1>8. /\ \A d : d \in Range(t) <=> \E i \in 1 .. Len(t) : t[i] = d
      /\ \A d : d \in Range(s) <=> \E i \in 1 .. Len(s) : s[i] = d
  BY <1>1, <1>2, InRange
<1>9. Range(t) = Range(s) \ {s[1]}
  <2>1. ASSUME NEW d PROVE (\E i \in 1 .. Len(t) : t[i] = d)
                             <=> d # s[1] /\ \E m \in 1 .. Len(s) : s[m] = d
    <3>1. ASSUME NEW i \in 1 .. Len(t), t[i] = d PROVE d # s[1] /\ \E m \in 1 .. Len(s) : s[m] = d
      <4>1. i + 1 \in 1 .. Len(s) /\ i + 1 # 1 /\ s[i + 1] = d /\ 1 \in 1 .. Len(s)
        BY <1>1, <1>2, <1>4, <3>1
      <4> QED BY <1>1, <4>1 DEF NoRepetition
    <3>2. ASSUME d # s[1], NEW m \in 1 .. Len(s), s[m] = d PROVE \E i \in 1 .. Len(t) : t[i] = d
      BY <1>5, <3>2
    <3> QED BY <3>1, <3>2
  <2> QED BY ONLY <1>8, <2>1
<1>10. s[1] \in Range(s) /\ 1 \in 1 .. Len(s)
  <2>1. 1 \in 1 .. Len(s)
    BY <1>1
  <2> QED BY <1>8, <2>1
<1>11. ASSUME NEW f, Sorted(f, s), NEW d \in Range(s) PROVE f[d] # s[1]
  <2> SUFFICES ASSUME f[d] = s[1] PROVE FALSE
    OBVIOUS
  <2> PICK i \in 1 .. Len(s) : s[i] = d
    BY <1>8
  <2>1. i < 1
    BY <1>10, <1>11 DEF Sorted
  <2> QED BY <2>1
<1>12. ASSUME NEW f, NEW g, Sorted(f, s), \A d \in Range(s) \ {s[1]} : g[d] = f[d]
       PROVE  Sorted(g, t)
  <2> SUFFICES ASSUME NEW i \in 1 .. Len(t), NEW j \in 1 .. Len(t), g[t[i]] = t[j]
               PROVE  i < j
    BY DEF Sorted
  <2>1. t[i] \in Range(s) \ {s[1]}
    BY <1>8, <1>9
  <2>2. f[t[i]] = t[j]
    BY <1>12, <2>1
  <2>3. i + 1 \in 1 .. Len(s) /\ j + 1 \in 1 .. Len(s) /\ f[s[i + 1]] = s[j + 1]
    BY <1>2, <1>4, <2>2
  <2>4. i + 1 < j + 1
    BY <1>12, <2>3 DEF Sorted
  <2> QED BY <1>1, <1>2, <2>4
<1> QED BY <1>2, <1>6, <1>7, <1>9, <1>10, <1>11, <1>12 DEF GoodList

(* Nothing is older than global. *)
LEMMA GlobalAlone ==
  ASSUME NEW s, GoodList(s), Head(s) = Global
  PROVE  Range(s) = {Global}
<1>1. s \in Seq(Ctx) /\ Len(s) \in Nat \ {0} /\ s[Len(s)] = Global /\ NoRepetition(s) /\ s # <<>>
  BY DEF GoodList
<1>2. s[1] = Global /\ 1 \in 1 .. Len(s) /\ Len(s) \in 1 .. Len(s)
  BY <1>1
<1>3. Len(s) = 1
  BY <1>1, <1>2 DEF NoRepetition
<1> QED BY <1>1, <1>2, <1>3, InRange

LEMMA FirstList ==
  /\ GoodList(<<Initial, Global>>) /\ Range(<<Initial, Global>>) = {Initial, Global}
  /\ \A f : f[Initial] = Global /\ f[Global] = NoCtx => Sorted(f, <<Initial, Global>>)
<1> PICK s : s = <<Initial, Global>>
  OBVIOUS
<1>1. s \in Seq(Ctx) /\ Len(s) = 2 /\ s[1] = Initial /\ s[2] = Global /\ s # <<>>
  BY CtxAssumption
<1>2. \A i \in 1 .. Len(s) : i = 1 \/ i = 2
  BY <1>1
<1>3. 1 \in 1 .. Len(s) /\ 2 \in 1 .. Len(s) /\ 1 < 2
  BY <1>1
<1>4. GoodList(s)
  BY <1>1, <1>2, CtxAssumption DEF GoodList, NoRepetition
<1>5. Range(s) = {Initial, Global}
  BY ONLY <1>1, <1>2, <1>3, InRange
<1>6. ASSUME NEW f, f[Initial] = Global, f[Global] = NoCtx PROVE Sorted(f, s)
  BY <1>1, <1>2, <1>3, <1>6, CtxAssumption DEF Sorted
<1> QED BY <1>4, <1>5, <1>6

(***************************************************************************)
(* Chains, for subcontexts f.                                              *)
(***************************************************************************)

Subcs == [Ctx -> Ctx \cup {NoCtx}]
ClosedIn(f, S) == \A c \in S : f[c] \in S \cup {NoCtx}
ChainIn(f, c) == {d \in Ctx : \A S \in SUBSET Ctx : c \in S /\ ClosedIn(f, S) => d \in S}

LEMMA ChainIs == \A c : Chain(c) = ChainIn(subc, c) /\ Chain(c)' = ChainIn(subc', c)
BY DEF Chain, Closed, ChainIn, ClosedIn

LEMMA ChainSmallest ==
  ASSUME NEW f, NEW S \in SUBSET Ctx, ClosedIn(f, S), NEW c \in S
  PROVE  ChainIn(f, c) \subseteq S
BY DEF ChainIn

LEMMA ChainClosed ==
  ASSUME NEW f \in Subcs, NEW c \in Ctx
  PROVE  c \in ChainIn(f, c) /\ ClosedIn(f, ChainIn(f, c)) /\ ChainIn(f, c) \subseteq Ctx
<1>1. ASSUME NEW d \in ChainIn(f, c), f[d] # NoCtx PROVE f[d] \in ChainIn(f, c)
  <2>1. d \in Ctx /\ f[d] \in Ctx
    BY <1>1 DEF Subcs, ChainIn
  <2>2. ASSUME NEW S \in SUBSET Ctx, c \in S, ClosedIn(f, S) PROVE f[d] \in S
    BY <1>1, <2>2 DEF ChainIn, ClosedIn
  <2> QED BY <2>1, <2>2 DEF ChainIn
<1>2. c \in ChainIn(f, c) /\ ChainIn(f, c) \subseteq Ctx
  BY DEF ChainIn
<1> QED BY <1>1, <1>2 DEF ClosedIn

(* Below a context of the chain there is only what is in the chain. *)
LEMMA ChainOfMember ==
  ASSUME NEW f \in Subcs, NEW c \in Ctx, NEW d \in ChainIn(f, c)
  PROVE  ChainIn(f, d) \subseteq ChainIn(f, c)
BY ChainClosed, ChainSmallest

(* Changes outside a closed set leave the chains in it alone. *)
LEMMA ChainSame ==
  ASSUME NEW f, NEW g, NEW S \in SUBSET Ctx, ClosedIn(f, S), \A d \in S : g[d] = f[d],
         NEW c \in S
  PROVE  ChainIn(g, c) = ChainIn(f, c)
<1>1. ClosedIn(g, S)
  BY DEF ClosedIn
<1>2. ASSUME NEW h, NEW k, ClosedIn(h, S), \A d \in S : k[d] = h[d], NEW d \in ChainIn(h, c)
      PROVE  d \in ChainIn(k, c)
  <2>1. ASSUME NEW T \in SUBSET Ctx, c \in T, ClosedIn(k, T) PROVE d \in T
    <3>1. T \cap S \in SUBSET Ctx /\ c \in T \cap S
      BY <2>1
    <3>2. ClosedIn(h, T \cap S)
      BY <1>2, <2>1 DEF ClosedIn
    <3> QED BY <1>2, <3>1, <3>2 DEF ChainIn
  <2>2. d \in Ctx
    BY <1>2 DEF ChainIn
  <2> QED BY <2>1, <2>2 DEF ChainIn
<1>3. ChainIn(f, c) \subseteq ChainIn(g, c)
  BY <1>2
<1>4. ChainIn(g, c) \subseteq ChainIn(f, c)
  <2>1. \A d \in S : f[d] = g[d]
    OBVIOUS
  <2> QED BY <1>1, <1>2, <2>1
<1> QED BY <1>3, <1>4

(***************************************************************************)
(* Marks.                                                                  *)
(***************************************************************************)

Marks == [Ctx -> Int \cup {NoMark}]
Value(m) == IF m = NoMark THEN 0 ELSE m
One(b) == IF b THEN 1 ELSE 0
OverIn(f, c, S) == {r \in S : c \in ChainIn(f, r)}

(* The marks cm count cur and the contexts of con. *)
Exact(f, cm, cur, con) ==
  \A c \in Ctx : Value(cm[c]) = One(c \in ChainIn(f, cur)) + Cardinality(OverIn(f, c, con))

LEMMA OverFinite ==
  ASSUME NEW f, NEW c, NEW S, IsFiniteSet(S)
  PROVE  IsFiniteSet(OverIn(f, c, S)) /\ Cardinality(OverIn(f, c, S)) \in Nat
<1>1. OverIn(f, c, S) \subseteq S
  BY DEF OverIn
<1> QED BY <1>1, FS_Subset, FS_CardinalityType

LEMMA OverAdded ==
  ASSUME NEW f, NEW c, NEW S, IsFiniteSet(S), NEW r, r \notin S
  PROVE  Cardinality(OverIn(f, c, S \cup {r})) = Cardinality(OverIn(f, c, S)) + One(c \in ChainIn(f, r))
<1>1. IsFiniteSet(OverIn(f, c, S)) /\ Cardinality(OverIn(f, c, S)) \in Nat /\ r \notin OverIn(f, c, S)
  BY OverFinite DEF OverIn
<1>2. CASE c \in ChainIn(f, r)
  <2>1. OverIn(f, c, S \cup {r}) = OverIn(f, c, S) \cup {r}
    BY <1>2 DEF OverIn
  <2> QED BY <1>1, <1>2, <2>1, FS_AddElement DEF One
<1>3. CASE c \notin ChainIn(f, r)
  <2>1. OverIn(f, c, S \cup {r}) = OverIn(f, c, S)
    BY <1>3 DEF OverIn
  <2> QED BY <1>1, <1>3, <2>1 DEF One
<1> QED BY <1>2, <1>3

LEMMA OverRemoved ==
  ASSUME NEW f, NEW c, NEW S, IsFiniteSet(S), NEW r \in S
  PROVE  Cardinality(OverIn(f, c, S)) = Cardinality(OverIn(f, c, S \ {r})) + One(c \in ChainIn(f, r))
<1>1. IsFiniteSet(S \ {r}) /\ (S \ {r}) \cup {r} = S /\ r \notin S \ {r}
  BY FS_RemoveElement
<1> PICK T : T = S \ {r}
  OBVIOUS
<1>2. IsFiniteSet(T) /\ T \cup {r} = S /\ r \notin T
  BY <1>1
<1>3. Cardinality(OverIn(f, c, T \cup {r})) = Cardinality(OverIn(f, c, T)) + One(c \in ChainIn(f, r))
  BY ONLY <1>2, OverAdded
<1> QED BY <1>2, <1>3

(* One more and one less. *)
LEMMA MarkValue ==
  ASSUME NEW cm \in Marks, NEW c
  PROVE  /\ Mark(cm, c) \in Marks
         /\ \A d \in Ctx : Value(Mark(cm, c)[d]) = Value(cm[d]) + One(d \in ChainIn(subc, c))
         /\ \A d \in Ctx : d \notin ChainIn(subc, c) => Mark(cm, c)[d] = cm[d]
<1> PICK X : X = ChainIn(subc, c) /\ Mark(cm, c) =
       [d \in Ctx |-> IF d \notin X THEN cm[d] ELSE IF cm[d] = NoMark THEN 1 ELSE cm[d] + 1]
  BY ChainIs DEF Mark
<1>1. \A d \in Ctx : cm[d] # NoMark => cm[d] \in Int
  BY DEF Marks
<1>2. NoMark # 1 /\ \A m \in Int : m + 1 # NoMark /\ m - 1 # NoMark /\ m + 1 \in Int
  BY CtxAssumption
<1>3. Mark(cm, c) \in Marks
  BY <1>1, <1>2 DEF Marks
<1>4. ASSUME NEW d \in Ctx PROVE Value(Mark(cm, c)[d]) = Value(cm[d]) + One(d \in X)
  BY <1>1, <1>2 DEF Value, One
<1> QED BY <1>3, <1>4

LEMMA UnmarkValue ==
  ASSUME NEW cm \in Marks, NEW c, \A d \in ChainIn(subc, c) : cm[d] # NoMark
  PROVE  /\ Unmark(cm, c) \in Marks
         /\ \A d \in Ctx : Value(Unmark(cm, c)[d]) = Value(cm[d]) - One(d \in ChainIn(subc, c))
<1> PICK X : X = ChainIn(subc, c) /\ Unmark(cm, c) =
       [d \in Ctx |-> IF d \in X /\ cm[d] # NoMark THEN cm[d] - 1 ELSE cm[d]]
  BY ChainIs DEF Unmark
<1>1. \A d \in Ctx : cm[d] # NoMark => cm[d] \in Int
  BY DEF Marks
<1>2. \A m \in Int : m - 1 # NoMark /\ m - 1 \in Int
  BY CtxAssumption
<1>3. Unmark(cm, c) \in Marks
  BY <1>1, <1>2 DEF Marks
<1>4. ASSUME NEW d \in Ctx PROVE Value(Unmark(cm, c)[d]) = Value(cm[d]) - One(d \in X)
  <2>1. CASE cm[d] = NoMark
    BY <2>1 DEF Value, One
  <2>2. CASE cm[d] # NoMark
    BY <1>1, <1>2, <2>2 DEF Value, One
  <2> QED BY <2>1, <2>2
<1> QED BY <1>3, <1>4

LEMMA UnmarkType ==
  ASSUME NEW cm \in Marks, NEW c
  PROVE  /\ Unmark(cm, c) \in Marks
         /\ \A d \in Ctx : cm[d] = NoMark => Unmark(cm, c)[d] = NoMark
<1>1. \A d \in Ctx : cm[d] # NoMark => cm[d] - 1 \in Int
  BY DEF Marks
<1> QED BY <1>1 DEF Unmark, Marks

(* Marks that are right, and none outside L. *)
Marked(f, cm, cur, con, L) ==
  /\ cm \in Marks /\ IsFiniteSet(con) /\ cur \in L /\ con \subseteq L /\ L \subseteq Ctx
  /\ ClosedIn(f, L)
  /\ Exact(f, cm, cur, con)
  /\ \A d \in Ctx \ L : cm[d] = NoMark

LEMMA ExactValue ==
  ASSUME NEW f, NEW cm, NEW cur, NEW con, NEW L, Marked(f, cm, cur, con, L), NEW d \in Ctx
  PROVE  /\ Value(cm[d]) = One(d \in ChainIn(f, cur)) + Cardinality(OverIn(f, d, con))
         /\ Cardinality(OverIn(f, d, con)) \in Nat /\ One(d \in ChainIn(f, cur)) \in 0 .. 1
         /\ Value(cm[d]) \in Nat
<1>1. Value(cm[d]) = One(d \in ChainIn(f, cur)) + Cardinality(OverIn(f, d, con))
  BY DEF Marked, Exact
<1>2. Cardinality(OverIn(f, d, con)) \in Nat
  BY OverFinite DEF Marked
<1>3. One(d \in ChainIn(f, cur)) \in 0 .. 1
  BY DEF One
<1> QED BY <1>1, <1>2, <1>3

(* Everything in the chain of a context that counts has a mark. *)
LEMMA ExactMarked ==
  ASSUME NEW f \in Subcs, NEW cm, NEW cur, NEW con, NEW L, Marked(f, cm, cur, con, L),
         NEW r \in {cur} \cup con, NEW d \in ChainIn(f, r)
  PROVE  cm[d] # NoMark /\ Value(cm[d]) > 0
<1>1. d \in Ctx
  BY DEF ChainIn
<1>2. CASE r = cur
  <2>1. One(d \in ChainIn(f, cur)) = 1
    BY <1>2 DEF One
  <2>2. Value(cm[d]) > 0
    BY <1>1, <2>1, ExactValue
  <2> QED BY <2>2 DEF Value
<1>3. CASE r \in con
  <2>1. r \in OverIn(f, d, con) /\ IsFiniteSet(OverIn(f, d, con))
    BY <1>3, OverFinite DEF OverIn, Marked
  <2>2. Cardinality(OverIn(f, d, con)) # 0
    BY <2>1, FS_EmptySet
  <2>3. Value(cm[d]) > 0
    BY <1>1, <2>2, ExactValue
  <2> QED BY <2>3 DEF Value
<1> QED BY <1>2, <1>3

(* contextmark moves the marks of the current context to another one. *)
LEMMA MarkedMoved ==
  ASSUME subc \in Subcs, NEW cm, NEW cur, NEW con, NEW L, Marked(subc, cm, cur, con, L),
         NEW new \in L
  PROVE  Marked(subc, Mark(Unmark(cm, cur), new), new, con, L)
<1>1. cm \in Marks /\ L \subseteq Ctx /\ ClosedIn(subc, L)
  BY DEF Marked
<1> PICK um : um = Unmark(cm, cur)
  OBVIOUS
<1>2. /\ um \in Marks
      /\ \A d \in Ctx : Value(um[d]) = Value(cm[d]) - One(d \in ChainIn(subc, cur))
  BY <1>1, ExactMarked, UnmarkValue
<1>3. \A d \in Ctx : cm[d] = NoMark => um[d] = NoMark
  BY <1>1, UnmarkType
<1> PICK mm : mm = Mark(um, new)
  OBVIOUS
<1>4. /\ mm \in Marks
      /\ \A d \in Ctx : Value(mm[d]) = Value(um[d]) + One(d \in ChainIn(subc, new))
      /\ \A d \in Ctx : d \notin ChainIn(subc, new) => mm[d] = um[d]
  BY <1>2, MarkValue
<1>5. Exact(subc, mm, new, con)
  <2> SUFFICES ASSUME NEW d \in Ctx
               PROVE  Value(mm[d]) = One(d \in ChainIn(subc, new)) + Cardinality(OverIn(subc, d, con))
    BY DEF Exact
  <2>1. One(d \in ChainIn(subc, new)) \in 0 .. 1
    BY DEF One
  <2> QED BY <1>2, <1>4, <2>1, ExactValue
<1>6. ASSUME NEW d \in Ctx \ L PROVE mm[d] = NoMark
  <2>1. d \notin ChainIn(subc, new)
    BY <1>1, ChainSmallest
  <2>2. cm[d] = NoMark
    BY DEF Marked
  <2> QED BY <1>3, <1>4, <2>1, <2>2
<1> QED BY <1>4, <1>5, <1>6 DEF Marked

LEMMA MarkedActivated ==
  ASSUME subc \in Subcs, NEW cm, NEW cur, NEW con, NEW L, Marked(subc, cm, cur, con, L),
         NEW r \in L, r \notin con
  PROVE  Marked(subc, Mark(cm, r), cur, con \cup {r}, L)
<1>1. cm \in Marks /\ L \subseteq Ctx /\ ClosedIn(subc, L) /\ IsFiniteSet(con)
  BY DEF Marked
<1> PICK mm : mm = Mark(cm, r)
  OBVIOUS
<1>4. /\ mm \in Marks
      /\ \A d \in Ctx : Value(mm[d]) = Value(cm[d]) + One(d \in ChainIn(subc, r))
      /\ \A d \in Ctx : d \notin ChainIn(subc, r) => mm[d] = cm[d]
  BY <1>1, MarkValue
<1>5. Exact(subc, mm, cur, con \cup {r})
  <2> SUFFICES ASSUME NEW d \in Ctx
               PROVE  Value(mm[d]) = One(d \in ChainIn(subc, cur))
                                       + Cardinality(OverIn(subc, d, con \cup {r}))
    BY DEF Exact
  <2>1. One(d \in ChainIn(subc, r)) \in 0 .. 1
    BY DEF One
  <2>2. Cardinality(OverIn(subc, d, con \cup {r}))
          = Cardinality(OverIn(subc, d, con)) + One(d \in ChainIn(subc, r))
    BY <1>1, OverAdded
  <2> QED BY <1>4, <2>1, <2>2, ExactValue
<1>6. ASSUME NEW d \in Ctx \ L PROVE mm[d] = NoMark
  <2>1. d \notin ChainIn(subc, r)
    BY <1>1, ChainSmallest
  <2>2. cm[d] = NoMark
    BY DEF Marked
  <2> QED BY <1>4, <2>1, <2>2
<1>7. IsFiniteSet(con \cup {r}) /\ con \cup {r} \subseteq L
  BY <1>1, FS_AddElement DEF Marked
<1> QED BY <1>4, <1>5, <1>6, <1>7 DEF Marked

LEMMA MarkedDeactivated ==
  ASSUME subc \in Subcs, NEW cm, NEW cur, NEW con, NEW L, Marked(subc, cm, cur, con, L),
         NEW r \in con
  PROVE  Marked(subc, Unmark(cm, r), cur, con \ {r}, L)
<1>1. cm \in Marks /\ L \subseteq Ctx /\ ClosedIn(subc, L) /\ IsFiniteSet(con)
  BY DEF Marked
<1> PICK um : um = Unmark(cm, r)
  OBVIOUS
<1>2. /\ um \in Marks
      /\ \A d \in Ctx : Value(um[d]) = Value(cm[d]) - One(d \in ChainIn(subc, r))
  BY <1>1, ExactMarked, UnmarkValue
<1>3. \A d \in Ctx : cm[d] = NoMark => um[d] = NoMark
  BY <1>1, UnmarkType
<1>4. IsFiniteSet(con \ {r}) /\ con \ {r} \subseteq L
  BY <1>1, FS_RemoveElement DEF Marked
<1>5. Exact(subc, um, cur, con \ {r})
  <2> SUFFICES ASSUME NEW d \in Ctx
               PROVE  Value(um[d]) = One(d \in ChainIn(subc, cur))
                                       + Cardinality(OverIn(subc, d, con \ {r}))
    BY DEF Exact
  <2>1. One(d \in ChainIn(subc, r)) \in 0 .. 1 /\ Cardinality(OverIn(subc, d, con \ {r})) \in Nat
    BY <1>4, OverFinite DEF One
  <2>2. Cardinality(OverIn(subc, d, con))
          = Cardinality(OverIn(subc, d, con \ {r})) + One(d \in ChainIn(subc, r))
    BY <1>1, OverRemoved
  <2> QED BY <1>2, <2>1, <2>2, ExactValue
<1>6. ASSUME NEW d \in Ctx \ L PROVE um[d] = NoMark
  BY <1>3 DEF Marked
<1> QED BY <1>2, <1>4, <1>5, <1>6 DEF Marked

(* A context that is made, or one that is gone, is in no chain that counts. *)
LEMMA MarkedSame ==
  ASSUME NEW f, NEW cm, NEW cur, NEW con, NEW L, Marked(f, cm, cur, con, L),
         NEW g, \A d \in L : g[d] = f[d], NEW M \in SUBSET Ctx, L \subseteq M, ClosedIn(g, M)
  PROVE  Marked(g, cm, cur, con, M)
<1>1. \A r \in L : ChainIn(g, r) = ChainIn(f, r)
  BY ChainSame DEF Marked
<1>2. \A d : OverIn(g, d, con) = OverIn(f, d, con)
  BY <1>1 DEF OverIn, Marked
<1>3. ChainIn(g, cur) = ChainIn(f, cur)
  BY <1>1 DEF Marked
<1>4. Exact(g, cm, cur, con)
  BY <1>2, <1>3 DEF Marked, Exact
<1> QED BY <1>4 DEF Marked

LEMMA MarkedKilled ==
  ASSUME NEW f, NEW cm, NEW cur, NEW con, NEW L, Marked(f, cm, cur, con, L),
         NEW c \in L, c # cur, c \notin con, \A d \in L : f[d] # c,
         NEW g, \A d \in L \ {c} : g[d] = f[d],
         NEW dm \in Marks, dm[c] = NoMark, \A d \in Ctx \ {c} : dm[d] = cm[d]
  PROVE  Marked(g, dm, cur, con, L \ {c})
<1>1. ClosedIn(f, L \ {c}) /\ ClosedIn(g, L \ {c}) /\ L \ {c} \in SUBSET Ctx
  BY DEF Marked, ClosedIn
<1>2. \A r \in L \ {c} : ChainIn(g, r) = ChainIn(f, r) /\ c \notin ChainIn(f, r)
  <2>1. \A r \in L \ {c} : ChainIn(g, r) = ChainIn(f, r)
    BY <1>1, ChainSame
  <2>2. \A r \in L \ {c} : ChainIn(f, r) \subseteq L \ {c}
    BY <1>1, ChainSmallest
  <2> QED BY <2>1, <2>2
<1>3. \A d : OverIn(g, d, con) = OverIn(f, d, con)
  BY <1>2 DEF OverIn, Marked
<1>4. ChainIn(g, cur) = ChainIn(f, cur) /\ c \notin ChainIn(f, cur) /\ OverIn(f, c, con) = {}
  BY <1>2 DEF OverIn, Marked
<1>5. Exact(g, dm, cur, con)
  <2> SUFFICES ASSUME NEW d \in Ctx
               PROVE  Value(dm[d]) = One(d \in ChainIn(f, cur)) + Cardinality(OverIn(f, d, con))
    BY <1>3, <1>4 DEF Exact
  <2>1. CASE d = c
    BY <1>4, <2>1, FS_EmptySet DEF One, Value
  <2>2. CASE d # c
    BY <2>2 DEF Marked, Exact
  <2> QED BY <2>1, <2>2
<1> QED BY <1>1, <1>5 DEF Marked

(***************************************************************************)
(* The invariant.                                                          *)
(***************************************************************************)

(* The contexts that killallcontexts will leave or has still to come to; all  *)
(* of them when it is not running.                                          *)
Live == Range(IF killing = <<>> THEN userContexts ELSE killing) \cup {Initial, Global}

Rooted(f, L) ==
  /\ L \subseteq Ctx /\ Initial \in L /\ Global \in L
  /\ f[Global] = NoCtx /\ f[Initial] = Global
  /\ \A c \in L \ {Global} : f[c] \in L
  /\ \A c \in L : Global \in ChainIn(f, c)

DbLists ==
  /\ GoodList(userContexts) /\ Initial \in Known /\ Live \subseteq Known
  /\ Known = Live => Sorted(subc, userContexts)
  /\ killing # <<>> => GoodList(killing) /\ Sorted(subc, killing)

DbPlaces == context \in Live /\ current \in Live /\ (Known # Live => current = context)

DbSets == IsFiniteSet(contexts) /\ activecontexts = contexts

DbOrder == DbTypeOK /\ DbSets /\ DbLists /\ Rooted(subc, Live) /\ DbPlaces /\ (tidy => Known = Live)

DbData ==
  /\ tidy => \A c \in Ctx \ Known : data[c] = {}
  /\ killing # <<>> /\ Initial \notin Range(killing) => data[Initial] = {}

DbMarked == tidy => Marked(subc, cmark, current, contexts, Known)

DbInv == DbOrder /\ DbMarked /\ DbData

LEMMA TypeNames == DbTypeOK => subc \in Subcs /\ cmark \in Marks
BY DEF DbTypeOK, Subcs, Marks

LEMMA LiveIsKnown == DbLists /\ killing = <<>> => Live = Known
<1> SUFFICES ASSUME DbLists, killing = <<>> PROVE Live = Known
  OBVIOUS
<1>1. Global \in Known
  <2>1. userContexts \in Seq(Ctx) /\ Len(userContexts) \in 1 .. Len(userContexts)
        /\ userContexts[Len(userContexts)] = Global
    BY DEF DbLists, GoodList
  <2> QED BY <2>1, InRange DEF Known
<1> QED BY <1>1 DEF DbLists, Live, Known

LEMMA RootedKilled ==
  ASSUME NEW f, NEW L, Rooted(f, L), NEW c \in L, c # Initial, c # Global, \A d \in L : f[d] # c,
         NEW g, \A d \in L \ {c} : g[d] = f[d]
  PROVE  Rooted(g, L \ {c})
<1>1. ClosedIn(f, L \ {c}) /\ L \ {c} \in SUBSET Ctx
  BY DEF Rooted, ClosedIn
<1>2. \A r \in L \ {c} : ChainIn(g, r) = ChainIn(f, r)
  BY <1>1, ChainSame
<1>3. \A r \in L \ {c} : Global \in ChainIn(g, r)
  BY <1>2 DEF Rooted
<1>4. \A r \in (L \ {c}) \ {Global} : g[r] \in L \ {c}
  BY DEF Rooted
<1> QED BY <1>3, <1>4, CtxAssumption DEF Rooted

LEMMA RootedMore ==
  ASSUME NEW f, NEW L, Rooted(f, L), NEW c \in Ctx \ L, NEW g \in Subcs, g[c] \in L,
         \A d \in L : g[d] = f[d]
  PROVE  Rooted(g, L \cup {c})
<1>1. ClosedIn(f, L) /\ L \in SUBSET Ctx
  BY DEF Rooted, ClosedIn
<1>2. \A r \in L : ChainIn(g, r) = ChainIn(f, r)
  BY <1>1, ChainSame
<1>3. \A r \in L : Global \in ChainIn(g, r)
  BY <1>2 DEF Rooted
<1>4. Global \in ChainIn(g, c)
  <2>1. c \in ChainIn(g, c) /\ ClosedIn(g, ChainIn(g, c))
    BY ChainClosed
  <2>2. g[c] \in ChainIn(g, c)
    BY <1>1, <2>1, CtxAssumption DEF ClosedIn
  <2>3. ChainIn(g, g[c]) \subseteq ChainIn(g, c)
    BY <2>2, ChainOfMember
  <2> QED BY <1>3, <2>3
<1>5. \A r \in (L \cup {c}) \ {Global} : g[r] \in L \cup {c}
  BY DEF Rooted
<1> QED BY <1>3, <1>4, <1>5, CtxAssumption DEF Rooted

LEMMA MarkedForType ==
  ASSUME cmark \in Marks, NEW c
  PROVE  MarkedFor(c) \in Marks
BY UnmarkType, MarkValue DEF MarkedFor

LEMMA MarkedForRight ==
  ASSUME subc \in Subcs, NEW L, Marked(subc, cmark, current, contexts, L), NEW c \in L
  PROVE  Marked(subc, MarkedFor(c), c, contexts, L)
BY MarkedMoved DEF MarkedFor

(***************************************************************************)
(* Operations that leave the lists and the order alone.                    *)
(***************************************************************************)

OrderSame == UNCHANGED <<userContexts, killing, subc>>

LEMMA SameOrder ==
  ASSUME DbOrder, OrderSame
  PROVE  DbLists' /\ Rooted(subc, Live)' /\ Live' = Live /\ Known' = Known
<1>1. Live' = Live /\ Known' = Known
  BY DEF OrderSame, Live, Known
<1>2. DbLists'
  BY <1>1 DEF DbOrder, OrderSame, DbLists
<1> QED BY <1>1, <1>2 DEF DbOrder, OrderSame

LEMMA DeduceKeeps ==
  ASSUME DbOrder, Clear, OrderSame, tidy' = tidy, data' \in [Ctx -> SUBSET Fact],
         nodes' \subseteq Fact, data' = data \/ killing = <<>>,
         \A c \in Ctx \ Known : data'[c] = data[c]
  PROVE  DbOrder' /\ (DbMarked => DbMarked') /\ (DbData => DbData')
<1>1. DbTypeOK /\ subc \in Subcs /\ cmark \in Marks
  BY TypeNames DEF DbOrder
<1>2. DbLists' /\ Rooted(subc, Live)' /\ Live' = Live /\ Known' = Known
  BY SameOrder
<1>3. cmark' \in Marks
  BY <1>1, MarkedForType DEF Clear
<1>4. DbTypeOK'
  BY <1>1, <1>3 DEF Clear, OrderSame, DbTypeOK, lists, Marks
<1>5. DbPlaces' /\ DbSets'
  BY <1>2 DEF DbOrder, DbPlaces, DbSets, Clear, lists
<1>6. DbOrder'
  BY <1>2, <1>4, <1>5 DEF DbOrder
<1>7. ASSUME DbMarked PROVE DbMarked'
  <2> SUFFICES ASSUME tidy
               PROVE  Marked(subc, MarkedFor(context), context, contexts, Known)
    BY <1>2 DEF DbMarked, Clear, lists
  <2>1. Marked(subc, cmark, current, contexts, Known) /\ context \in Known
    BY <1>7 DEF DbMarked, DbOrder, DbPlaces, DbLists
  <2> QED BY <1>1, <2>1, MarkedForRight
<1>8. DbData => DbData'
  BY <1>2 DEF DbData, Clear, OrderSame
<1> QED BY <1>6, <1>7, <1>8

(* The facts, or the choice of a context, change. *)
LEMMA FactsKeep ==
  ASSUME DbOrder, OrderSame, UNCHANGED <<lists, current, cmark, tidy>>, killing = <<>>,
         context' \in Live, data' \in [Ctx -> SUBSET Fact], nodes' \subseteq Fact,
         \A c \in Ctx \ Known : data'[c] = data[c]
  PROVE  DbOrder' /\ (DbMarked => DbMarked') /\ (DbData => DbData')
<1>1. DbTypeOK
  BY DEF DbOrder
<1>2. DbLists' /\ Rooted(subc, Live)' /\ Live' = Live /\ Known' = Known
  BY SameOrder
<1>3. context' \in Ctx
  BY DEF DbOrder, Rooted
<1>4. DbTypeOK'
  BY <1>1, <1>3 DEF OrderSame, DbTypeOK, lists
<1>5. Known = Live
  BY LiveIsKnown DEF DbOrder
<1>6. DbPlaces' /\ DbSets'
  BY <1>2, <1>5 DEF DbOrder, DbPlaces, DbSets, lists
<1>7. DbOrder'
  BY <1>2, <1>4, <1>5, <1>6 DEF DbOrder
<1>8. DbMarked => DbMarked'
  BY <1>2 DEF DbMarked, OrderSame, lists
<1>9. DbData => DbData'
  BY <1>2 DEF DbData, OrderSame
<1> QED BY <1>7, <1>8, <1>9

LEMMA ActivateKeeps ==
  ASSUME DbOrder, NEW c \in Ctx, Activate(c), OrderSame, tidy' = tidy
  PROVE  DbOrder' /\ (DbMarked => DbMarked') /\ (DbData => DbData')
<1>1. DbTypeOK /\ subc \in Subcs /\ cmark \in Marks /\ activecontexts = contexts
  BY TypeNames DEF DbOrder, DbSets
<1>2. DbLists' /\ Rooted(subc, Live)' /\ Live' = Live /\ Known' = Known
  BY SameOrder
<1>3. cmark' = Mark(cmark, c) /\ contexts' = contexts \cup {c} /\ c \in Known /\ c \notin contexts
  BY <1>1 DEF Activate
<1>4. cmark' \in Marks
  BY <1>1, <1>3, MarkValue
<1>5. DbTypeOK'
  BY <1>1, <1>3, <1>4 DEF Activate, OrderSame, DbTypeOK, Marks
<1>6. DbPlaces' /\ DbSets'
  BY <1>1, <1>2, <1>3, FS_AddElement DEF DbOrder, DbPlaces, DbSets, Activate
<1>7. DbOrder'
  BY <1>2, <1>5, <1>6 DEF DbOrder
<1>8. ASSUME DbMarked PROVE DbMarked'
  <2> SUFFICES ASSUME tidy
               PROVE  Marked(subc, Mark(cmark, c), current, contexts \cup {c}, Known)
    BY <1>2, <1>3 DEF DbMarked, Activate
  <2>1. Marked(subc, cmark, current, contexts, Known)
    BY <1>8 DEF DbMarked
  <2> QED BY <1>1, <1>3, <2>1, MarkedActivated
<1>9. DbData => DbData'
  BY <1>2 DEF DbData, OrderSame, Activate
<1> QED BY <1>7, <1>8, <1>9

LEMMA DeactivateKeeps ==
  ASSUME DbOrder, NEW c \in Ctx, Deactivate(c), OrderSame, tidy' = tidy
  PROVE  DbOrder' /\ (DbMarked => DbMarked') /\ (DbData => DbData')
<1>1. DbTypeOK /\ subc \in Subcs /\ cmark \in Marks /\ activecontexts = contexts
      /\ IsFiniteSet(contexts)
  BY TypeNames DEF DbOrder, DbSets
<1>2. DbLists' /\ Rooted(subc, Live)' /\ Live' = Live /\ Known' = Known
  BY SameOrder
<1>4. cmark' \in Marks
  BY <1>1, UnmarkType DEF Deactivate, Deactivated
<1>5. DbTypeOK'
  BY <1>1, <1>4 DEF Deactivate, OrderSame, DbTypeOK, Marks
<1>6. DbPlaces' /\ DbSets'
  BY <1>1, <1>2, FS_RemoveElement, FS_Subset DEF DbOrder, DbPlaces, DbSets, Deactivate
<1>7. DbOrder'
  BY <1>2, <1>5, <1>6 DEF DbOrder
<1>8. ASSUME DbMarked PROVE DbMarked'
  <2> SUFFICES ASSUME tidy
               PROVE  Marked(subc, Deactivated(cmark, c), current, contexts \ {c}, Known)
    BY <1>2 DEF DbMarked, Deactivate
  <2>1. Marked(subc, cmark, current, contexts, Known)
    BY <1>8 DEF DbMarked
  <2>2. CASE c \in contexts
    BY <1>1, <2>1, <2>2, MarkedDeactivated DEF Deactivated
  <2>3. CASE c \notin contexts
    <3>1. contexts \ {c} = contexts /\ Deactivated(cmark, c) = cmark
      BY <2>3 DEF Deactivated
    <3> QED BY <2>1, <3>1
  <2> QED BY <2>2, <2>3
<1>9. DbData => DbData'
  BY <1>2 DEF DbData, OrderSame, Deactivate
<1> QED BY <1>7, <1>8, <1>9

(***************************************************************************)
(* A context is made.                                                      *)
(***************************************************************************)

LEMMA CreateKeeps ==
  ASSUME DbOrder, NEW c \in Ctx, NEW sub \in Known, Create(c, sub), killing = <<>>,
         killing' = killing, tidy' = tidy
  PROVE  DbOrder' /\ (DbMarked => DbMarked') /\ (DbData => DbData')
<1>1. DbTypeOK /\ subc \in Subcs /\ cmark \in Marks /\ GoodList(userContexts) /\ Initial \in Known
      /\ DbSets /\ DbPlaces /\ Known \subseteq Ctx
  BY TypeNames, InRange DEF DbOrder, DbLists, DbTypeOK, Known
<1>2. Live = Known /\ Rooted(subc, Known) /\ Sorted(subc, userContexts)
  BY LiveIsKnown DEF DbOrder, DbLists
<1>3. c \notin Known /\ sub # c /\ sub \in Ctx
  BY <1>1 DEF Create
<1>4. subc' = [subc EXCEPT ![c] = sub] /\ userContexts' = <<c>> \o userContexts /\ context' = c
      /\ UNCHANGED <<activecontexts, contexts, current, cmark, data, nodes>>
  BY DEF Create
<1>5. subc' \in Subcs /\ subc'[c] = sub /\ \A d \in Known : subc'[d] = subc[d]
  BY <1>1, <1>3, <1>4 DEF Subcs
<1>6. GoodList(userContexts') /\ Known' = {c} \cup Known
  BY <1>1, <1>3, <1>4, Prepended DEF Known
<1>7. Sorted(subc', userContexts')
  <2>1. \A d \in Known : subc[d] # c
    BY <1>2, <1>3, CtxAssumption DEF Rooted
  <2>2. subc'[c] # c
    BY <1>3, <1>5
  <2> QED BY <1>1, <1>2, <1>3, <1>4, <1>5, <2>1, <2>2, PrependedSorted DEF Known
<1>8. Rooted(subc', Known')
  <2>1. Rooted(subc', Known \cup {c})
    BY <1>2, <1>3, <1>5, RootedMore
  <2>2. Known \cup {c} = Known'
    BY <1>6
  <2> QED BY <2>1, <2>2
<1>9. Live' = Known'
  BY <1>8 DEF Live, Known, Rooted
<1>10. DbTypeOK'
  <2>1. userContexts' \in Seq(Ctx)
    BY <1>6 DEF GoodList
  <2> QED BY <1>1, <1>4, <1>5, <2>1 DEF DbTypeOK, Subcs
<1>11. DbLists'
  BY <1>1, <1>6, <1>7, <1>9 DEF DbLists
<1>12. DbPlaces' /\ DbSets'
  BY <1>1, <1>2, <1>4, <1>6, <1>9 DEF DbPlaces, DbSets
<1>13. DbOrder'
  BY <1>8, <1>9, <1>10, <1>11, <1>12 DEF DbOrder
<1>14. ASSUME DbMarked PROVE DbMarked'
  <2> SUFFICES ASSUME tidy
               PROVE  Marked(subc', cmark, current, contexts, Known')
    BY <1>4 DEF DbMarked
  <2>1. Marked(subc, cmark, current, contexts, Known)
    BY <1>14 DEF DbMarked
  <2>2. Known' \in SUBSET Ctx /\ Known \subseteq Known' /\ ClosedIn(subc', Known')
    BY <1>6, <1>8 DEF Rooted, ClosedIn
  <2> QED BY <1>5, <2>1, <2>2, MarkedSame
<1>15. DbData => DbData'
  BY <1>4, <1>6 DEF DbData
<1> QED BY <1>13, <1>14, <1>15

(***************************************************************************)
(* A context is killed.                                                    *)
(***************************************************************************)

(* Where the selection goes when c is killed. *)
LEMMA NextPlace ==
  ASSUME DbOrder, NEW c \in Live, c # Initial, c # Global, \A d \in Live : subc[d] # c
  PROVE  NextContext(c) \in Live \ {c}
<1>1. context \in Live /\ Rooted(subc, Live)
  BY DEF DbOrder, DbPlaces
<1>2. subc[c] \in Live \ {c} /\ Initial \in Live \ {c}
  BY <1>1 DEF Rooted
<1> QED BY <1>1, <1>2 DEF NextContext

LEMMA MarksAfterKillType ==
  ASSUME cmark \in Marks, NEW c
  PROVE  MarksAfterKill(c) \in Marks
<1> PICK asked : asked = IF c # context THEN MarkedFor(context) ELSE cmark
  OBVIOUS
<1> PICK from : from = IF c # context THEN context ELSE current
  OBVIOUS
<1> PICK off : off = IF c \in activecontexts THEN Deactivated(asked, c) ELSE asked
  OBVIOUS
<1>1. asked \in Marks
  BY MarkedForType
<1>2. off \in Marks
  BY <1>1, UnmarkType DEF Deactivated
<1>3. Mark(Unmark(off, from), NextContext(c)) \in Marks
  BY <1>2, UnmarkType, MarkValue
<1>4. MarksAfterKill(c) = IF from = NextContext(c) THEN off
                          ELSE Mark(Unmark(off, from), NextContext(c))
  BY DEF MarksAfterKill
<1> QED BY <1>2, <1>3, <1>4

LEMMA MarksAfterKillRight ==
  ASSUME subc \in Subcs, activecontexts = contexts, NEW L, context \in L,
         Marked(subc, cmark, current, contexts, L), NEW c, NextContext(c) \in L
  PROVE  Marked(subc, MarksAfterKill(c), NextContext(c), contexts \ {c}, L)
<1> PICK asked : asked = IF c # context THEN MarkedFor(context) ELSE cmark
  OBVIOUS
<1> PICK from : from = IF c # context THEN context ELSE current
  OBVIOUS
<1> PICK off : off = IF c \in activecontexts THEN Deactivated(asked, c) ELSE asked
  OBVIOUS
<1>1. Marked(subc, asked, from, contexts, L)
  BY MarkedForRight
<1>2. Marked(subc, off, from, contexts \ {c}, L)
  <2>1. CASE c \in contexts
    <3>1. off = Unmark(asked, c)
      BY <2>1 DEF Deactivated
    <3> QED BY <1>1, <2>1, <3>1, MarkedDeactivated
  <2>2. CASE c \notin contexts
    <3>1. off = asked /\ contexts \ {c} = contexts
      BY <2>2
    <3> QED BY <1>1, <3>1
  <2> QED BY <2>1, <2>2
<1>3. Marked(subc, Mark(Unmark(off, from), NextContext(c)), NextContext(c), contexts \ {c}, L)
  BY <1>2, MarkedMoved
<1>4. MarksAfterKill(c) = IF from = NextContext(c) THEN off
                          ELSE Mark(Unmark(off, from), NextContext(c))
  BY DEF MarksAfterKill
<1> QED BY <1>2, <1>3, <1>4

(* What the list of killallcontexts becomes: shorter by c, if c was on it. *)
LEMMA KillKeeps ==
  ASSUME DbOrder, NEW c \in Live, \A d \in Live : subc[d] # c, Killcontext(c), tidy' = tidy,
         \/ killing' = <<>> /\ killing = <<>>
         \/ /\ killing # <<>> /\ GoodList(killing') /\ Sorted(subc, killing')
            /\ Range(killing') = Range(killing) \ {c}
  PROVE  DbOrder' /\ (DbMarked => DbMarked') /\ (DbData => DbData')
<1>1. DbTypeOK /\ subc \in Subcs /\ cmark \in Marks /\ GoodList(userContexts) /\ Initial \in Known
      /\ DbSets /\ DbPlaces /\ Live \subseteq Known /\ Rooted(subc, Live) /\ Known \subseteq Ctx
  BY TypeNames, InRange DEF DbOrder, DbLists, DbTypeOK, Known
<1>2. c \in Known /\ c # Global /\ c # Initial /\ c \in Ctx
  BY <1>1 DEF Killcontext
<1>3. /\ userContexts' = Deleted(userContexts, c) /\ context' = NextContext(c)
      /\ current' = NextContext(c) /\ cmark' = [MarksAfterKill(c) EXCEPT ![c] = NoMark]
      /\ subc' = [subc EXCEPT ![c] = NoCtx] /\ data' = [data EXCEPT ![c] = {}]
      /\ activecontexts' = activecontexts \ {c} /\ nodes' \subseteq nodes
  BY DEF Killcontext, Emptied
<1>4. contexts' = contexts \ {c}
  BY <1>1 DEF Killcontext, DbSets
<1>5. subc' \in Subcs /\ \A d \in Ctx \ {c} : subc'[d] = subc[d]
  BY <1>1, <1>2, <1>3 DEF Subcs
<1>6. GoodList(userContexts') /\ Known' = Known \ {c}
      /\ (Sorted(subc, userContexts) => Sorted(subc', userContexts'))
  <2>1. \A d \in Range(userContexts) \ {c} : subc'[d] = subc[d]
    BY <1>1, <1>5 DEF Known
  <2> QED BY <1>1, <1>2, <1>3, <2>1, DeletedGood DEF Known
<1>7. Live' = Live \ {c}
  <2>1. CASE killing = <<>> /\ killing' = <<>>
    <3>1. Live = Known
      BY <1>1, <2>1, LiveIsKnown DEF DbOrder
    <3>2. Live' = Known' \cup {Initial, Global}
      BY <2>1 DEF Live, Known
    <3> QED BY <1>2, <1>6, <3>1, <3>2 DEF Live
  <2>2. CASE killing # <<>> /\ GoodList(killing') /\ Range(killing') = Range(killing) \ {c}
    <3>1. killing' # <<>>
      BY <2>2 DEF GoodList
    <3> QED BY <1>2, <2>2, <3>1 DEF Live
  <2> QED BY <2>1, <2>2
<1>8. NextContext(c) \in Live \ {c}
  BY <1>2, NextPlace
<1>9. MarksAfterKill(c) \in Marks
  BY <1>1, MarksAfterKillType
<1>10. cmark' \in Marks /\ cmark'[c] = NoMark /\ \A d \in Ctx \ {c} : cmark'[d] = MarksAfterKill(c)[d]
  <2> PICK mm \in Marks : mm = MarksAfterKill(c)
    BY <1>9
  <2>1. cmark' = [mm EXCEPT ![c] = NoMark]
    BY <1>3
  <2>2. [mm EXCEPT ![c] = NoMark] \in Marks /\ [mm EXCEPT ![c] = NoMark][c] = NoMark
        /\ \A d \in Ctx \ {c} : [mm EXCEPT ![c] = NoMark][d] = mm[d]
    BY <1>2 DEF Marks
  <2> QED BY <2>1, <2>2
<1>11. DbTypeOK'
  <2>0. killing' = <<>> \/ GoodList(killing')
    OBVIOUS
  <2>1. userContexts' \in Seq(Ctx) /\ killing' \in Seq(Ctx)
    <3>1. <<>> \in Seq(Ctx)
      OBVIOUS
    <3>2. \A s : GoodList(s) => s \in Seq(Ctx)
      BY DEF GoodList
    <3> QED BY ONLY <1>6, <2>0, <3>1, <3>2
  <2>2. data' \in [Ctx -> SUBSET Fact] /\ subc' \in [Ctx -> Ctx \cup {NoCtx}]
        /\ cmark' \in [Ctx -> Int \cup {NoMark}]
    BY <1>1, <1>3, <1>5, <1>10 DEF DbTypeOK, Subcs, Marks
  <2>3. context' \in Ctx /\ current' \in Ctx
    BY <1>1, <1>3, <1>8
  <2>4. activecontexts' \subseteq Ctx /\ contexts' \subseteq Ctx /\ tidy' \in BOOLEAN /\ nodes' \subseteq Fact
    BY <1>1, <1>3, <1>4 DEF DbTypeOK
  <2> QED BY <2>1, <2>2, <2>3, <2>4 DEF DbTypeOK
<1>12. DbSets'
  <2>1. IsFiniteSet(contexts \ {c})
    BY <1>1, FS_Subset DEF DbSets
  <2> QED BY <1>1, <1>3, <1>4, <2>1 DEF DbSets
<1>13. Rooted(subc', Live')
  <2>1. \A d \in Live \ {c} : subc'[d] = subc[d]
    BY <1>1, <1>5
  <2> QED BY <1>1, <1>2, <1>7, <2>1, RootedKilled
<1>14. DbLists'
  <2>1. Initial \in Known' /\ Live' \subseteq Known'
    BY <1>1, <1>2, <1>6, <1>7
  <2>2. Known' = Live' => Sorted(subc', userContexts')
    <3>1. Known' = Live' => Known = Live
      BY <1>1, <1>2, <1>6, <1>7
    <3> QED BY <1>6, <3>1 DEF DbOrder, DbLists
  <2>3. killing' # <<>> => GoodList(killing') /\ Sorted(subc', killing')
    <3> SUFFICES ASSUME killing' # <<>> PROVE GoodList(killing') /\ Sorted(subc', killing')
      OBVIOUS
    <3>1. GoodList(killing') /\ Sorted(subc, killing') /\ Range(killing') = Range(killing) \ {c}
      OBVIOUS
    <3>2. killing' \in Seq(Ctx)
      BY <3>1 DEF GoodList
    <3>3. \A i \in 1 .. Len(killing') : killing'[i] \in Ctx \ {c}
      BY <3>1, <3>2, InRange
    <3> QED BY <1>5, <3>1, <3>3 DEF Sorted
  <2> QED BY <1>6, <2>1, <2>2, <2>3 DEF DbLists
<1>15. DbPlaces'
  BY <1>3, <1>7, <1>8 DEF DbPlaces
<1>16. DbOrder'
  <2>1. tidy' => Known' = Live'
    BY <1>6, <1>7 DEF DbOrder
  <2> QED BY <1>11, <1>12, <1>13, <1>14, <1>15, <2>1 DEF DbOrder
<1>17. ASSUME DbMarked PROVE DbMarked'
  <2> SUFFICES ASSUME tidy
               PROVE  Marked(subc', cmark', NextContext(c), contexts \ {c}, Known \ {c})
    BY <1>3, <1>4, <1>6 DEF DbMarked
  <2>1. Marked(subc, cmark, current, contexts, Known) /\ Known = Live
    BY <1>17 DEF DbMarked, DbOrder
  <2>2. Marked(subc, MarksAfterKill(c), NextContext(c), contexts \ {c}, Known)
    BY <1>1, <1>8, <2>1, MarksAfterKillRight DEF DbSets, DbPlaces
  <2>3. \A d \in Known \ {c} : subc'[d] = subc[d]
    BY <1>1, <1>5
  <2>4. c \in Known /\ c # NextContext(c) /\ c \notin contexts \ {c} /\ \A d \in Known : subc[d] # c
    BY <1>2, <1>8, <2>1
  <2> PICK mm : mm = MarksAfterKill(c)
    OBVIOUS
  <2> PICK g, dm, K, cur, con : g = subc' /\ dm = cmark' /\ K = Known /\ cur = NextContext(c)
                                 /\ con = contexts \ {c}
    OBVIOUS
  <2>5. Marked(subc, mm, cur, con, K)
    BY ONLY <2>2, mm = MarksAfterKill(c), K = Known, cur = NextContext(c), con = contexts \ {c}
  <2>6. dm \in Marks /\ dm[c] = NoMark /\ \A d \in Ctx \ {c} : dm[d] = mm[d]
    BY <1>10
  <2>7. \A d \in K \ {c} : g[d] = subc[d]
    BY <2>3
  <2>8. c \in K /\ c # cur /\ c \notin con /\ \A d \in K : subc[d] # c
    BY <2>4
  <2>9. Marked(g, dm, cur, con, K \ {c})
    BY ONLY <2>5, <2>6, <2>7, <2>8, MarkedKilled
  <2> QED BY <2>9
<1>18. DbData => DbData'
  <2> SUFFICES ASSUME DbData PROVE DbData'
    OBVIOUS
  <2>1. data'[c] = {} /\ \A d \in Ctx \ {c} : data'[d] = data[d]
    BY <1>1, <1>2, <1>3 DEF DbTypeOK
  <2>2. tidy' => \A d \in Ctx \ Known' : data'[d] = {}
    BY <1>6, <2>1 DEF DbData
  <2>3. killing' # <<>> /\ Initial \notin Range(killing') => data'[Initial] = {}
    BY <1>2, <2>1, CtxAssumption DEF DbData
  <2> QED BY <2>2, <2>3 DEF DbData
<1> QED BY <1>16, <1>17, <1>18

(***************************************************************************)
(* Every step.                                                             *)
(***************************************************************************)

LEMMA InitInv == DbInit => DbInv
<1> SUFFICES ASSUME DbInit PROVE DbInv
  OBVIOUS
<1>1. /\ userContexts = <<Initial, Global>> /\ killing = <<>> /\ tidy = TRUE
      /\ activecontexts = {} /\ contexts = {} /\ context = Initial /\ current = Global
      /\ subc = [c \in Ctx |-> IF c = Initial THEN Global ELSE NoCtx]
      /\ cmark = [c \in Ctx |-> IF c = Global THEN 1 ELSE NoMark]
      /\ data = [c \in Ctx |-> {}] /\ nodes = {}
  BY DEF DbInit
<1>2. /\ subc \in Subcs /\ subc[Initial] = Global /\ subc[Global] = NoCtx
      /\ cmark \in Marks /\ \A c \in Ctx : cmark[c] = IF c = Global THEN 1 ELSE NoMark
  <2>1. \A c \in Ctx : (IF c = Initial THEN Global ELSE NoCtx) \in Ctx \cup {NoCtx}
    BY CtxAssumption
  <2>2. \A c \in Ctx : (IF c = Global THEN 1 ELSE NoMark) \in Int \cup {NoMark}
    OBVIOUS
  <2>3. subc[Initial] = Global /\ subc[Global] = NoCtx
    BY <1>1, CtxAssumption
  <2> QED BY <1>1, <2>1, <2>2, <2>3 DEF Subcs, Marks
<1>3. GoodList(userContexts) /\ Known = {Initial, Global} /\ Sorted(subc, userContexts)
  BY <1>1, <1>2, FirstList DEF Known
<1>4. Live = {Initial, Global}
  BY <1>1, <1>3 DEF Live, Known
<1>5. DbTypeOK
  <2>1. userContexts \in Seq(Ctx)
    BY <1>3 DEF GoodList
  <2>2. killing \in Seq(Ctx) /\ data \in [Ctx -> SUBSET Fact] /\ tidy \in BOOLEAN
    BY <1>1
  <2> QED BY <1>1, <1>2, <2>1, <2>2, CtxAssumption DEF DbTypeOK, Subcs, Marks
<1>6. ChainIn(subc, Global) = {Global} /\ Global \in ChainIn(subc, Initial)
  <2>1. ClosedIn(subc, {Global}) /\ {Global} \in SUBSET Ctx
    BY <1>2, CtxAssumption DEF ClosedIn
  <2>2. Global \in ChainIn(subc, Global) /\ ChainIn(subc, Global) \subseteq {Global}
    BY <1>2, <2>1, ChainClosed, ChainSmallest, CtxAssumption
  <2>3. Initial \in ChainIn(subc, Initial) /\ ClosedIn(subc, ChainIn(subc, Initial))
    BY <1>2, ChainClosed, CtxAssumption
  <2>4. Global \in ChainIn(subc, Initial)
    BY <1>2, <2>3, CtxAssumption DEF ClosedIn
  <2> QED BY <2>2, <2>4
<1>7. Rooted(subc, {Initial, Global})
  BY <1>2, <1>6, CtxAssumption DEF Rooted
<1>8. DbSets
  BY <1>1, FS_EmptySet DEF DbSets
<1>9. DbLists /\ DbPlaces
  BY <1>1, <1>3, <1>4 DEF DbLists, DbPlaces
<1>10. DbOrder
  BY <1>3, <1>4, <1>5, <1>7, <1>8, <1>9 DEF DbOrder
<1>11. Exact(subc, cmark, Global, {})
  <2> SUFFICES ASSUME NEW c \in Ctx
               PROVE  Value(cmark[c]) = One(c \in ChainIn(subc, Global))
                                          + Cardinality(OverIn(subc, c, {}))
    BY DEF Exact
  <2>1. OverIn(subc, c, {}) = {}
    BY DEF OverIn
  <2>2. Value(cmark[c]) = One(c \in ChainIn(subc, Global))
    BY <1>2, <1>6, CtxAssumption DEF Value, One
  <2>3. One(c \in ChainIn(subc, Global)) \in 0 .. 1
    BY DEF One
  <2> QED BY <2>1, <2>2, <2>3, FS_EmptySet
<1>12. ClosedIn(subc, {Initial, Global})
  BY <1>2 DEF ClosedIn
<1>13. DbMarked
  BY <1>1, <1>2, <1>3, <1>8, <1>11, <1>12, CtxAssumption DEF DbMarked, Marked, DbSets
<1>14. DbData
  BY <1>1 DEF DbData
<1> QED BY <1>10, <1>13, <1>14 DEF DbInv

(* An operation of the user. *)
LEMMA UserStep ==
  ASSUME DbInv, ~KillParents, killing = <<>>, UserOperation, UNCHANGED <<killing, tidy>>
  PROVE  DbInv'
<1>1. DbOrder /\ DbMarked /\ DbData /\ DbTypeOK /\ Live = Known /\ Rooted(subc, Known)
      /\ Known \subseteq Ctx /\ context \in Known /\ Initial \in Known /\ Global \in Known
  BY LiveIsKnown DEF DbInv, DbOrder, Rooted, DbPlaces
<1> SUFFICES DbOrder' /\ (DbMarked => DbMarked') /\ (DbData => DbData')
  BY <1>1 DEF DbInv
<1>2. CASE Deduce
  <2>1. OrderSame /\ Clear /\ data' = data /\ nodes' = nodes
    BY <1>2 DEF Deduce, Clear, OrderSame, lists
  <2> QED BY <1>1, <2>1, DeduceKeeps DEF DbTypeOK
<1>3. ASSUME NEW f \in Fact, Assume(f) \/ Forget(f)
      PROVE  DbOrder' /\ (DbMarked => DbMarked') /\ (DbData => DbData')
  <2>1. /\ data' \in [Ctx -> SUBSET Fact] /\ \A c \in Ctx \ Known : data'[c] = data[c]
        /\ nodes' \subseteq Fact
    BY <1>1, <1>3 DEF Assume, Forget, DbTypeOK
  <2>2. CASE Assume(f)
    <3>1. OrderSame /\ Clear
      BY <2>2 DEF Assume, Clear, OrderSame, lists
    <3> QED BY <1>1, <2>1, <3>1, DeduceKeeps
  <2>3. CASE Forget(f)
    <3>1. OrderSame /\ UNCHANGED <<lists, current, cmark, tidy>> /\ context' \in Live
      BY <1>1, <2>3 DEF Forget, OrderSame, lists
    <3> QED BY <1>1, <2>1, <3>1, FactsKeep
  <2> QED BY <1>3, <2>2, <2>3
<1>4. ASSUME NEW c \in Ctx, Select(c)
      PROVE  DbOrder' /\ (DbMarked => DbMarked') /\ (DbData => DbData')
  <2>1. OrderSame /\ UNCHANGED <<lists, current, cmark, tidy>> /\ context' \in Live /\ data' = data
        /\ nodes' = nodes
    BY <1>1, <1>4 DEF Select, OrderSame, lists
  <2> QED BY <1>1, <2>1, FactsKeep DEF DbTypeOK
<1>5. ASSUME NEW c \in Ctx, Newcontext(c)
      PROVE  DbOrder' /\ (DbMarked => DbMarked') /\ (DbData => DbData')
  BY <1>1, <1>5, CreateKeeps DEF Newcontext
<1>6. ASSUME NEW c \in Ctx, NEW sub \in Ctx, Supcontext(c, sub)
      PROVE  DbOrder' /\ (DbMarked => DbMarked') /\ (DbData => DbData')
  <2>1. Create(c, sub) /\ sub \in Known
    BY <1>1, <1>6 DEF Supcontext
  <2> QED BY <1>1, <2>1, CreateKeeps
<1>7. ASSUME NEW c \in Ctx, Activate(c)
      PROVE  DbOrder' /\ (DbMarked => DbMarked') /\ (DbData => DbData')
  <2>1. OrderSame
    BY <1>7 DEF Activate, OrderSame
  <2> QED BY <1>1, <1>7, <2>1, ActivateKeeps
<1>8. ASSUME NEW c \in Ctx, Deactivate(c)
      PROVE  DbOrder' /\ (DbMarked => DbMarked') /\ (DbData => DbData')
  <2>1. OrderSame
    BY <1>8 DEF Deactivate, OrderSame
  <2> QED BY <1>1, <1>8, <2>1, DeactivateKeeps
<1>9. ASSUME NEW c \in Ctx, KillcontextRefused(c) \/ KillcontextFails(c)
      PROVE  DbOrder' /\ (DbMarked => DbMarked') /\ (DbData => DbData')
  BY <1>2, <1>9 DEF KillcontextRefused, KillcontextFails
<1>10. ASSUME NEW c \in Ctx, \A d \in Known : subc[d] # c, Killcontext(c)
       PROVE  DbOrder' /\ (DbMarked => DbMarked') /\ (DbData => DbData')
  <2>1. c \in Live /\ \A d \in Live : subc[d] # c
    BY <1>1, <1>10 DEF Killcontext
  <2>2. killing' = <<>> /\ killing = <<>> /\ tidy' = tidy /\ DbOrder /\ Killcontext(c)
    BY <1>1, <1>10
  <2> QED BY ONLY <2>1, <2>2, KillKeeps
<1>11. CASE KillcontextInitial
  <2>1. OrderSame /\ UNCHANGED <<lists, current, cmark, tidy>> /\ context' \in Live
    BY <1>1, <1>11 DEF KillcontextInitial, OrderSame, lists
  <2>2. /\ data' \in [Ctx -> SUBSET Fact] /\ \A c \in Ctx \ Known : data'[c] = data[c]
        /\ nodes' \subseteq Fact
    BY <1>1, <1>11 DEF KillcontextInitial, Emptied, DbTypeOK
  <2> QED BY <1>1, <2>1, <2>2, FactsKeep
<1> QED BY <1>2, <1>3, <1>4, <1>5, <1>6, <1>7, <1>8, <1>9, <1>10, <1>11 DEF UserOperation

(* killallcontexts begins, with all contexts still to come to. *)
LEMMA BeginStep ==
  ASSUME DbInv, killing = <<>>, KillallcontextsBegin
  PROVE  DbInv'
<1>1. DbOrder /\ DbMarked /\ DbData /\ DbTypeOK /\ DbLists /\ Live = Known
  BY LiveIsKnown DEF DbInv, DbOrder
<1>2. UNCHANGED <<lists, context, current, subc, cmark, data, nodes, tidy>> /\ killing' = userContexts
  BY DEF KillallcontextsBegin
<1>3. GoodList(killing') /\ killing' # <<>> /\ Sorted(subc, userContexts)
  BY <1>1, <1>2 DEF DbLists, GoodList
<1>4. Known' = Known /\ Live' = Live
  <2>1. Live' = Known \cup {Initial, Global}
    BY <1>2, <1>3 DEF Live, Known
  <2>2. Initial \in Known /\ Global \in Known
    BY <1>1 DEF DbOrder, Rooted
  <2> QED BY <1>1, <1>2, <2>1, <2>2 DEF Known, lists
<1>5. DbTypeOK'
  BY <1>1, <1>2 DEF DbTypeOK, lists
<1>6. DbLists' /\ DbPlaces' /\ DbSets'
  BY <1>1, <1>2, <1>3, <1>4 DEF DbOrder, DbLists, DbPlaces, DbSets, lists
<1>7. DbOrder'
  BY <1>1, <1>2, <1>4, <1>5, <1>6 DEF DbOrder, lists
<1>8. DbMarked'
  BY <1>1, <1>2, <1>4 DEF DbMarked, lists
<1>9. Initial \in Range(killing')
  BY <1>1, <1>2 DEF DbLists, Known
<1>10. DbData'
  BY <1>1, <1>2, <1>4, <1>9 DEF DbData
<1> QED BY <1>7, <1>8, <1>10 DEF DbInv

(* The list of killallcontexts gets shorter, and nothing else happens to the  *)
(* lists, because the context at its head was refused or is initial.         *)
LEMMA ShorterKeeps ==
  ASSUME DbOrder, killing # <<>>, Head(killing) # Global, killing' = Tail(killing),
         UNCHANGED <<userContexts, subc>>, DbTypeOK', DbSets',
         context' \in Live, context' # Head(killing) \/ Head(killing) = Initial,
         \/ current' = context' /\ (tidy' => Known = Live /\ Head(killing) = Initial)
         \/ current' = current /\ context' = context /\ Head(killing) = Initial /\ tidy' = tidy
  PROVE  DbOrder'
<1> PICK c : c = Head(killing)
  OBVIOUS
<1>1. GoodList(killing) /\ Sorted(subc, killing) /\ Rooted(subc, Live) /\ DbLists /\ DbPlaces
      /\ (tidy => Known = Live) /\ Live = Range(killing) \cup {Initial, Global} /\ Known \subseteq Ctx
      /\ DbTypeOK
  BY InRange DEF DbOrder, DbLists, Live, Known, DbTypeOK
<1>2. /\ GoodList(killing') /\ Range(killing') = Range(killing) \ {c} /\ c \in Range(killing)
      /\ Sorted(subc, killing') /\ \A d \in Range(killing) : subc[d] # c
  BY <1>1, TailGood
<1>3. Live' = Range(killing') \cup {Initial, Global} /\ Known' = Known
  BY <1>2 DEF Live, Known, GoodList
<1>4. CASE c = Initial
  <2>1. Live' = Live
    BY <1>1, <1>2, <1>3, <1>4
  <2>2. DbLists'
    <3>1. Live' \subseteq Known' /\ (Known' = Live' => Sorted(subc', userContexts'))
          /\ GoodList(userContexts') /\ Initial \in Known'
      BY <1>1, <1>3, <2>1 DEF DbLists
    <3>2. GoodList(killing') /\ Sorted(subc', killing')
      BY <1>2
    <3> QED BY <3>1, <3>2 DEF DbLists
  <2>3. DbPlaces'
    BY <1>1, <1>3, <2>1 DEF DbPlaces
  <2>4. tidy' => Known' = Live'
    BY <1>1, <1>3, <2>1
  <2>5. Rooted(subc', Live')
    BY <1>1, <2>1
  <2> QED BY <2>2, <2>3, <2>4, <2>5 DEF DbOrder
<1>5. CASE c # Initial
  <2>1. Live' = Live \ {c} /\ c # Global /\ c \in Live
    BY <1>1, <1>2, <1>3, <1>5
  <2>2. \A d \in Live : subc[d] # c
    BY <1>1, <1>2, <2>1, CtxAssumption DEF Rooted
  <2>3. Rooted(subc, Live \ {c})
    BY <1>1, <1>5, <2>1, <2>2, RootedKilled
  <2>4. Known' # Live'
    BY <1>1, <1>3, <2>1 DEF DbLists
  <2>5. context' = current' /\ context' \in Live' /\ ~tidy'
    BY <1>5, <2>1
  <2>6. DbLists' /\ DbPlaces'
    BY <1>1, <1>2, <1>3, <2>1, <2>4, <2>5 DEF DbLists, DbPlaces
  <2> QED BY <2>1, <2>3, <2>4, <2>5, <2>6 DEF DbOrder
<1> QED BY <1>4, <1>5

(* killallcontexts has come to global. *)
LEMMA ResetStep ==
  ASSUME DbInv, killing # <<>>, Head(killing) = Global, KillallcontextsReset, killing' = <<>>
  PROVE  /\ DbInv'
         /\ tidy' => \A c \in Ctx \ {Global} : data'[c] = {} /\ (c \notin Known' => cmark'[c] = NoMark)
<1>1. DbOrder /\ DbMarked /\ DbData /\ DbTypeOK /\ DbLists /\ Rooted(subc, Live) /\ DbSets
      /\ subc \in Subcs /\ cmark \in Marks /\ (tidy => Known = Live)
  BY TypeNames DEF DbInv, DbOrder
<1>2. /\ context' = Initial /\ current' = Initial /\ userContexts' = <<Initial, Global>>
      /\ cmark' = [cmark EXCEPT ![Global] = 1, ![Initial] = 1]
      /\ subc' = [subc EXCEPT ![Initial] = Global] /\ tidy' = (tidy /\ contexts = {})
      /\ UNCHANGED <<activecontexts, contexts, data>> /\ nodes' = nodes \ Composite
  BY DEF KillallcontextsReset
<1>3. subc' = subc
  <2>1. subc[Initial] = Global
    BY <1>1 DEF Rooted
  <2> QED BY <1>1, <1>2, <2>1, CtxAssumption DEF Subcs
<1>4. /\ cmark' \in Marks /\ cmark'[Global] = 1 /\ cmark'[Initial] = 1
      /\ \A d \in Ctx \ {Global, Initial} : cmark'[d] = cmark[d]
  BY <1>1, <1>2, CtxAssumption DEF Marks
<1>5. Range(killing) = {Global} /\ Live = {Initial, Global}
  BY <1>1, GlobalAlone DEF DbLists, Live
<1>6. /\ GoodList(userContexts') /\ Known' = {Initial, Global} /\ Sorted(subc', userContexts')
      /\ subc[Initial] = Global /\ subc[Global] = NoCtx
  <2>1. subc'[Initial] = Global /\ subc'[Global] = NoCtx
    BY <1>1, <1>3 DEF Rooted
  <2> QED BY <1>2, <1>3, <2>1, FirstList DEF Known
<1>7. Live' = {Initial, Global}
  BY <1>6 DEF Live, Known
<1>8. DbTypeOK'
  <2>1. userContexts' \in Seq(Ctx) /\ killing' \in Seq(Ctx) /\ tidy' \in BOOLEAN
    BY <1>1, <1>2, <1>6 DEF GoodList, DbTypeOK
  <2> QED BY <1>1, <1>2, <1>3, <1>4, <2>1, CtxAssumption DEF DbTypeOK, Marks
<1>9. DbOrder'
  <2>1. DbLists' /\ DbPlaces' /\ DbSets'
    BY <1>1, <1>2, <1>6, <1>7 DEF DbLists, DbPlaces, DbSets
  <2>2. Rooted(subc', Live')
    BY <1>1, <1>3, <1>5, <1>7
  <2> QED BY <1>6, <1>7, <1>8, <2>1, <2>2 DEF DbOrder
<1>10. tidy' => \A c \in Ctx \ {Global} : data'[c] = {} /\ (c \notin Known' => cmark'[c] = NoMark)
  <2> SUFFICES ASSUME tidy', NEW c \in Ctx \ {Global}
               PROVE  data'[c] = {} /\ (c \notin Known' => cmark'[c] = NoMark)
    OBVIOUS
  <2>1. tidy /\ Known = {Initial, Global} /\ Initial \notin Range(killing)
    BY <1>1, <1>2, <1>5, CtxAssumption
  <2>2. data[Initial] = {} /\ \A d \in Ctx \ {Initial, Global} : data[d] = {} /\ cmark[d] = NoMark
    BY <1>1, <2>1 DEF DbData, DbMarked, Marked
  <2> QED BY <1>2, <1>4, <1>6, <2>2
<1>11. DbMarked'
  <2> SUFFICES ASSUME tidy' PROVE Marked(subc', cmark', Initial, contexts', Known')
    BY <1>2 DEF DbMarked
  <2>1. tidy /\ contexts = {} /\ contexts' = {}
    BY <1>2
  <2>2. \A d \in Ctx \ {Initial, Global} : cmark'[d] = NoMark
    BY <1>4, <1>6, <1>10
  <2>3. ClosedIn(subc, {Initial, Global}) /\ {Initial, Global} \in SUBSET Ctx
    BY <1>6, CtxAssumption DEF ClosedIn
  <2>4. ChainIn(subc, Initial) = {Initial, Global}
    <3>1. ChainIn(subc, Initial) \subseteq {Initial, Global}
      BY <2>3, ChainSmallest
    <3>2. Initial \in ChainIn(subc, Initial)
      BY <1>1, ChainClosed, CtxAssumption
    <3>3. Global \in ChainIn(subc, Initial)
      BY <1>1, <1>5 DEF Rooted
    <3> QED BY <3>1, <3>2, <3>3
  <2>5. Exact(subc, cmark', Initial, {})
    <3> SUFFICES ASSUME NEW d \in Ctx
                 PROVE  Value(cmark'[d]) = One(d \in {Initial, Global})
                                             + Cardinality(OverIn(subc, d, {}))
      BY <2>4 DEF Exact
    <3>1. OverIn(subc, d, {}) = {}
      BY DEF OverIn
    <3>2. Value(cmark'[d]) = One(d \in {Initial, Global})
      <4>1. CASE d \in {Initial, Global}
        <5>1. cmark'[d] = 1 /\ 1 # NoMark
          BY <1>4, <4>1, CtxAssumption
        <5>2. One(d \in {Initial, Global}) = 1
          BY <4>1 DEF One
        <5> QED BY <5>1, <5>2 DEF Value
      <4>2. CASE d \notin {Initial, Global}
        <5>1. cmark'[d] = NoMark
          BY <2>2, <4>2
        <5>2. One(d \in {Initial, Global}) = 0
          BY <4>2 DEF One
        <5> QED BY <5>1, <5>2 DEF Value
      <4> QED BY <4>1, <4>2
    <3>3. One(d \in {Initial, Global}) \in 0 .. 1
      BY DEF One
    <3>4. Cardinality(OverIn(subc, d, {})) = 0
      BY <3>1, FS_EmptySet
    <3> QED BY ONLY <3>2, <3>3, <3>4
  <2>6. Marked(subc, cmark', Initial, {}, {Initial, Global})
    BY <1>4, <2>2, <2>3, <2>5, FS_EmptySet DEF Marked
  <2> QED BY <1>3, <1>6, <2>1, <2>6
<1>12. DbData'
  BY <1>6, <1>10 DEF DbData
<1> QED BY <1>9, <1>10, <1>11, <1>12 DEF DbInv

(* contextmark, when killallcontexts calls it. *)
LEMMA DeduceTypes ==
  ASSUME DbTypeOK, DbSets, Deduce, UNCHANGED userContexts, killing' \in Seq(Ctx), tidy' \in BOOLEAN
  PROVE  DbTypeOK' /\ DbSets' /\ UNCHANGED <<context, subc, data, contexts>> /\ current' = context
<1>1. cmark' \in Marks
  BY TypeNames, MarkedForType DEF Deduce, Clear
<1> QED BY <1>1 DEF Deduce, Clear, DbTypeOK, DbSets, lists, Marks

(* An error ends killallcontexts: no context had been skipped before. *)
LEMMA FailsStep ==
  ASSUME DbInv, killing # <<>>, KillcontextFails(Head(killing)), killing' = <<>>, UNCHANGED tidy
  PROVE  DbInv'
<1>1. DbOrder /\ DbMarked /\ DbData /\ DbTypeOK /\ DbLists /\ Rooted(subc, Live) /\ DbSets /\ DbPlaces
      /\ subc \in Subcs
  BY TypeNames DEF DbInv, DbOrder
<1>2. Deduce /\ UNCHANGED userContexts /\ current # context
  BY DEF KillcontextFails, AsksForMark, Deduce, Clear, lists
<1>3. DbTypeOK' /\ DbSets' /\ UNCHANGED <<context, subc, data, contexts>> /\ current' = context
      /\ cmark' = MarkedFor(context)
  <2>1. killing' \in Seq(Ctx) /\ tidy' \in BOOLEAN
    BY <1>1 DEF DbTypeOK
  <2> QED BY <1>1, <1>2, <2>1, DeduceTypes DEF Deduce, Clear
<1>4. Known = Live /\ Known' = Known /\ Live' = Live
  <2>1. Known = Live
    BY <1>1, <1>2 DEF DbPlaces
  <2>2. Live' = Known \cup {Initial, Global}
    BY <1>2 DEF Live, Known
  <2>3. Initial \in Live /\ Global \in Live
    BY <1>1 DEF Rooted
  <2> QED BY <1>2, <2>1, <2>2, <2>3 DEF Known
<1>5. DbLists' /\ DbPlaces'
  BY <1>1, <1>2, <1>3, <1>4 DEF DbLists, DbPlaces
<1>6. DbOrder'
  BY <1>1, <1>3, <1>4, <1>5 DEF DbOrder
<1>7. DbMarked'
  <2> SUFFICES ASSUME tidy
               PROVE  Marked(subc, MarkedFor(context), context, contexts, Known)
    BY <1>3, <1>4 DEF DbMarked
  <2>1. Marked(subc, cmark, current, contexts, Known) /\ context \in Known
    BY <1>1, <1>4 DEF DbMarked, DbPlaces
  <2> QED BY <1>1, <2>1, MarkedForRight
<1>8. DbData'
  BY <1>1, <1>3, <1>4 DEF DbData
<1> QED BY <1>6, <1>7, <1>8 DEF DbInv

LEMMA KillallStep ==
  ASSUME DbInv, killing # <<>>, KillallcontextsStep
  PROVE  DbInv'
<1> PICK c : c = Head(killing)
  OBVIOUS
<1>1. DbOrder /\ DbMarked /\ DbData /\ DbTypeOK /\ DbLists /\ Rooted(subc, Live) /\ DbSets /\ DbPlaces
      /\ subc \in Subcs /\ GoodList(killing) /\ Sorted(subc, killing) /\ Live \subseteq Known
      /\ (tidy => Known = Live)
  BY TypeNames DEF DbInv, DbOrder, DbLists
<1>2. ASSUME c # Global
      PROVE  /\ GoodList(Tail(killing)) /\ Range(Tail(killing)) = Range(killing) \ {c}
             /\ c \in Live /\ Sorted(subc, Tail(killing)) /\ Tail(killing) \in Seq(Ctx)
             /\ \A d \in Range(killing) : subc[d] # c
  <2>1. c \in Range(killing) /\ GoodList(Tail(killing)) /\ Range(Tail(killing)) = Range(killing) \ {c}
        /\ Sorted(subc, Tail(killing)) /\ \A d \in Range(killing) : subc[d] # c
    BY <1>1, <1>2, TailGood
  <2> QED BY <2>1 DEF Live, GoodList
<1>3. CASE Killcontext(c) /\ killing' = Tail(killing) /\ UNCHANGED tidy
  <2>1. c # Global /\ c # Initial
    BY <1>3 DEF Killcontext
  <2>2. \A d \in Live : subc[d] # c
    BY <1>1, <1>2, <2>1, CtxAssumption DEF Live, Rooted
  <2>3. /\ killing # <<>> /\ GoodList(killing') /\ Sorted(subc, killing')
        /\ Range(killing') = Range(killing) \ {c}
    BY <1>2, <1>3, <2>1
  <2>4. c \in Live /\ tidy' = tidy /\ Killcontext(c)
    BY <1>2, <1>3, <2>1
  <2>5. DbOrder' /\ (DbMarked => DbMarked') /\ (DbData => DbData')
    BY ONLY <1>1, <2>2, <2>3, <2>4, KillKeeps
  <2> QED BY <1>1, <2>5 DEF DbInv
<1>4. CASE c = Initial /\ KillcontextInitial /\ killing' = Tail(killing) /\ UNCHANGED tidy
  <2>0. UNCHANGED <<userContexts, activecontexts, contexts, context, current, subc, cmark>>
        /\ data' = [data EXCEPT ![Initial] = {}] /\ c # Global /\ Known' = Known /\ nodes' \subseteq nodes
    BY <1>4, CtxAssumption DEF KillcontextInitial, Emptied, lists, Known
  <2>1. DbTypeOK' /\ DbSets'
    BY <1>1, <1>2, <1>4, <2>0 DEF DbTypeOK, DbSets
  <2>2. DbOrder'
    <3>1. context' \in Live /\ current' = current /\ context' = context /\ tidy' = tidy
          /\ killing' = Tail(killing)
      BY <1>1, <1>4, <2>0 DEF DbPlaces
    <3> QED BY <1>1, <1>4, <2>0, <2>1, <3>1, ShorterKeeps
  <2>3. DbMarked'
    BY <1>1, <1>4, <2>0 DEF DbMarked
  <2>4. DbData'
    <3>1. data'[Initial] = {} /\ \A d \in Ctx \ {Initial} : data'[d] = data[d]
      BY <1>1, <2>0, CtxAssumption DEF DbTypeOK
    <3>2. Initial \in Known
      BY <1>1 DEF DbLists
    <3> QED BY <1>1, <1>4, <2>0, <3>1, <3>2 DEF DbData
  <2> QED BY <2>2, <2>3, <2>4 DEF DbInv
<1>5. CASE KillcontextRefused(c) /\ killing' = Tail(killing) /\ tidy' = FALSE
  <2>0. c # Global /\ c # Initial /\ c # context /\ Deduce /\ UNCHANGED userContexts
    BY <1>5 DEF KillcontextRefused, AsksForMark, Deduce, Clear, lists
  <2>1. DbTypeOK' /\ DbSets' /\ UNCHANGED <<context, subc, data, contexts>> /\ current' = context
    BY <1>1, <1>2, <1>5, <2>0, DeduceTypes
  <2>2. DbOrder'
    <3>1. context' \in Live /\ context' # Head(killing) /\ current' = context' /\ ~tidy'
          /\ killing' = Tail(killing)
      BY <1>1, <1>5, <2>0, <2>1 DEF DbPlaces
    <3> QED BY <1>1, <2>0, <2>1, <3>1, ShorterKeeps
  <2>3. DbMarked'
    BY <1>5 DEF DbMarked
  <2>4. DbData'
    BY <1>1, <1>2, <1>5, <2>0, <2>1 DEF DbData
  <2> QED BY <2>2, <2>3, <2>4 DEF DbInv
<1>6. CASE KillcontextFails(c) /\ killing' = <<>> /\ UNCHANGED tidy
  BY <1>6, FailsStep
<1>7. CASE c = Global /\ KillallcontextsReset /\ killing' = <<>>
  BY <1>7, ResetStep
<1> QED BY <1>3, <1>4, <1>5, <1>6, <1>7 DEF KillallcontextsStep

LEMMA NextInv == DbInv /\ ~KillParents /\ [DbNext]_dbvars => DbInv'
<1> SUFFICES ASSUME DbInv, ~KillParents, [DbNext]_dbvars PROVE DbInv'
  OBVIOUS
<1>1. CASE killing = <<>> /\ UserOperation /\ UNCHANGED <<killing, tidy>>
  BY <1>1, UserStep
<1>2. CASE killing = <<>> /\ KillallcontextsBegin
  BY <1>2, BeginStep
<1>3. CASE killing # <<>> /\ KillallcontextsStep
  BY <1>3, KillallStep
<1>4. CASE UNCHANGED dbvars
  <2>1. UNCHANGED <<userContexts, activecontexts, contexts, context, current, subc, cmark, data,
                    nodes, killing, tidy>>
    BY <1>4 DEF dbvars
  <2>2. Known' = Known /\ Live' = Live
    BY <2>1 DEF Known, Live
  <2> QED BY <2>1, <2>2 DEF DbInv, DbOrder, DbMarked, DbData, DbTypeOK, DbSets, DbLists, DbPlaces
<1> QED BY <1>1, <1>2, <1>3, <1>4 DEF DbNext

(* The invariant of every session in which killcontext spares the subcontexts *)
(* of other contexts: the newest contexts come first, and the marks count.    *)
THEOREM DbInvariant == ~KillParents /\ DbSpec => []DbInv
<1> SUFFICES ASSUME ~KillParents PROVE DbSpec => []DbInv
  OBVIOUS
<1>1. DbInit => DbInv
  BY InitInv
<1>2. DbInv /\ [DbNext]_dbvars => DbInv'
  BY NextInv
<1> QED BY <1>1, <1>2, PTL DEF DbSpec

(* The variables keep the types their declarations in compar.lisp and db.lisp *)
(* give them.                                                               *)
THEOREM DbTypesOK == ~KillParents /\ DbSpec => []DbTypeOK
<1>1. DbInv => DbTypeOK
  BY DEF DbInv, DbOrder
<1> QED BY <1>1, DbInvariant, PTL

(* The two lists of activated contexts agree, and an activated context exists *)
(* until killallcontexts has skipped one.                                   *)
THEOREM ListsAgree == ~KillParents /\ DbSpec => []ActiveListsAgree
<1>1. DbInv => ActiveListsAgree
  BY DEF DbInv, DbOrder, DbSets, DbMarked, Marked, ActiveListsAgree
<1> QED BY <1>1, DbInvariant, PTL

(* Selected and marked contexts exist. *)
THEOREM SelectedIsThere == ~KillParents /\ DbSpec => []SelectedExists
<1>1. DbInv => SelectedExists
  BY DEF DbInv, DbOrder, DbPlaces, DbLists, SelectedExists
<1> QED BY <1>1, DbInvariant, PTL

(* Every chain of subcontexts ends in global. *)
THEOREM GlobalIsRoot == ~KillParents /\ DbSpec => []RootIsGlobal
<1>1. DbInv => RootIsGlobal
  BY LiveIsKnown, ChainIs DEF DbInv, DbOrder, Rooted, RootIsGlobal
<1> QED BY <1>1, DbInvariant, PTL

(* The marks count the ways a context is in force. *)
THEOREM MarksCount == ~KillParents /\ DbSpec => []MarksExact
<1>1. DbInv => MarksExact
  <2> SUFFICES ASSUME DbInv, tidy, NEW c \in Ctx
               PROVE  (IF cmark[c] = NoMark THEN 0 ELSE cmark[c])
                        = Cardinality(Over(c, {current})) + Cardinality(Over(c, contexts))
    BY DEF MarksExact
  <2>1. Value(cmark[c]) = One(c \in ChainIn(subc, current)) + Cardinality(OverIn(subc, c, contexts))
    BY DEF DbInv, DbMarked, Marked, Exact
  <2>2. Over(c, contexts) = OverIn(subc, c, contexts)
    BY ChainIs DEF Over, OverIn
  <2>3. Cardinality(Over(c, {current})) = One(c \in ChainIn(subc, current))
    <3>1. CASE c \in ChainIn(subc, current)
      <4>1. Over(c, {current}) = {current}
        BY <3>1, ChainIs DEF Over
      <4> QED BY <3>1, <4>1, FS_Singleton DEF One
    <3>2. CASE c \notin ChainIn(subc, current)
      <4>1. Over(c, {current}) = {}
        BY <3>2, ChainIs DEF Over
      <4> QED BY <3>2, <4>1, FS_EmptySet DEF One
    <3> QED BY <3>1, <3>2
  <2> QED BY <2>1, <2>2, <2>3 DEF Value
<1> QED BY <1>1, DbInvariant, PTL

(* A context has a positive mark if it is below one that is marked. *)
LEMMA PositiveIs ==
  ASSUME NEW f \in Subcs, NEW cm, NEW cur, NEW con, NEW L, Marked(f, cm, cur, con, L), NEW c \in Ctx
  PROVE  Positive(cm[c]) <=> \E r \in {cur} \cup con : c \in ChainIn(f, r)
<1>1. Positive(cm[c]) <=> Value(cm[c]) > 0
  BY DEF Positive, Value
<1>2. ASSUME NEW r \in {cur} \cup con, c \in ChainIn(f, r) PROVE Value(cm[c]) > 0
  BY <1>2, ExactMarked
<1>3. ASSUME \A r \in {cur} \cup con : c \notin ChainIn(f, r) PROVE Value(cm[c]) = 0
  <2>1. OverIn(f, c, con) = {} /\ One(c \in ChainIn(f, cur)) = 0
    BY <1>3 DEF OverIn, One
  <2>2. Cardinality(OverIn(f, c, con)) = 0
    BY <2>1, FS_EmptySet
  <2>3. Value(cm[c]) = One(c \in ChainIn(f, cur)) + Cardinality(OverIn(f, c, con))
    BY DEF Marked, Exact
  <2> QED BY <2>1, <2>2, <2>3
<1> QED BY <1>1, <1>2, <1>3

(***************************************************************************)
(* Facts and nodes.                                                        *)
(***************************************************************************)

(* Every fact is listed by its own context only.  The node of a symbol or a   *)
(* number has what the contexts list; that of any other expression has all    *)
(* that the contexts list but global, and perhaps more.                     *)
DbNodes ==
  /\ \A c \in Ctx : \A f \in data[c] : f.con = c
  /\ \A f \in Fact \ Composite : f \in nodes <=> f \in data[f.con]
  /\ tidy => \A f \in Composite : f.con # Global /\ f \in data[f.con] => f \in nodes

LEMMA NodesUnchanged ==
  ASSUME DbNodes, UNCHANGED <<data, nodes>>, tidy' => tidy
  PROVE  DbNodes'
BY DEF DbNodes

LEMMA NodesEmptied ==
  ASSUME DbTypeOK, DbNodes, NEW c \in Ctx, Emptied(c), tidy' = tidy
  PROVE  DbNodes'
<1>1. /\ data'[c] = {} /\ \A d \in Ctx \ {c} : data'[d] = data[d]
      /\ nodes' = nodes \ (data[c] \ Composite)
  BY DEF Emptied, DbTypeOK
<1>2. \A f \in Fact : f.con \in Ctx /\ (f \in Composite => f \in Fact)
  BY CtxAssumption
<1>3. ASSUME NEW d \in Ctx, NEW f \in data'[d] PROVE f.con = d
  BY <1>1, <1>3 DEF DbNodes
<1>4. ASSUME NEW f \in Fact \ Composite PROVE f \in nodes' <=> f \in data'[f.con]
  BY <1>1, <1>2 DEF DbNodes
<1>5. ASSUME tidy', NEW f \in Composite, f.con # Global, f \in data'[f.con] PROVE f \in nodes'
  BY <1>1, <1>2, <1>5, CtxAssumption DEF DbNodes
<1> QED BY <1>3, <1>4, <1>5 DEF DbNodes

LEMMA NodesAssumed ==
  ASSUME DbTypeOK, DbNodes, NEW f \in Fact, Assume(f) \/ Forget(f), tidy' = tidy
  PROVE  DbNodes'
<1>1. f.con = context /\ context \in Ctx
  BY DEF Assume, Forget, DbTypeOK
<1>2. CASE Assume(f)
  <2>1. /\ data'[context] = data[context] \cup {f} /\ \A d \in Ctx \ {context} : data'[d] = data[d]
        /\ nodes' = nodes \cup {f}
    BY <1>1, <1>2 DEF Assume, DbTypeOK
  <2> QED BY <1>1, <2>1, CtxAssumption DEF DbNodes
<1>3. CASE Forget(f)
  <2>1. /\ data'[context] = data[context] \ {f} /\ \A d \in Ctx \ {context} : data'[d] = data[d]
        /\ nodes' = nodes \ {f}
    BY <1>1, <1>3 DEF Forget, DbTypeOK
  <2>2. ASSUME NEW d \in Ctx, NEW e \in data'[d] PROVE e.con = d
    BY <2>1 DEF DbNodes
  <2>3. ASSUME NEW e \in Fact PROVE e \in data'[e.con] <=> e \in data[e.con] /\ e # f
    <3>1. e.con \in Ctx
      BY CtxAssumption
    <3>2. CASE e.con = context
      BY <2>1, <3>2
    <3>3. CASE e.con # context
      BY <1>1, <2>1, <3>1, <3>3
    <3> QED BY <3>2, <3>3
  <2>4. \A e \in Fact \ Composite : e \in nodes' <=> e \in data'[e.con]
    BY <2>1, <2>3 DEF DbNodes
  <2>5. tidy' => \A e \in Composite : e.con # Global /\ e \in data'[e.con] => e \in nodes'
    BY <2>1, <2>3, CtxAssumption DEF DbNodes
  <2> QED BY <2>2, <2>4, <2>5 DEF DbNodes
<1> QED BY <1>2, <1>3

LEMMA NodesUser ==
  ASSUME DbTypeOK, DbNodes, UserOperation, tidy' = tidy
  PROVE  DbNodes'
<1>1. CASE Deduce \/ \E c \in Ctx : KillcontextRefused(c) \/ KillcontextFails(c)
  BY <1>1, NodesUnchanged DEF KillcontextRefused, KillcontextFails, Deduce
<1>2. CASE \E f \in Fact : Assume(f) \/ Forget(f)
  BY <1>2, NodesAssumed
<1>3. CASE \E c \in Ctx : Select(c) \/ Newcontext(c) \/ Activate(c) \/ Deactivate(c)
  BY <1>3, NodesUnchanged DEF Select, Newcontext, Create, Activate, Deactivate
<1>4. CASE \E c, sub \in Ctx : Supcontext(c, sub)
  BY <1>4, NodesUnchanged DEF Supcontext, Create
<1>5. CASE \E c \in Ctx : Killcontext(c)
  BY <1>5, NodesEmptied DEF Killcontext
<1>6. CASE KillcontextInitial
  BY <1>6, NodesEmptied, CtxAssumption DEF KillcontextInitial
<1> QED BY <1>1, <1>2, <1>3, <1>4, <1>5, <1>6 DEF UserOperation

(* When all contexts have been through killcontext only global has facts; the *)
(* nodes of expressions go, and those of symbols have no others.             *)
LEMMA NodesReset ==
  ASSUME DbInv, DbNodes, killing # <<>>, Head(killing) = Global, KillallcontextsReset, killing' = <<>>
  PROVE  DbNodes' /\ (tidy' => nodes' \subseteq data'[Global])
<1>1. /\ data' = data /\ nodes' = nodes \ Composite
      /\ tidy' => \A c \in Ctx \ {Global} : data'[c] = {}
  BY ResetStep DEF KillallcontextsReset
<1>2. nodes \subseteq Fact
  BY DEF DbInv, DbOrder, DbTypeOK
<1>3. DbNodes'
  BY <1>1, CtxAssumption DEF DbNodes
<1>4. ASSUME tidy', NEW f \in nodes' PROVE f \in data'[Global]
  <2>1. f \in Fact \ Composite /\ f \in nodes
    BY <1>1, <1>2
  <2>2. f \in data'[f.con] /\ f.con \in Ctx
    BY <1>1, <2>1, CtxAssumption DEF DbNodes
  <2> QED BY <1>1, <1>4, <2>2
<1> QED BY <1>3, <1>4

LEMMA NodesNext == DbInv /\ DbNodes /\ [DbNext]_dbvars => DbNodes'
<1> SUFFICES ASSUME DbInv, DbNodes, [DbNext]_dbvars PROVE DbNodes'
  OBVIOUS
<1>1. DbTypeOK
  BY DEF DbInv, DbOrder
<1>2. CASE killing = <<>> /\ UserOperation /\ UNCHANGED <<killing, tidy>>
  BY <1>1, <1>2, NodesUser
<1>3. CASE killing = <<>> /\ KillallcontextsBegin
  BY <1>3, NodesUnchanged DEF KillallcontextsBegin
<1>4. CASE killing # <<>> /\ KillallcontextsStep
  <2> PICK c : c = Head(killing)
    OBVIOUS
  <2>1. CASE Killcontext(c) /\ UNCHANGED tidy
    <3>1. c \in Ctx /\ Emptied(c)
      BY <1>1, <2>1, InRange DEF Killcontext, Known, DbTypeOK
    <3> QED BY <1>1, <2>1, <3>1, NodesEmptied
  <2>2. CASE c = Initial /\ KillcontextInitial /\ UNCHANGED tidy
    BY <1>1, <2>2, NodesEmptied, CtxAssumption DEF KillcontextInitial
  <2>3. CASE KillcontextRefused(c) /\ tidy' = FALSE
    BY <2>3, NodesUnchanged DEF KillcontextRefused, Deduce
  <2>4. CASE KillcontextFails(c) /\ UNCHANGED tidy
    BY <2>4, NodesUnchanged DEF KillcontextFails, Deduce
  <2>5. CASE c = Global /\ KillallcontextsReset /\ killing' = <<>>
    BY <1>4, <2>5, NodesReset
  <2> QED BY <1>4, <2>1, <2>2, <2>3, <2>4, <2>5 DEF KillallcontextsStep
<1>5. CASE UNCHANGED dbvars
  BY <1>5, NodesUnchanged DEF dbvars
<1> QED BY <1>2, <1>3, <1>4, <1>5 DEF DbNext

(* What the nodes have of the facts that the contexts list, after any number  *)
(* of facts and contexts have come and gone.                                *)
THEOREM NodesInvariant == ~KillParents /\ DbSpec => []DbNodes
<1>1. DbInit => DbNodes
  BY CtxAssumption DEF DbInit, DbNodes
<1>2. DbInv /\ DbNodes /\ [DbNext]_dbvars => DbNodes'
  BY NodesNext
<1> QED BY <1>1, <1>2, DbInvariant, PTL DEF DbSpec

(* A deduction sees the facts of the contexts in force; about a symbol or a    *)
(* number it sees no others, about any other expression it may see some that   *)
(* a context in force had before it was killed.                             *)
THEOREM FactsSeen == ~KillParents /\ DbSpec => []FactsInForce
<1>1. DbInv /\ DbNodes => FactsInForce
  <2> SUFFICES ASSUME DbInv, DbNodes, tidy, current = context, NEW f \in Fact
               PROVE  /\ Seen(f) => f.con \in InForce /\ (f \notin Composite => f \in data[f.con])
                      /\ f \in data[f.con] /\ f.con \in InForce /\ (f \in Composite => f.con # Global)
                           => Seen(f)
    BY DEF FactsInForce
  <2>1. Marked(subc, cmark, current, contexts, Known) /\ subc \in Subcs /\ activecontexts = contexts
    BY TypeNames DEF DbInv, DbMarked, DbOrder, DbSets
  <2>2. f.con \in Ctx
    BY CtxAssumption
  <2>3. f.con \in InForce <=> \E r \in {current} \cup contexts : f.con \in ChainIn(subc, r)
    BY <2>1, ChainIs DEF InForce
  <2>4. Positive(cmark[f.con]) <=> f.con \in InForce
    BY <2>1, <2>2, <2>3, PositiveIs
  <2>5. /\ f \notin Composite => (f \in nodes <=> f \in data[f.con])
        /\ f \in Composite /\ f.con # Global /\ f \in data[f.con] => f \in nodes
    BY DEF DbNodes
  <2> QED BY <2>4, <2>5 DEF Seen
<1> QED BY <1>1, DbInvariant, NodesInvariant, PTL

(* A complete killallcontexts leaves no facts but those of global, neither     *)
(* listed nor on a node, and no marks on contexts that do not exist.         *)
THEOREM KillAllDone == ~KillParents /\ DbSpec => KillAllForgets
<1>1. DbInv /\ DbNodes /\ [DbNext]_dbvars
        => [killing # <<>> /\ Head(killing) = Global /\ tidy'
              => /\ \A c \in Ctx \ {Global} : data'[c] = {} /\ (c \notin Known' => cmark'[c] = NoMark)
                 /\ nodes' \subseteq data'[Global]]_dbvars
  <2> SUFFICES ASSUME DbInv, DbNodes, DbNext, killing # <<>>, Head(killing) = Global, tidy'
               PROVE  /\ \A c \in Ctx \ {Global} : data'[c] = {} /\ (c \notin Known' => cmark'[c] = NoMark)
                      /\ nodes' \subseteq data'[Global]
    OBVIOUS
  <2>1. KillallcontextsReset /\ killing' = <<>>
    BY CtxAssumption DEF DbNext, KillallcontextsStep, Killcontext, KillcontextRefused, KillcontextFails
  <2> QED BY <2>1, ResetStep, NodesReset
<1> QED BY <1>1, DbInvariant, NodesInvariant, PTL DEF DbSpec, KillAllForgets
===============================================================================
