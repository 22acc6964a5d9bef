------------------------ MODULE ShallowBinding_proof ------------------------
(***************************************************************************)
(* Proofs about ShallowBinding: type correctness, the exactness of $values, *)
(* and that shallow binding implements dynamic scoping for every set of    *)
(* variables and values.                                                   *)
(***************************************************************************)
EXTENDS ShallowBinding, SequenceTheorems, WellFoundedInduction, TLAPS

(* Popping a non-empty sequence keeps the elements before the last.         *)
LEMMA PopProperties ==
  ASSUME NEW S, NEW s \in Seq(S), s # <<>>
  PROVE  /\ Front(s) \in Seq(S)
         /\ Len(Front(s)) = Len(s) - 1
         /\ \A i \in 1..(Len(s) - 1) : Front(s)[i] = s[i]
         /\ Last(s) \in S
<1>1. PICK t \in Seq(S), e \in S : s = Append(t, e)
  BY SequenceEmptyOrAppend
<1>2. /\ Len(t) \in Nat /\ Len(s) = Len(t) + 1 /\ s[Len(s)] = e
      /\ \A i \in 1..Len(t) : s[i] = t[i]
  BY <1>1, AppendProperties, LenProperties
<1>3. \A i \in 1..Len(t) : s[i] \in S
  BY <1>2, ElementOfSeq
<1>4. /\ SubSeq(s, 1, Len(t)) \in Seq(S)
      /\ Len(SubSeq(s, 1, Len(t))) = IF 1 <= Len(t) THEN Len(t) - 1 + 1 ELSE 0
      /\ \A i \in 1..(Len(t) - 1 + 1) : SubSeq(s, 1, Len(t))[i] = s[1 + i - 1]
  BY <1>2, <1>3, SubSeqProperties
<1>5. Front(s) = SubSeq(s, 1, Len(t))
  BY <1>2 DEF Front
<1>6. Len(Front(s)) = Len(t)
  BY <1>2, <1>4, <1>5
<1>7. \A i \in 1..Len(t) : Front(s)[i] = s[i]
  BY <1>2, <1>4, <1>5
<1>8. Len(s) - 1 = Len(t)
  BY <1>2
<1>9. QED
  BY <1>2, <1>4, <1>5, <1>6, <1>7, <1>8 DEF Last

(* The initial state is well typed. *)
LEMMA BindInitTypeOK == BindInit => BindTypeOK /\ ValuesListExact
BY EmptySeq DEF BindInit, BindTypeOK, ValuesListExact, Saved

(* Every operation keeps the state well typed and $values exact. *)
LEMMA BindNextTypeOK ==
  ASSUME BindTypeOK, ValuesListExact, [BindNext]_bvars
  PROVE  BindTypeOK' /\ ValuesListExact'
<1> USE DEF BindTypeOK, ValuesListExact, Saved
<1>1. ASSUME NEW v \in Var, Remvalue(v)
      PROVE  BindTypeOK' /\ ValuesListExact'
  BY <1>1 DEF Remvalue, ClearCell
<1>2. ASSUME NEW v \in Var, NEW x \in Val, Mset(v, x)
      PROVE  BindTypeOK' /\ ValuesListExact'
  BY <1>2, UnboundAssumption DEF Mset, SetCell
<1>3. ASSUME NEW v \in Var, NEW x \in Val, MbindOne(v, x)
      PROVE  BindTypeOK' /\ ValuesListExact'
  <2>1. bindlist' \in Seq(Var) /\ mspeclist' \in Seq(Saved) /\ Len(mspeclist') = Len(bindlist')
    BY <1>3, AppendProperties DEF MbindOne
  <2>2. QED
    BY <1>3, <2>1, UnboundAssumption DEF MbindOne, SetCell
<1>4. ASSUME MunbindLast
      PROVE  BindTypeOK' /\ ValuesListExact'
  <2>1. bindlist # <<>> /\ mspeclist # <<>>
    BY <1>4, EmptySeq DEF MunbindLast, Munbind
  <2>2. /\ bindlist' \in Seq(Var) /\ mspeclist' \in Seq(Saved)
        /\ Len(mspeclist') = Len(bindlist')
        /\ Last(bindlist) \in Var /\ Last(mspeclist) \in Saved
    BY <1>4, <2>1, PopProperties DEF MunbindLast, Munbind
  <2>3. QED
    BY <1>4, <2>2, UnboundAssumption DEF MunbindLast, Munbind, SetCell, ClearCell
<1>5. CASE UNCHANGED bvars
  BY <1>5 DEF bvars
<1>6. QED
  BY <1>1, <1>2, <1>3, <1>4, <1>5 DEF BindNext

(* The binding lists and $values have their types and $values is exact in   *)
(* every reachable state.                                                  *)
THEOREM BindInvariant == BindSpec => [](BindTypeOK /\ ValuesListExact)
<1>1. BindTypeOK /\ ValuesListExact /\ [BindNext]_bvars => (BindTypeOK /\ ValuesListExact)'
  BY BindNextTypeOK
<1>2. QED
  BY BindInitTypeOK, <1>1, PTL DEF BindSpec

-----------------------------------------------------------------------------
(***************************************************************************)
(* Shallow binding implements dynamic scoping.                             *)
(***************************************************************************)

(* A non-empty set of naturals has a least element. *)
LEMMA LeastNatural ==
  ASSUME NEW T, T \subseteq Nat, T # {}
  PROVE  \E m \in T : \A k \in T : m <= k
<1>1. PICK m \in T : \A k \in T : ~ (<<k, m>> \in OpToRel(<, Nat))
  BY WFMin, NatLessThanWellFounded
<1>2. \A k \in T : ~ (k < m)
  BY <1>1 DEF OpToRel
<1>3. QED
  BY <1>2

(* A non-empty set of naturals with an upper bound has a greatest element. *)
LEMMA GreatestNatural ==
  ASSUME NEW n \in Nat, NEW T, T \subseteq 1..n, T # {}
  PROVE  \E m \in T : \A k \in T : k <= m
<1> DEFINE D == {d \in Nat : n - d \in T}
<1>1. PICK t \in T : TRUE
  OBVIOUS
<1>2. n - t \in D
  BY <1>1
<1>3. PICK d \in D : \A e \in D : d <= e
  <2> HIDE DEF D
  <2>1. D \subseteq Nat
    BY DEF D
  <2>2. QED
    BY <2>1, <1>2, LeastNatural
<1>4. \A k \in T : n - k \in D
  OBVIOUS
<1>5. n - d \in T /\ \A k \in T : k <= n - d
  BY <1>3, <1>4
<1>6. QED
  BY <1>5

(* If v is bound after the first i bindings, one of those is the first. *)
LEMMA NextBindingExists ==
  ASSUME NEW bl \in Seq(Var), NEW v, NEW i \in Nat,
         \E j \in (i + 1)..Len(bl) : bl[j] = v
  PROVE  \E j \in (i + 1)..Len(bl) : NextBinding(bl, v, i, j)
<1> DEFINE T == {j \in (i + 1)..Len(bl) : bl[j] = v}
<1>1. T \subseteq Nat /\ T # {}
  BY LenProperties
<1>2. PICK m \in T : \A k \in T : m <= k
  <2> HIDE DEF T
  <2> QED BY <1>1, LeastNatural
<1>3. m \in (i + 1)..Len(bl) /\ bl[m] = v
  OBVIOUS
<1>4. \A k \in (i + 1)..(m - 1) : bl[k] # v
  BY <1>2, <1>3, LenProperties
<1>5. QED
  BY <1>3, <1>4 DEF NextBinding

(* The value of a scope, when a later scope rebinds the name. *)
LEMMA ScopeValueSaved ==
  ASSUME NEW bl \in Seq(Var), NEW ms, NEW val, NEW v, NEW i \in Nat,
         NEW j \in (i + 1)..Len(bl), NextBinding(bl, v, i, j)
  PROVE  ScopeValue(val, bl, ms, v, i) = ms[j]
<1>1. \A k \in (i + 1)..Len(bl) : NextBinding(bl, v, i, k) => k = j
  <2> SUFFICES ASSUME NEW k \in (i + 1)..Len(bl), NextBinding(bl, v, i, k), k # j
               PROVE  FALSE
    OBVIOUS
  <2>1. k < j \/ j < k
    BY LenProperties
  <2>2. QED
    BY <2>1, LenProperties DEF NextBinding
<1>2. (CHOOSE k \in (i + 1)..Len(bl) : NextBinding(bl, v, i, k)) = j
  BY <1>1
<1>3. QED
  BY <1>2 DEF ScopeValue, NextBinding

(* The value of a scope, when no later scope rebinds the name. *)
LEMMA ScopeValueCurrent ==
  ASSUME NEW bl, NEW ms, NEW val, NEW v, NEW i,
         \A j \in (i + 1)..Len(bl) : bl[j] # v
  PROVE  ScopeValue(val, bl, ms, v, i) = val[v]
BY DEF ScopeValue

(* The second state has one more binding than the first: of the last       *)
(* variable of bl2, saving its old value, every other value kept.  mbind    *)
(* goes from the first state to the second, munbind from the second to the  *)
(* first.                                                                  *)
OneMore(bl, ms, val, bl2, ms2, val2) ==
  LET n == Len(bl)
      v == bl2[n + 1]
  IN  /\ Len(bl2) = n + 1
      /\ \A i \in 1..n : bl2[i] = bl[i] /\ ms2[i] = ms[i]
      /\ ms2[n + 1] = val[v]
      /\ \A w \in Var : w # v => val2[w] = val[w]

(* The two states agree on the values of all the scopes they share. *)
LEMMA BindingKeepsScopes ==
  ASSUME NEW bl \in Seq(Var), NEW ms, NEW val,
         NEW bl2 \in Seq(Var), NEW ms2, NEW val2,
         OneMore(bl, ms, val, bl2, ms2, val2),
         NEW w \in Var, NEW i \in 0..Len(bl)
  PROVE  ScopeValue(val2, bl2, ms2, w, i) = ScopeValue(val, bl, ms, w, i)
<1> DEFINE n == Len(bl)
           v == bl2[n + 1]
<1>1. /\ n \in Nat /\ Len(bl) = n /\ Len(bl2) = n + 1
      /\ \A k \in 1..n : bl2[k] = bl[k] /\ ms2[k] = ms[k]
      /\ bl2[n + 1] = v /\ ms2[n + 1] = val[v]
      /\ \A u \in Var : u # v => val2[u] = val[u]
      /\ i \in 0..n
  BY LenProperties DEF OneMore
<1> HIDE DEF n, v
<1>2. CASE \E j \in (i + 1)..n : bl[j] = w
  <2>1. PICK j \in (i + 1)..n : NextBinding(bl, w, i, j)
    <3>1. i \in Nat /\ \E j \in (i + 1)..Len(bl) : bl[j] = w
      BY <1>1, <1>2
    <3>2. \E j \in (i + 1)..Len(bl) : NextBinding(bl, w, i, j)
      BY <3>1, NextBindingExists
    <3>3. QED
      BY <1>1, <3>2
  <2>2. j \in (i + 1)..Len(bl2) /\ NextBinding(bl2, w, i, j)
    BY <1>1, <2>1 DEF NextBinding
  <2>3. ScopeValue(val2, bl2, ms2, w, i) = ms2[j]
    BY <1>1, <2>2, ScopeValueSaved
  <2>4. ScopeValue(val, bl, ms, w, i) = ms[j]
    BY <1>1, <2>1, ScopeValueSaved
  <2>5. QED
    BY <1>1, <2>1, <2>3, <2>4
<1>3. CASE (\A j \in (i + 1)..n : bl[j] # w) /\ w = v
  <2>1. n + 1 \in (i + 1)..Len(bl2) /\ NextBinding(bl2, w, i, n + 1)
    BY <1>1, <1>3 DEF NextBinding
  <2>2. ScopeValue(val2, bl2, ms2, w, i) = ms2[n + 1]
    BY <1>1, <2>1, ScopeValueSaved
  <2>3. ScopeValue(val, bl, ms, w, i) = val[w]
    BY <1>1, <1>3, ScopeValueCurrent
  <2>4. QED
    BY <1>1, <1>3, <2>2, <2>3
<1>4. CASE (\A j \in (i + 1)..n : bl[j] # w) /\ w # v
  <2>1. \A j \in (i + 1)..Len(bl2) : bl2[j] # w
    BY <1>1, <1>4
  <2>2. ScopeValue(val2, bl2, ms2, w, i) = val2[w]
    BY <2>1, ScopeValueCurrent
  <2>3. ScopeValue(val, bl, ms, w, i) = val[w]
    BY <1>1, <1>4, ScopeValueCurrent
  <2>4. QED
    BY <1>1, <1>4, <2>2, <2>3
<1>5. QED
  BY <1>2, <1>3, <1>4

(* Popping undoes a push. *)
LEMMA PopAppend ==
  ASSUME NEW S, NEW t \in Seq(S), NEW e \in S
  PROVE  Front(Append(t, e)) = t
<1> DEFINE s == Append(t, e)
<1>1. /\ Len(t) \in Nat /\ Len(s) = Len(t) + 1 /\ s # <<>> /\ s \in Seq(S)
      /\ \A i \in 1..Len(t) : s[i] = t[i]
  BY AppendProperties, LenProperties
<1> HIDE DEF s
<1>2. /\ Front(s) \in Seq(S) /\ Len(Front(s)) = Len(s) - 1
      /\ \A i \in 1..(Len(s) - 1) : Front(s)[i] = s[i]
  BY <1>1, PopProperties
<1>3. Len(s) - 1 = Len(t)
  BY <1>1
<1>4. Front(s) = t
  BY <1>1, <1>2, <1>3, SeqEqual
<1>5. QED
  BY <1>4 DEF s

(* The value cells val2 differ from val at v only. *)
DiffersAt(v, val, val2) == \A u \in Var : u # v => val2[u] = val[u]

(* Setting a value cell changes the innermost scope of the name only. *)
LEMMA SetChangesInnermost ==
  ASSUME NEW bl \in Seq(Var), NEW ms, NEW val, NEW val2, NEW v \in Var,
         DiffersAt(v, val, val2), NEW w \in Var, NEW i \in Nat
  PROVE  ScopeValue(val2, bl, ms, w, i) =
           IF w = v /\ \A j \in (i + 1)..Len(bl) : bl[j] # v
           THEN val2[v] ELSE ScopeValue(val, bl, ms, w, i)
<1>1. CASE \E j \in (i + 1)..Len(bl) : bl[j] = w
  <2>1. PICK j \in (i + 1)..Len(bl) : NextBinding(bl, w, i, j)
    BY <1>1, NextBindingExists
  <2>2. ScopeValue(val2, bl, ms, w, i) = ms[j] /\ ScopeValue(val, bl, ms, w, i) = ms[j]
    BY <2>1, ScopeValueSaved
  <2>3. QED
    BY <1>1, <2>2
<1>2. CASE \A j \in (i + 1)..Len(bl) : bl[j] # w
  <2>1. ScopeValue(val2, bl, ms, w, i) = val2[w] /\ ScopeValue(val, bl, ms, w, i) = val[w]
    BY <1>2, ScopeValueCurrent
  <2>2. QED
    BY <1>2, <2>1 DEF DiffersAt
<1>3. QED
  BY <1>1, <1>2

(* Every scope of a well-typed state holds a value or nothing. *)
LEMMA ScopeValueType ==
  ASSUME NEW bl \in Seq(Var), NEW ms \in Seq(Saved), Len(ms) = Len(bl),
         NEW val \in [Var -> Saved], NEW w \in Var, NEW i \in Nat
  PROVE  ScopeValue(val, bl, ms, w, i) \in Saved
<1>1. CASE \E j \in (i + 1)..Len(bl) : bl[j] = w
  <2>1. PICK j \in (i + 1)..Len(bl) : NextBinding(bl, w, i, j)
    BY <1>1, NextBindingExists
  <2>2. ScopeValue(val, bl, ms, w, i) = ms[j] /\ j \in 1..Len(ms)
    BY <2>1, ScopeValueSaved, LenProperties
  <2>3. QED
    BY <2>2, ElementOfSeq
<1>2. CASE \A j \in (i + 1)..Len(bl) : bl[j] # w
  BY <1>2, ScopeValueCurrent
<1>3. QED
  BY <1>1, <1>2

-----------------------------------------------------------------------------
(* The environment of DynamicScope that a state of ShallowBinding stands    *)
(* for: the global values and the stack of live cells.                     *)
GlobalsOf(val, bl, ms) == [v \in Var |-> ScopeValue(val, bl, ms, v, 0)]
StackOf(val, bl, ms) == [i \in 1..Len(bl) |->
                           [name |-> bl[i], content |-> ScopeValue(val, bl, ms, bl[i], i)]]

CellFor(v, x) == [name |-> v, content |-> x]

(* The cells form a sequence as long as the binding lists. *)
LEMMA CellsType ==
  ASSUME NEW bl \in Seq(Var), NEW ms \in Seq(Saved), Len(ms) = Len(bl),
         NEW val \in [Var -> Saved]
  PROVE  /\ GlobalsOf(val, bl, ms) \in [Var -> Saved]
         /\ StackOf(val, bl, ms) \in Seq([name : Var, content : Saved])
         /\ Len(StackOf(val, bl, ms)) = Len(bl)
         /\ \A i \in 1..Len(bl) :
               StackOf(val, bl, ms)[i] = [name |-> bl[i], content |-> ScopeValue(val, bl, ms, bl[i], i)]
<1> DEFINE C == StackOf(val, bl, ms)
           CellSet == [name : Var, content : Saved]
<1>1. GlobalsOf(val, bl, ms) \in [Var -> Saved]
  BY ScopeValueType DEF GlobalsOf
<1>2. \A i \in 1..Len(bl) : bl[i] \in Var /\ ScopeValue(val, bl, ms, bl[i], i) \in Saved
  BY ElementOfSeq, LenProperties, ScopeValueType
<1>3. C \in [1..Len(bl) -> CellSet]
  BY <1>2 DEF StackOf
<1>4. C \in Seq(CellSet) /\ Len(C) = Len(bl)
  <2> HIDE DEF CellSet, C
  <2>1. Len(bl) \in Nat /\ C \in [1..Len(bl) -> CellSet]
    BY <1>3, LenProperties
  <2>2. C \in UNION {[1..n -> CellSet] : n \in Nat}
    BY <2>1
  <2>3. C \in Seq(CellSet)
    BY <2>2, SeqDef
  <2>4. DOMAIN C = 1..Len(bl) /\ DOMAIN C = 1..Len(C) /\ Len(C) \in Nat
    BY <2>1, <2>3, LenProperties
  <2>5. QED
    BY <2>1, <2>3, <2>4
<1>5. QED
  BY <1>1, <1>4 DEF StackOf

(* With one more binding there is one more cell, on top of the same ones. *)
LEMMA OneMoreCell ==
  ASSUME NEW bl \in Seq(Var), NEW ms \in Seq(Saved), NEW val \in [Var -> Saved],
         NEW bl2 \in Seq(Var), NEW ms2 \in Seq(Saved), NEW val2 \in [Var -> Saved],
         Len(ms) = Len(bl), Len(ms2) = Len(bl2),
         OneMore(bl, ms, val, bl2, ms2, val2)
  PROVE  /\ bl2[Len(bl2)] \in Var
         /\ GlobalsOf(val2, bl2, ms2) = GlobalsOf(val, bl, ms)
         /\ StackOf(val2, bl2, ms2) =
               Append(StackOf(val, bl, ms), CellFor(bl2[Len(bl2)], val2[bl2[Len(bl2)]]))
<1> DEFINE n == Len(bl)
           v == bl2[Len(bl2)]
           C == StackOf(val, bl, ms)
           C2 == StackOf(val2, bl2, ms2)
           c == [name |-> v, content |-> val2[v]]
           CellSet == [name : Var, content : Saved]
<1>1. /\ n \in Nat /\ Len(bl2) = n + 1
      /\ \A i \in 1..n : bl2[i] = bl[i]
  BY LenProperties DEF OneMore
<1>2. v \in Var
  BY <1>1, ElementOfSeq
<1>3. \A w \in Var : \A i \in 0..n :
         ScopeValue(val2, bl2, ms2, w, i) = ScopeValue(val, bl, ms, w, i)
  BY BindingKeepsScopes
<1>4. ScopeValue(val2, bl2, ms2, v, n + 1) = val2[v]
  <2>1. \A j \in ((n + 1) + 1)..Len(bl2) : bl2[j] # v
    BY <1>1
  <2>2. QED
    BY <2>1, ScopeValueCurrent
<1>5. GlobalsOf(val2, bl2, ms2) = GlobalsOf(val, bl, ms)
  BY <1>1, <1>3 DEF GlobalsOf
<1>6. /\ C \in Seq(CellSet) /\ Len(C) = n
      /\ \A i \in 1..n : C[i] = [name |-> bl[i], content |-> ScopeValue(val, bl, ms, bl[i], i)]
  BY CellsType
<1>7. /\ C2 \in Seq(CellSet) /\ Len(C2) = n + 1
      /\ \A i \in 1..(n + 1) :
            C2[i] = [name |-> bl2[i], content |-> ScopeValue(val2, bl2, ms2, bl2[i], i)]
  <2>1. /\ C2 \in Seq(CellSet) /\ Len(C2) = Len(bl2)
        /\ \A i \in 1..Len(bl2) :
              C2[i] = [name |-> bl2[i], content |-> ScopeValue(val2, bl2, ms2, bl2[i], i)]
    BY CellsType
  <2> HIDE DEF C2, CellSet
  <2>2. QED
    BY <1>1, <2>1
<1>8. \A i \in 1..n : bl[i] \in Var
  BY ElementOfSeq
<1>9. \A i \in 1..n : C2[i] = C[i]
  <2> HIDE DEF C, C2, n
  <2>1. SUFFICES ASSUME NEW i \in 1..n PROVE C2[i] = C[i]
    OBVIOUS
  <2>2. i \in 0..n /\ i \in 1..(n + 1)
    BY <1>1
  <2>3. QED
    BY <1>1, <1>3, <1>6, <1>7, <1>8, <2>2
<1>10. C2[n + 1] = c
  <2> HIDE DEF C2
  <2>1. v = bl2[n + 1]
    BY <1>1
  <2>2. QED
    BY <1>1, <1>4, <1>7, <2>1
<1>11. c \in CellSet
  BY <1>2
<1> HIDE DEF C, C2, n, c, CellSet
<1>12. /\ Append(C, c) \in Seq(CellSet) /\ Len(Append(C, c)) = n + 1
       /\ \A i \in 1..n : Append(C, c)[i] = C[i]
       /\ Append(C, c)[n + 1] = c
  BY <1>6, <1>11, AppendProperties
<1>13. \A i \in 1..(n + 1) : C2[i] = Append(C, c)[i]
  BY <1>1, <1>9, <1>10, <1>12
<1>14. C2 = Append(C, c)
  BY <1>7, <1>12, <1>13, SeqEqual
<1>15. QED
  BY <1>2, <1>5, <1>14 DEF C, C2, c, CellFor

(* The refinement mapping in terms of GlobalsOf and StackOf, before and     *)
(* after a step.                                                           *)
LEMMA DeepState ==
  /\ [v \in Var |-> ValueAt(v, 0)] = GlobalsOf(value, bindlist, mspeclist)
  /\ [i \in 1..Len(bindlist) |-> [name |-> bindlist[i], content |-> ValueAt(bindlist[i], i)]]
       = StackOf(value, bindlist, mspeclist)
  /\ [v \in Var |-> ValueAt(v, 0)]' = GlobalsOf(value', bindlist', mspeclist')
  /\ [i \in 1..Len(bindlist) |-> [name |-> bindlist[i], content |-> ValueAt(bindlist[i], i)]]'
       = StackOf(value', bindlist', mspeclist')
BY DEF GlobalsOf, StackOf, ValueAt, ScopeValue, NextBinding

(* A step that saves the value of one more name and gives it another one    *)
(* enters a scope.                                                         *)
LEMMA SavingEnters ==
  ASSUME BindTypeOK, BindTypeOK', NEW v \in Var, NEW x \in Saved,
         value' = [value EXCEPT ![v] = x],
         bindlist' = Append(bindlist, v), mspeclist' = Append(mspeclist, value[v])
  PROVE  Deep!Enter(v, x)
<1>1. OneMore(bindlist, mspeclist, value, bindlist', mspeclist', value')
  BY AppendProperties, LenProperties DEF OneMore, BindTypeOK
<1>2. bindlist'[Len(bindlist')] = v /\ value'[v] = x
  BY AppendProperties, LenProperties DEF BindTypeOK
<1>3. /\ GlobalsOf(value', bindlist', mspeclist') = GlobalsOf(value, bindlist, mspeclist)
      /\ StackOf(value', bindlist', mspeclist') =
            Append(StackOf(value, bindlist, mspeclist), [name |-> v, content |-> x])
  <2>1. /\ bindlist \in Seq(Var) /\ bindlist' \in Seq(Var)
        /\ mspeclist \in Seq(Saved) /\ mspeclist' \in Seq(Saved)
        /\ value \in [Var -> Saved] /\ value' \in [Var -> Saved]
        /\ Len(mspeclist) = Len(bindlist) /\ Len(mspeclist') = Len(bindlist')
    BY DEF BindTypeOK
  <2>2. /\ GlobalsOf(value', bindlist', mspeclist') = GlobalsOf(value, bindlist, mspeclist)
        /\ StackOf(value', bindlist', mspeclist') =
              Append(StackOf(value, bindlist, mspeclist),
                     CellFor(bindlist'[Len(bindlist')], value'[bindlist'[Len(bindlist')]]))
    BY ONLY <1>1, <2>1, OneMoreCell
  <2>3. QED
    BY <1>2, <2>2 DEF CellFor
<1>4. QED
  BY <1>3, DeepState DEF Deep!Enter

(* A step that gives the name saved last its old value back leaves a scope. *)
LEMMA RestoringLeaves ==
  ASSUME BindTypeOK, BindTypeOK', bindlist # <<>>,
         bindlist' = Front(bindlist), mspeclist' = Front(mspeclist),
         value' = [value EXCEPT ![Last(bindlist)] = Last(mspeclist)]
  PROVE  Deep!Leave
<1> DEFINE C == StackOf(value, bindlist, mspeclist)
           C2 == StackOf(value', bindlist', mspeclist')
           CellSet == [name : Var, content : Saved]
<1>1. bindlist # <<>> /\ mspeclist # <<>>
  BY EmptySeq DEF BindTypeOK
<1>2. /\ Len(bindlist') = Len(bindlist) - 1 /\ Len(bindlist) \in Nat
      /\ Len(bindlist) = Len(mspeclist)
      /\ \A i \in 1..(Len(bindlist) - 1) :
            bindlist'[i] = bindlist[i] /\ mspeclist'[i] = mspeclist[i]
  BY <1>1, PopProperties, LenProperties DEF BindTypeOK
<1>3. Last(bindlist) = bindlist[Len(bindlist)] /\ Last(mspeclist) = mspeclist[Len(bindlist)]
      /\ Last(bindlist) \in Var
  BY <1>1, <1>2, PopProperties DEF Last, BindTypeOK
<1>4. /\ value'[Last(bindlist)] = Last(mspeclist)
      /\ \A w \in Var : w # Last(bindlist) => value'[w] = value[w]
  BY <1>3 DEF BindTypeOK
<1>5. OneMore(bindlist', mspeclist', value', bindlist, mspeclist, value)
  BY <1>2, <1>3, <1>4 DEF OneMore
<1> DEFINE c == [name |-> Last(bindlist), content |-> value[Last(bindlist)]]
<1>6. /\ GlobalsOf(value, bindlist, mspeclist) = GlobalsOf(value', bindlist', mspeclist')
      /\ C = Append(C2, c)
  <2>1. /\ bindlist \in Seq(Var) /\ bindlist' \in Seq(Var)
        /\ mspeclist \in Seq(Saved) /\ mspeclist' \in Seq(Saved)
        /\ value \in [Var -> Saved] /\ value' \in [Var -> Saved]
        /\ Len(mspeclist) = Len(bindlist) /\ Len(mspeclist') = Len(bindlist')
    BY DEF BindTypeOK
  <2>2. /\ GlobalsOf(value, bindlist, mspeclist) = GlobalsOf(value', bindlist', mspeclist')
        /\ C = Append(C2, CellFor(bindlist[Len(bindlist)], value[bindlist[Len(bindlist)]]))
    BY ONLY <1>5, <2>1, OneMoreCell
  <2>3. QED
    BY <1>3, <2>2 DEF CellFor
<1>7. c \in CellSet
  BY <1>3 DEF BindTypeOK
<1>8. C2 \in Seq(CellSet)
  BY CellsType DEF BindTypeOK
<1> HIDE DEF C, C2, CellSet, c
<1>9. C # <<>> /\ C2 = SubSeq(C, 1, Len(C) - 1)
  BY <1>6, <1>7, <1>8, PopAppend, AppendProperties DEF Front
<1>10. QED
  BY <1>6, <1>9, DeepState DEF Deep!Leave, C, C2

(* The steps of mbind-doit and munbind are such steps. *)
LEMMA MbindEnters ==
  ASSUME BindTypeOK, BindTypeOK', NEW v \in Var, NEW x \in Val, MbindOne(v, x)
  PROVE  Deep!Enter(v, x)
BY SavingEnters DEF MbindOne, SetCell, Saved

LEMMA MunbindLeaves ==
  ASSUME BindTypeOK, BindTypeOK', MunbindLast
  PROVE  Deep!Leave
<1>1. value' = [value EXCEPT ![Last(bindlist)] = Last(mspeclist)]
  BY DEF MunbindLast, Munbind, SetCell, ClearCell
<1>2. QED
  BY <1>1, RestoringLeaves DEF MunbindLast, Munbind

(* A step that sets one value cell and leaves the lists alone assigns to    *)
(* the innermost scope of the name.                                        *)
LEMMA SetAssigns ==
  ASSUME BindTypeOK, BindTypeOK', UNCHANGED <<bindlist, mspeclist>>,
         NEW v \in Var, \A u \in Var : u # v => value'[u] = value[u]
  PROVE  \E x \in Saved : Deep!Assign(v, x)
<1> DEFINE n == Len(bindlist)
           G == GlobalsOf(value, bindlist, mspeclist)
           G2 == GlobalsOf(value', bindlist', mspeclist')
           C == StackOf(value, bindlist, mspeclist)
           C2 == StackOf(value', bindlist', mspeclist')
           CellSet == [name : Var, content : Saved]
<1>1. /\ bindlist' = bindlist /\ mspeclist' = mspeclist /\ bindlist \in Seq(Var) /\ n \in Nat
      /\ \A i \in 1..n : bindlist[i] \in Var
  BY LenProperties, ElementOfSeq DEF BindTypeOK
<1>2. \A w \in Var : \A i \in Nat :
        ScopeValue(value', bindlist', mspeclist', w, i) =
          IF w = v /\ \A j \in (i + 1)..n : bindlist[j] # v
          THEN value'[v] ELSE ScopeValue(value, bindlist, mspeclist, w, i)
  <2>1. SUFFICES ASSUME NEW w \in Var, NEW i \in Nat
        PROVE  ScopeValue(value', bindlist, mspeclist, w, i) =
                 IF w = v /\ \A j \in (i + 1)..Len(bindlist) : bindlist[j] # v
                 THEN value'[v] ELSE ScopeValue(value, bindlist, mspeclist, w, i)
    BY <1>1
  <2>2. DiffersAt(v, value, value')
    BY DEF DiffersAt
  <2>3. bindlist \in Seq(Var) /\ v \in Var /\ w \in Var /\ i \in Nat
    BY <1>1
  <2>4. QED
    BY ONLY <2>2, <2>3, SetChangesInnermost
<1>3. /\ G \in [Var -> Saved] /\ C \in Seq(CellSet) /\ Len(C) = n
      /\ \A i \in 1..n : C[i] = CellFor(bindlist[i], ScopeValue(value, bindlist, mspeclist, bindlist[i], i))
      /\ \A w \in Var : G[w] = ScopeValue(value, bindlist, mspeclist, w, 0)
  BY CellsType DEF BindTypeOK, CellFor, GlobalsOf
<1>4. /\ G2 \in [Var -> Saved] /\ C2 \in Seq(CellSet) /\ Len(C2) = n
      /\ \A i \in 1..n : C2[i] = CellFor(bindlist[i], ScopeValue(value', bindlist', mspeclist', bindlist[i], i))
      /\ \A w \in Var : G2[w] = ScopeValue(value', bindlist', mspeclist', w, 0)
  <2>1. /\ bindlist' \in Seq(Var) /\ mspeclist' \in Seq(Saved) /\ value' \in [Var -> Saved]
        /\ Len(mspeclist') = Len(bindlist')
    BY DEF BindTypeOK
  <2>2. /\ G2 \in [Var -> Saved] /\ C2 \in Seq(CellSet) /\ Len(C2) = Len(bindlist')
        /\ \A i \in 1..Len(bindlist') :
             C2[i] = CellFor(bindlist'[i], ScopeValue(value', bindlist', mspeclist', bindlist'[i], i))
    BY <2>1, CellsType DEF CellFor
  <2>3. \A w \in Var : G2[w] = ScopeValue(value', bindlist', mspeclist', w, 0)
    BY DEF GlobalsOf
  <2> HIDE DEF G2, C2, CellSet
  <2>4. QED
    BY <1>1, <2>2, <2>3
<1> HIDE DEF n, G, G2, C, C2, CellSet
<1>5. \A i \in 1..n : C[i].name = bindlist[i]
  BY <1>3 DEF CellFor
<1>0. PICK x \in Saved : x = value'[v]
  BY DEF BindTypeOK
<1>6. CASE \A j \in 1..n : bindlist[j] # v
  <2>1. \A i \in 1..n : C2[i] = C[i]
    BY <1>1, <1>2, <1>3, <1>4, <1>6
  <2>2. C2 = C
    BY <1>3, <1>4, <2>1, SeqEqual
  <2>3. \A w \in Var : G2[w] = IF w = v THEN value'[v] ELSE G[w]
    BY <1>1, <1>2, <1>3, <1>4, <1>6
  <2>4. G2 = [G EXCEPT ![v] = x]
    BY <1>0, <1>3, <1>4, <2>3
  <2>5. {i \in 1..Len(C) : C[i].name = v} = {}
    BY <1>3, <1>5, <1>6
  <2>6. QED
    BY <1>0, <2>2, <2>4, <2>5, DeepState DEF Deep!Assign, Deep!CellsOf, G, G2, C, C2
<1>7. CASE \E j \in 1..n : bindlist[j] = v
  <2> DEFINE T == {j \in 1..n : bindlist[j] = v}
  <2>1. PICK m \in T : \A k \in T : k <= m
    <3>1. T \subseteq 1..n /\ T # {}
      BY <1>7
    <3> HIDE DEF T
    <3>2. QED
      BY <1>1, <3>1, GreatestNatural
  <2>2. /\ m \in 1..n /\ bindlist[m] = v
        /\ \A j \in (m + 1)..n : bindlist[j] # v
    BY <1>1, <2>1
  <2>3. \A i \in 1..n : C2[i] = IF i = m THEN CellFor(v, value'[v]) ELSE C[i]
    <3>1. ASSUME NEW i \in 1..n
          PROVE  C2[i] = IF i = m THEN CellFor(v, value'[v]) ELSE C[i]
      <4>1. CASE i = m
        BY <1>1, <1>2, <1>4, <2>2, <4>1
      <4>2. CASE i # m /\ bindlist[i] = v
        <5>1. m \in (i + 1)..n
          BY <1>1, <2>1, <2>2, <4>2
        <5>2. QED
          BY <1>1, <1>2, <1>3, <1>4, <2>2, <4>2, <5>1
      <4>3. CASE i # m /\ bindlist[i] # v
        BY <1>1, <1>2, <1>3, <1>4, <4>3
      <4>4. QED
        BY <4>1, <4>2, <4>3
    <3>2. QED
      BY <3>1
  <2>4. C2 = [C EXCEPT ![m] = CellFor(v, x)]
    <3>1. CellFor(v, x) \in CellSet
      BY <1>0 DEF CellFor, CellSet
    <3>2. /\ [C EXCEPT ![m] = CellFor(v, x)] \in Seq(CellSet)
          /\ Len([C EXCEPT ![m] = CellFor(v, x)]) = n
          /\ \A i \in 1..n : [C EXCEPT ![m] = CellFor(v, x)][i] =
                                IF i = m THEN CellFor(v, x) ELSE C[i]
      BY <1>3, <2>2, <3>1, ExceptSeq
    <3>3. \A i \in 1..n : C2[i] = [C EXCEPT ![m] = CellFor(v, x)][i]
      BY <1>0, <2>3, <3>2
    <3>4. QED
      BY <1>4, <3>2, <3>3, SeqEqual
  <2>5. G2 = G
    <3>1. \A w \in Var : G2[w] = G[w]
      BY <1>1, <1>2, <1>3, <1>4, <1>7
    <3>2. QED
      BY <1>3, <1>4, <3>1
  <2>6. /\ m \in {i \in 1..Len(C) : C[i].name = v}
        /\ \A j \in {i \in 1..Len(C) : C[i].name = v} : j <= m
    BY <1>3, <1>5, <2>1, <2>2
  <2>7. QED
    BY <1>0, <2>4, <2>5, <2>6, DeepState
       DEF Deep!Assign, Deep!CellsOf, Deep!Innermost, G, G2, C, C2, CellFor
<1>8. QED
  BY <1>6, <1>7

(* Every step of the binding lists is a step of the deep environment. *)
LEMMA BindStepRefines ==
  ASSUME BindTypeOK, BindTypeOK', [BindNext]_bvars
  PROVE  [Deep!DNext]_(Deep!dvars)
<1>1. ASSUME NEW v \in Var, Remvalue(v)
      PROVE  Deep!DNext
  <2>1. PICK y \in Saved : Deep!Assign(v, y)
    BY <1>1, SetAssigns DEF Remvalue, ClearCell, BindTypeOK
  <2>2. QED
    BY <2>1 DEF Deep!DNext
<1>2. ASSUME NEW v \in Var, NEW x \in Val, Mset(v, x)
      PROVE  Deep!DNext
  <2>1. PICK y \in Saved : Deep!Assign(v, y)
    BY <1>2, SetAssigns DEF Mset, SetCell, BindTypeOK
  <2>2. QED
    BY <2>1 DEF Deep!DNext
<1>3. ASSUME NEW v \in Var, NEW x \in Val, MbindOne(v, x)
      PROVE  Deep!DNext
  BY <1>3, MbindEnters DEF Deep!DNext, Saved
<1>4. ASSUME MunbindLast
      PROVE  Deep!DNext
  BY <1>4, MunbindLeaves DEF Deep!DNext
<1>5. CASE UNCHANGED bvars
  BY <1>5, DeepState DEF bvars, Deep!dvars
<1>6. QED
  BY <1>1, <1>2, <1>3, <1>4, <1>5 DEF BindNext

(* Before anything is bound the deep environment is the value cells alone. *)
LEMMA BindInitRefines == BindInit => Deep!DInit
<1> SUFFICES ASSUME BindInit PROVE Deep!DInit
  OBVIOUS
<1>1. BindTypeOK /\ Len(bindlist) = 0
  BY BindInitTypeOK, EmptySeq DEF BindInit
<1>2. GlobalsOf(value, bindlist, mspeclist) \in [Var -> Saved]
  BY <1>1, CellsType DEF BindTypeOK
<1>3. StackOf(value, bindlist, mspeclist) = <<>>
  <2> DEFINE CellSet == [name : Var, content : Saved]
  <2>1. /\ StackOf(value, bindlist, mspeclist) \in Seq(CellSet)
        /\ Len(StackOf(value, bindlist, mspeclist)) = 0
    BY <1>1, CellsType DEF BindTypeOK
  <2> HIDE DEF CellSet
  <2>2. QED
    BY <2>1, EmptySeq
<1>4. QED
  BY <1>2, <1>3, DeepState DEF Deep!DInit

(* Saving and restoring one value cell per name implements dynamic scoping, *)
(* whatever the variables and the values: an assignment reaches the        *)
(* innermost scope of its name and no other, and leaving a scope uncovers   *)
(* what the scopes under it last held (mbind-doit, munbind, mset).          *)
THEOREM ShallowBindingIsDynamicScope == BindSpec => ImplementsDynamicScope
<1>1. BindTypeOK /\ BindTypeOK' /\ [BindNext]_bvars => [Deep!DNext]_(Deep!dvars)
  BY BindStepRefines
<1>2. QED
  BY BindInitRefines, BindInvariant, <1>1, PTL DEF BindSpec, ImplementsDynamicScope, Deep!DSpec

=============================================================================
