---------------------------- MODULE AskSign_proof ----------------------------
(***************************************************************************)
(* What holds of AskSign for any number of contexts, facts and frames, as     *)
(* long as the user's program does nothing of Irregular.                     *)
(*                                                                         *)
(* In two layers.  AskInv holds of every expression.  The user's facts are    *)
(* safe and the answers known because what is forgotten is the newest fact on  *)
(* the node that says so: for the answers no fact of the user that says the    *)
(* same is newer, and there are as many of them as will be taken back          *)
(* (AskAnswers); for "not zero" it holds while it is assumed, so that nothing  *)
(* else says it anew (AskNonzero).  For both one has to know what a deduction  *)
(* sees once the evaluator has left a context that it made, which is what the  *)
(* frames say (AskFrames).                                                  *)
(*                                                                         *)
(* AskExact holds of a symbol, for which a context that is killed leaves        *)
(* nothing on the node: the lists agree, there are no other answers than those  *)
(* to be taken back, and the evaluator's assumptions belong to frames.        *)
(***************************************************************************)
EXTENDS AskSign, DbContexts_proof

(***************************************************************************)
(* The invariant of every expression.                                      *)
(***************************************************************************)

Frame == [kind : {"context", "nonzero"}, name : Ctx, before : Ctx]
AskTypeOK == /\ nodes \in SUBSET Stored /\ localSigns \in Seq(Sign)
             /\ frames \in Seq(Frame) /\ clearing \in BOOLEAN

(* killallcontexts is not running. *)
AskDb == DbInv /\ killing = <<>> /\ tidy

Opened(c) == \E i \in 1 .. Len(frames) : frames[i].kind = "context" /\ frames[i].name = c

(* Every frame was entered where the one before it left off, and what it      *)
(* selected is still there, with what was in force when it was entered.      *)
FrameIn(fs, exist, f, i) ==
  /\ fs[i].name \in exist
  /\ i > 1 => fs[i].before = fs[i - 1].name
  /\ fs[i].kind = "nonzero" => fs[i].name = fs[i].before
  /\ fs[i].kind = "context" => /\ fs[i].name \in Temp
                               /\ f[fs[i].name] = fs[i].before
                               /\ fs[i].before # Global
  /\ \A j \in 1 .. i : /\ fs[j].name \in ChainIn(f, fs[i].name)
                       /\ fs[i].kind = "context" => fs[j].before # fs[i].name
                       /\ fs[i].kind = "context" /\ j < i => fs[j].name # fs[i].name

AskFrames == /\ frames # <<>> => context = Last(frames).name
             /\ \A i \in 1 .. Len(frames) : FrameIn(frames, Known, subc, i)

(* The contexts of with-new-context are those of the frames; the user has     *)
(* none of them.                                                           *)
AskTemps == /\ \A c \in Known \cap Temp : Opened(c)
            /\ \A c \in Known \ Temp : subc[c] \notin Temp
            /\ activecontexts \cap Temp = {}

AskFacts == /\ \A c \in Ctx : \A d \in data[c] : d.con = c
            /\ \A d, e \in nodes : d.id = e.id => d = e
            /\ \A d \in UserFacts : d.con \notin Temp

(* In S there is one stored answer for each of ls, which are to be taken back, *)
(* and no fact of the user that says the same is newer.                       *)
Recorded(S, ns, ls) ==
  /\ S \subseteq ns /\ IsFiniteSet(S) /\ Cardinality(S) = Len(ls)
  /\ \A d \in S : /\ d.by = "answer" /\ d.con = Initial /\ d.pred = Last(ls)
                  /\ \A e \in ns : e.by = "user" /\ e.pred = d.pred => e.id < d.id
AllSame(ls) == \A i \in 1 .. Len(ls) : ls[i] = Last(ls)

AskAnswers == /\ AllSame(localSigns)
              /\ \E S \in SUBSET nodes : Recorded(S, nodes, localSigns)
              /\ clearing => localSigns # <<>> /\ frames = <<>>

Reach(f, c, act) == ChainIn(f, c) \cup UNION {ChainIn(f, a) : a \in act}
Newest(d, p) == d \in FirstOf(nodes, p)

(* While it is assumed that the expression is not zero, that is known from    *)
(* facts that were in force when the frame was entered; and if any fact says  *)
(* just that the newest is the one of the frame, and there is no other frame. *)
AskNonzero ==
  \A i \in 1 .. Len(frames) : frames[i].kind = "nonzero" =>
    /\ \E d \in nodes : Implies(d.pred, "ne") /\ d.con \in Reach(subc, frames[i].name, activecontexts)
    /\ \A d \in nodes : d.pred = "ne" =>
         /\ \A j \in 1 .. Len(frames) : frames[j].kind = "nonzero" => j = i
         /\ Newest(d, "ne") => d.by = "evaluator" /\ d.con = frames[i].name

AskInv == /\ AskTypeOK /\ AskDb /\ AskFrames /\ AskTemps
          /\ AskFacts /\ AskAnswers /\ AskNonzero

(***************************************************************************)
(* What is also true of a symbol.                                          *)
(***************************************************************************)

Answers == {d \in nodes : d.by = "answer"}

(* What the evaluator assumed belongs to a frame. *)
AskOwned ==
  \A d \in nodes : d.by = "evaluator" =>
    \/ Opened(d.con)
    \/ Newest(d, "ne") /\ \E i \in 1 .. Len(frames) : frames[i].kind = "nonzero" /\ frames[i].name = d.con

AskExact == NodesExact /\ Recorded(Answers, nodes, localSigns) /\ AskOwned

(* A non-empty set of naturals up to n has a greatest element, which Max finds. *)
LEMMA MaxIs ==
  ASSUME NEW n \in Nat, NEW S, S \subseteq 0 .. n, S # {}
  PROVE  Max(S) \in S /\ \A k \in S : k <= Max(S)
<1> DEFINE D == {d \in Nat : n - d \in S}
<1>1. PICK s \in S : TRUE
  OBVIOUS
<1>2. n - s \in D
  BY <1>1
<1>3. PICK d \in D : \A e \in D : ~ (<<e, d>> \in OpToRel(<, Nat))
  <2> HIDE DEF D
  <2>1. D \subseteq Nat
    BY DEF D
  <2> QED BY <1>2, <2>1, WFMin, NatLessThanWellFounded
<1>4. \A e \in D : d <= e
  <2> HIDE DEF D
  <2>1. D \subseteq Nat
    BY DEF D
  <2>2. \A e \in D : ~ (e < d)
    BY <1>3, <2>1 DEF OpToRel
  <2> QED BY <2>1, <2>2
<1>5. \A k \in S : n - k \in D
  OBVIOUS
<1>6. n - d \in S /\ \A k \in S : k <= n - d
  <2>1. n - d \in S /\ d \in Nat
    OBVIOUS
  <2>2. ASSUME NEW k \in S PROVE k <= n - d
    <3>1. d <= n - k /\ k \in 0 .. n
      BY <1>4, <1>5
    <3> QED BY <2>1, <3>1
  <2> QED BY <2>1, <2>2
<1>7. \E m \in S : \A k \in S : m >= k
  <2>1. \A k \in S : n - d >= k
    BY <1>6
  <2> QED BY <1>6, <2>1
<1>8. Max(S) \in S /\ \A k \in S : Max(S) >= k
  BY <1>7 DEF Max
<1> QED BY <1>8

LEMMA FrontIs ==
  ASSUME NEW S, NEW s \in Seq(S), s # <<>>
  PROVE  /\ Front(s) \in Seq(S) /\ Len(Front(s)) = Len(s) - 1 /\ Len(s) \in Nat \ {0}
         /\ \A i \in 1 .. Len(s) - 1 : Front(s)[i] = s[i]
         /\ Last(s) = s[Len(s)] /\ Last(s) \in S
<1>1. Len(s) \in Nat \ {0} /\ \A i \in 1 .. Len(s) : s[i] \in S
  BY EmptySeq
<1>2. /\ Front(s) \in Seq(S) /\ Len(Front(s)) = Len(s) - 1
      /\ \A i \in 1 .. Len(s) - 1 : Front(s)[i] = s[i]
  <2>1. 1 \in Int /\ Len(s) - 1 \in Int /\ \A i \in 1 .. Len(s) - 1 : s[i] \in S
    BY <1>1
  <2>2. /\ SubSeq(s, 1, Len(s) - 1) \in Seq(S)
        /\ Len(SubSeq(s, 1, Len(s) - 1)) = IF 1 <= Len(s) - 1 THEN Len(s) - 1 - 1 + 1 ELSE 0
        /\ \A i \in 1 .. Len(s) - 1 - 1 + 1 : SubSeq(s, 1, Len(s) - 1)[i] = s[1 + i - 1]
    BY ONLY <2>1, SubSeqProperties
  <2>3. SubSeq(s, 1, Len(s) - 1) = Front(s)
    BY DEF Front
  <2> DEFINE n == Len(s)
             t == Front(s)
  <2>4. /\ n \in Nat \ {0} /\ t \in Seq(S) /\ Len(t) = IF 1 <= n - 1 THEN n - 1 - 1 + 1 ELSE 0
        /\ \A i \in 1 .. n - 1 - 1 + 1 : t[i] = s[1 + i - 1]
    BY <1>1, <2>2, <2>3
  <2> HIDE DEF n, t
  <2>5. t \in Seq(S) /\ Len(t) = n - 1
    BY <2>4
  <2>6. ASSUME NEW i \in 1 .. n - 1 PROVE t[i] = s[i]
    <3>1. i \in 1 .. n - 1 - 1 + 1 /\ 1 + i - 1 = i
      BY <2>4
    <3> QED BY <2>4, <3>1
  <2> QED BY <2>5, <2>6 DEF n, t
<1>3. Last(s) = s[Len(s)] /\ Last(s) \in S
  BY <1>1 DEF Last
<1> QED BY <1>1, <1>2, <1>3

LEMMA AppendIs ==
  ASSUME NEW S, NEW s \in Seq(S), NEW e \in S
  PROVE  /\ Append(s, e) \in Seq(S) /\ Len(Append(s, e)) = Len(s) + 1 /\ Append(s, e) # <<>>
         /\ \A i \in 1 .. Len(s) : Append(s, e)[i] = s[i]
         /\ Append(s, e)[Len(s) + 1] = e /\ Last(Append(s, e)) = e
BY DEF Last

(* The newest fact that says p is the one that mkill finds first. *)
LEMMA NewestIs ==
  ASSUME NEW list \in SUBSET Stored, NEW p, NEW d \in list, d.pred = p
  PROVE  \E e \in FirstOf(list, p) :
           e \in list /\ e.pred = p /\ \A x \in list : x.pred = p => x.id <= e.id
<1> DEFINE S == {x.id : x \in {y \in list : y.pred = p}}
<1>1. S \subseteq 0 .. MaxFact /\ S # {} /\ MaxFact \in Nat
  BY AskAssumption DEF Stored
<1>2. Max(S) \in S /\ \A k \in S : k <= Max(S)
  <2> HIDE DEF S
  <2> QED BY <1>1, MaxIs
<1>3. PICK e \in list : e.pred = p /\ e.id = Max(S)
  BY <1>2
<1>4. \A x \in list : x.pred = p => x.id <= e.id
  BY <1>2, <1>3
<1> QED BY <1>3, <1>4 DEF FirstOf

(* A new fact is newer than every other. *)
LEMMA NewFactIs ==
  ASSUME nodes \in SUBSET Stored, data \in [Ctx -> SUBSET Stored],
         NEW p, NEW c, NEW by, NewFact(p, c, by) \in Fact, NEW d, d = NewFact(p, c, by)
  PROVE  /\ d \in Stored /\ d.pred = p /\ d.con = c /\ d.by = by
         /\ \A e \in nodes : e.id < d.id
<1> DEFINE S == {0} \cup {e.id : e \in AllFacts}
<1>1. AllFacts \in SUBSET Stored /\ nodes \subseteq AllFacts
  BY DEF AllFacts
<1>2. S \subseteq 0 .. MaxFact /\ S # {} /\ MaxFact \in Nat
  BY <1>1, AskAssumption DEF Stored
<1>3. Max(S) \in S /\ \A k \in S : k <= Max(S)
  <2> HIDE DEF S
  <2> QED BY <1>2, MaxIs
<1>4. d.id = 1 + Max(S) /\ d.pred = p /\ d.con = c /\ d.by = by
  BY DEF NewFact
<1>5. d \in Stored
  BY AskAssumption
<1>6. ASSUME NEW e \in nodes PROVE e.id < d.id
  <2>1. e.id <= Max(S) /\ e.id \in Nat /\ Max(S) \in Nat
    <3>1. e.id \in S
      BY <1>1
    <3> HIDE DEF S
    <3>2. e.id <= Max(S)
      BY <1>3, <3>1
    <3>3. e.id \in 0 .. MaxFact /\ Max(S) \in 0 .. MaxFact
      BY <1>2, <1>3, <3>1
    <3> QED BY <1>2, <3>2, <3>3
  <2> HIDE DEF S
  <2> QED BY <1>4, <2>1
<1> QED BY <1>4, <1>5, <1>6

(***************************************************************************)
(* The answers.                                                            *)
(***************************************************************************)

LEMMA RecordedNone ==
  ASSUME NEW S, NEW ns, NEW ls \in Seq(Sign), Recorded(S, ns, ls)
  PROVE  ls = <<>> <=> S = {}
<1>1. Cardinality(S) = 0 <=> S = {}
  BY FS_EmptySet DEF Recorded
<1>2. Len(ls) = 0 <=> ls = <<>>
  BY EmptySeq
<1> QED BY <1>1, <1>2 DEF Recorded

LEMMA RecordedStays ==
  ASSUME NEW S, NEW ns, NEW ms, NEW ls, Recorded(S, ns, ls), S \subseteq ms,
         \A e \in ms \ ns : e.by = "user" => \A d \in S : e.pred # d.pred
  PROVE  Recorded(S, ms, ls)
BY DEF Recorded

(* One more. *)
LEMMA RecordedAppend ==
  ASSUME NEW ls \in Seq(Sign), AllSame(ls), NEW s \in Sign, ls # <<>> => s = Last(ls),
         NEW S, NEW ns, Recorded(S, ns, ls),
         NEW d, d \notin ns, d.by = "answer", d.con = Initial, d.pred = s, \A e \in ns : e.id < d.id
  PROVE  AllSame(Append(ls, s)) /\ Recorded(S \cup {d}, ns \cup {d}, Append(ls, s))
<1> DEFINE n == Len(ls)
           ms == Append(ls, s)
           m == Len(ms)
<1>1. /\ n \in Nat /\ m = n + 1 /\ \A i \in 1 .. n : ms[i] = ls[i]
      /\ ms[n + 1] = s /\ Last(ms) = s
  BY AppendIs
<1>2. \A i \in 1 .. n : ls[i] = s
  <2>1. \A i \in 1 .. n : ls # <<>>
    BY EmptySeq
  <2> QED BY <2>1 DEF AllSame
<1>3. S \subseteq ns /\ IsFiniteSet(S) /\ Cardinality(S) = n
  BY DEF Recorded
<1>4. S = {} \/ ls # <<>>
  BY RecordedNone
<1>5. \A e \in S : /\ e.by = "answer" /\ e.con = Initial /\ e.pred = s
                   /\ \A u \in ns : u.by = "user" /\ u.pred = e.pred => u.id < e.id
  BY <1>4 DEF Recorded
<1> HIDE DEF n, ms, m
<1>6. \A i \in 1 .. m : i \in 1 .. n \/ i = n + 1
  BY <1>1
<1>7. \A i \in 1 .. m : ms[i] = s
  BY <1>1, <1>2, <1>6
<1>8. AllSame(ms)
  BY <1>1, <1>7 DEF AllSame, m
<1>9. IsFiniteSet(S \cup {d}) /\ Cardinality(S \cup {d}) = m
  BY <1>1, <1>3, FS_AddElement
<1>10. \A e \in S \cup {d} :
         /\ e.by = "answer" /\ e.con = Initial /\ e.pred = s
         /\ \A u \in ns \cup {d} : u.by = "user" /\ u.pred = e.pred => u.id < e.id
  BY <1>5
<1>11. Recorded(S \cup {d}, ns \cup {d}, ms)
  BY <1>1, <1>3, <1>9, <1>10 DEF Recorded, m
<1> QED BY <1>8, <1>11 DEF ms

(* One less. *)
LEMMA RecordedFront ==
  ASSUME NEW ls \in Seq(Sign), ls # <<>>, AllSame(ls),
         NEW S, NEW ns, Recorded(S, ns, ls), NEW x \in S, NEW ms, ms \subseteq ns, S \ {x} \subseteq ms
  PROVE  AllSame(Front(ls)) /\ Recorded(S \ {x}, ms, Front(ls))
<1> DEFINE n == Len(ls)
           fs == Front(ls)
           m == Len(fs)
           s == Last(ls)
<1>1. n \in Nat \ {0} /\ m = n - 1 /\ (\A i \in 1 .. n - 1 : fs[i] = ls[i]) /\ fs \in Seq(Sign)
  BY FrontIs
<1>2. /\ S \subseteq ns /\ IsFiniteSet(S) /\ Cardinality(S) = n /\ \A i \in 1 .. n : ls[i] = s
      /\ \A d \in S : /\ d.by = "answer" /\ d.con = Initial /\ d.pred = s
                      /\ \A e \in ns : e.by = "user" /\ e.pred = d.pred => e.id < d.id
  BY DEF Recorded, AllSame
<1>3. Last(fs) = fs[m]
  BY DEF Last
<1> HIDE DEF n, fs, m, s
<1>4. IsFiniteSet(S \ {x}) /\ Cardinality(S \ {x}) = m
  BY <1>1, <1>2, FS_RemoveElement
<1>5. \A i \in 1 .. m : fs[i] = s /\ m \in 1 .. m
  BY <1>1, <1>2
<1>6. m # 0 => Last(fs) = s
  BY <1>1, <1>3, <1>5
<1>7. \A d \in S \ {x} : m # 0
  BY <1>4, FS_EmptySet
<1>8. AllSame(fs)
  <2>1. \A i \in 1 .. m : fs[i] = Last(fs)
    BY <1>3, <1>5
  <2> QED BY <2>1 DEF AllSame, m
<1>9. \A d \in S \ {x} : /\ d.by = "answer" /\ d.con = Initial /\ d.pred = Last(fs)
                         /\ \A e \in ms : e.by = "user" /\ e.pred = d.pred => e.id < d.id
  BY <1>2, <1>6, <1>7
<1>10. Recorded(S \ {x}, ms, fs)
  BY <1>4, <1>9 DEF Recorded, m
<1> QED BY <1>8, <1>10 DEF fs

(***************************************************************************)
(* What a deduction sees.                                                  *)
(***************************************************************************)

LEMMA DbIs ==
  ASSUME AskDb
  PROVE  /\ DbOrder /\ DbMarked /\ DbData /\ DbTypeOK /\ Live = Known /\ subc \in Subcs
         /\ activecontexts = contexts /\ activecontexts \subseteq Known
         /\ Known \subseteq Ctx /\ context \in Known /\ Initial \in Known /\ Global \in Known
         /\ \A c \in Known \ {Global} : subc[c] \in Known
         /\ subc[Global] = NoCtx /\ ClosedIn(subc, Known)
         /\ Marked(subc, cmark, current, contexts, Known)
         /\ data \in [Ctx -> SUBSET Fact] /\ nodes \subseteq Fact /\ GoodList(userContexts)
<1>1. /\ DbOrder /\ DbMarked /\ DbData /\ DbTypeOK /\ DbSets /\ DbLists /\ DbPlaces
      /\ killing = <<>> /\ tidy /\ Rooted(subc, Live)
  BY DEF AskDb, DbInv, DbOrder
<1>2. Live = Known /\ subc \in Subcs
  BY <1>1, LiveIsKnown, TypeNames
<1>3. Marked(subc, cmark, current, contexts, Known)
  BY <1>1 DEF DbMarked
<1> QED BY <1>1, <1>2, <1>3 DEF DbSets, DbLists, DbPlaces, Rooted, Marked, DbTypeOK

LEMMA SeenIs ==
  ASSUME AskDb, NEW c \in Ctx
  PROVE  /\ Positive(MarkedFor(context)[c]) <=> c \in Reach(subc, context, activecontexts)
         /\ c \in InForce <=> c \in Reach(subc, context, activecontexts)
<1>1. Marked(subc, MarkedFor(context), context, contexts, Known)
  BY DbIs, MarkedForRight
<1>2. Positive(MarkedFor(context)[c]) <=> \E r \in {context} \cup contexts : c \in ChainIn(subc, r)
  BY <1>1, DbIs, PositiveIs
<1>3. InForce = UNION {ChainIn(subc, r) : r \in {context} \cup activecontexts}
  BY ChainIs DEF InForce
<1> QED BY <1>2, <1>3, DbIs DEF Reach

LEMMA HoldsIs ==
  ASSUME AskDb, nodes \in SUBSET Stored, NEW p
  PROVE  Holds(p) <=> \E d \in nodes : /\ Implies(d.pred, p)
                                       /\ d.con \in Reach(subc, context, activecontexts)
<1>1. \A d \in nodes : d.con \in Ctx
  BY DEF Stored
<1> QED BY <1>1, SeenIs DEF Holds, Visible

LEMMA NonzeroNotRefuted == ~ Refuted("ne")
BY DEF Refuted, Contradicts, Sign

(* What implies that the expression is not zero. *)
LEMMA AllImply == \A q \in Pred : Implies(q, "ne")
BY DEF Pred, Implies

LEMMA DbStep ==
  ASSUME AskDb, UNCHANGED <<killing, tidy>>, DbOrder', DbMarked => DbMarked', DbData => DbData'
  PROVE  AskDb'
BY DEF AskDb, DbInv

LEMMA DeduceDb ==
  ASSUME AskDb, UNCHANGED <<killing, tidy>>, Clear, NEW con \in Known,
         data' \in [Ctx -> SUBSET Fact], nodes' \subseteq Fact, \A c \in Ctx \ {con} : data'[c] = data[c]
  PROVE  AskDb' /\ UNCHANGED <<userContexts, activecontexts, context, subc>>
<1>1. OrderSame /\ UNCHANGED <<userContexts, activecontexts, context, subc>>
  BY DEF Clear, OrderSame, lists
<1>2. killing = <<>> /\ tidy' = tidy /\ \A c \in Ctx \ Known : data'[c] = data[c]
  BY DEF AskDb
<1>3. DbOrder' /\ (DbMarked => DbMarked') /\ (DbData => DbData')
  BY <1>1, <1>2, DbIs, DeduceKeeps
<1> QED BY <1>1, <1>3, DbStep

LEMMA FactsDb ==
  ASSUME AskDb, UNCHANGED <<killing, tidy, userContexts, subc, activecontexts, contexts, current, cmark>>,
         context' \in Known, NEW con \in Known,
         data' \in [Ctx -> SUBSET Fact], nodes' \subseteq Fact, \A c \in Ctx \ {con} : data'[c] = data[c]
  PROVE  AskDb'
<1>1. OrderSame /\ UNCHANGED <<lists, current, cmark, tidy>>
  BY DEF OrderSame, lists
<1>2. killing = <<>> /\ context' \in Live /\ \A c \in Ctx \ Known : data'[c] = data[c]
  BY DbIs DEF AskDb
<1>3. DbOrder' /\ (DbMarked => DbMarked') /\ (DbData => DbData')
  BY <1>1, <1>2, DbIs, FactsKeep
<1> QED BY <1>3, DbStep

LEMMA KillDb ==
  ASSUME AskDb, UNCHANGED <<killing, tidy>>, NEW c \in Ctx, Killcontext(c), \A d \in Known : subc[d] # c
  PROVE  /\ AskDb' /\ Known' = Known \ {c} /\ c \in Known \ {Global, Initial}
         /\ activecontexts' = activecontexts \ {c} /\ context' = NextContext(c)
         /\ \A d \in Ctx \ {c} : subc'[d] = subc[d]
         /\ data' = [data EXCEPT ![c] = {}] /\ nodes' = nodes \ (data[c] \ Composite)
         /\ \A d \in Known \ {c} : ChainIn(subc', d) = ChainIn(subc, d) /\ c \notin ChainIn(subc, d)
<1>1. c \in Live /\ \A d \in Live : subc[d] # c
  BY DbIs DEF Killcontext
<1>2. killing' = <<>> /\ killing = <<>> /\ tidy' = tidy /\ DbOrder /\ Killcontext(c)
  BY DbIs DEF AskDb
<1>3. DbOrder' /\ (DbMarked => DbMarked') /\ (DbData => DbData')
  BY ONLY <1>1, <1>2, KillKeeps
<1>4. AskDb'
  BY <1>3, DbStep
<1>5. Known' = Known \ {c}
  BY DbIs, DeletedGood DEF Known, Killcontext
<1>6. /\ c \in Known \ {Global, Initial}
      /\ activecontexts' = activecontexts \ {c} /\ context' = NextContext(c)
      /\ \A d \in Ctx \ {c} : subc'[d] = subc[d]
      /\ data' = [data EXCEPT ![c] = {}] /\ nodes' = nodes \ (data[c] \ Composite)
  BY DbIs DEF Killcontext, Emptied, Subcs
<1>7. ClosedIn(subc, Known \ {c}) /\ Known \ {c} \in SUBSET Ctx
  BY DbIs DEF ClosedIn
<1>8. \A d \in Known \ {c} : ChainIn(subc', d) = ChainIn(subc, d) /\ ChainIn(subc, d) \subseteq Known \ {c}
  BY <1>6, <1>7, ChainSame, ChainSmallest
<1> QED BY <1>4, <1>5, <1>6, <1>8

LEMMA CreateDb ==
  ASSUME AskDb, UNCHANGED <<killing, tidy>>, NEW c \in Ctx, NEW sub \in Known, Create(c, sub)
  PROVE  /\ AskDb' /\ Known' = Known \cup {c} /\ c \notin Known /\ context' = c
         /\ subc'[c] = sub /\ \A d \in Ctx \ {c} : subc'[d] = subc[d]
         /\ UNCHANGED <<activecontexts, data, nodes>>
         /\ \A d \in Known : ChainIn(subc', d) = ChainIn(subc, d)
         /\ c \in ChainIn(subc', c) /\ ChainIn(subc, sub) \subseteq ChainIn(subc', c)
<1>1. DbOrder' /\ (DbMarked => DbMarked') /\ (DbData => DbData')
  <2>1. DbOrder /\ killing = <<>> /\ killing' = killing /\ tidy' = tidy
    BY DbIs DEF AskDb
  <2> QED BY <2>1, CreateKeeps
<1>2. AskDb'
  BY <1>1, DbStep
<1>3. /\ c \notin Known /\ context' = c /\ subc'[c] = sub /\ \A d \in Ctx \ {c} : subc'[d] = subc[d]
      /\ UNCHANGED <<activecontexts, data, nodes>>
  BY DbIs DEF Create, Subcs
<1>4. Known' = Known \cup {c}
  BY DbIs, Prepended DEF Known, Create
<1>5. \A d \in Known : ChainIn(subc', d) = ChainIn(subc, d)
  <2>1. ClosedIn(subc, Known) /\ Known \in SUBSET Ctx /\ \A d \in Known : subc'[d] = subc[d]
    BY <1>3, DbIs
  <2> QED BY <2>1, ChainSame
<1>6. subc' \in Subcs
  BY <1>2 DEF AskDb, DbInv, DbOrder, DbTypeOK, Subcs
<1>7. c \in ChainIn(subc', c) /\ ClosedIn(subc', ChainIn(subc', c)) /\ ChainIn(subc', c) \subseteq Ctx
  BY <1>6, ChainClosed
<1>8. sub \in ChainIn(subc', c)
  BY <1>3, <1>7, DbIs, CtxAssumption DEF ClosedIn
<1>9. ChainIn(subc', sub) \subseteq ChainIn(subc', c)
  BY <1>6, <1>8, ChainOfMember
<1> QED BY <1>2, <1>3, <1>4, <1>5, <1>7, <1>9

(***************************************************************************)
(* Facts come and go.                                                      *)
(***************************************************************************)

Stores(d) == /\ d \in Stored /\ \A e \in nodes : e.id < d.id
             /\ nodes' = nodes \cup {d} /\ data' = [data EXCEPT ![d.con] = @ \cup {d}]
Shrinks == /\ nodes' \subseteq nodes /\ data' \in [Ctx -> SUBSET Fact]
           /\ \A c \in Ctx : data'[c] \subseteq data[c]

ContextsSame == UNCHANGED <<userContexts, activecontexts, context, subc>>

LEMMA DataIs ==
  ASSUME AskTypeOK, AskDb
  PROVE  nodes \in SUBSET Stored /\ data \in [Ctx -> SUBSET Stored]
BY DbIs, AskAssumption DEF AskTypeOK

LEMMA StoredFacts ==
  ASSUME AskTypeOK, AskDb, AskFacts, NEW d, Stores(d), d.by = "user" => d.con \notin Temp
  PROVE  AskFacts' /\ nodes' \in SUBSET Stored
<1>1. d.con \in Ctx /\ d \in Stored /\ nodes' = nodes \cup {d}
      /\ \A c \in Ctx : data'[c] = IF c = d.con THEN data[c] \cup {d} ELSE data[c]
  BY DataIs DEF Stores, Stored
<1>2. \A c \in Ctx : \A e \in data'[c] : e.con = c
  BY <1>1 DEF AskFacts
<1>3. \A e, f \in nodes' : e.id = f.id => e = f
  <2>1. \A e \in nodes : e.id # d.id
    BY DEF Stores, AskTypeOK, Stored
  <2> QED BY <1>1, <2>1 DEF AskFacts
<1>4. \A e \in UserFacts' : e.con \notin Temp
  BY <1>1 DEF UserFacts, AskFacts
<1> QED BY <1>1, <1>2, <1>3, <1>4 DEF AskFacts, AskTypeOK

LEMMA ShrunkFacts ==
  ASSUME AskTypeOK, AskFacts, Shrinks
  PROVE  AskFacts' /\ nodes' \in SUBSET Stored
<1>1. \A c \in Ctx : \A e \in data'[c] : e.con = c
  BY DEF AskFacts, Shrinks
<1>2. (\A e, f \in nodes' : e.id = f.id => e = f) /\ \A e \in UserFacts' : e.con \notin Temp
  BY DEF UserFacts, AskFacts, Shrinks
<1> QED BY <1>1, <1>2 DEF AskFacts, AskTypeOK, Shrinks

LEMMA ForgottenShrinks ==
  ASSUME AskDb, NEW p, NEW c \in Ctx, Forgotten(p, c)
  PROVE  /\ Shrinks /\ nodes' = nodes \ FirstOf(nodes, p) /\ nodes' \subseteq Fact
         /\ \A b \in Ctx \ {c} : data'[b] = data[b]
BY DbIs DEF Forgotten, Shrinks

LEMMA AssumeIs ==
  ASSUME AskTypeOK, AskDb, UNCHANGED <<killing, tidy>>, NEW p, NEW by, AssumeBy(p, by)
  PROVE  /\ AskDb' /\ ContextsSame
         /\ \/ (Holds(p) \/ Refuted(p)) /\ UNCHANGED <<nodes, data>>
            \/ ~ Holds(p) /\ \E d : Stores(d) /\ d.pred = p /\ d.con = context /\ d.by = by
<1>1. CASE Holds(p) \/ Refuted(p)
  <2>1. Clear /\ UNCHANGED <<nodes, data>>
    BY <1>1 DEF AssumeBy, Deduce
  <2> QED BY <1>1, <2>1, DeduceDb, DbIs DEF ContextsSame
<1>2. CASE ~ (Holds(p) \/ Refuted(p))
  <2> DEFINE d == NewFact(p, context, by)
  <2>1. d \in Fact /\ Assume(d)
    BY <1>2 DEF AssumeBy
  <2>2. /\ d \in Stored /\ d.pred = p /\ d.con = context /\ d.by = by
        /\ \A e \in nodes : e.id < d.id
    BY <2>1, DataIs, NewFactIs
  <2> HIDE DEF d
  <2>3. Clear /\ data' = [data EXCEPT ![context] = @ \cup {d}] /\ nodes' = nodes \cup {d}
    BY <2>1 DEF Assume
  <2>4. Stores(d)
    BY <2>2, <2>3 DEF Stores
  <2>5. data' \in [Ctx -> SUBSET Fact] /\ \A c \in Ctx \ {context} : data'[c] = data[c]
    BY <2>1, <2>3, DbIs
  <2>6. nodes' \subseteq Fact
    BY <2>1, <2>3, DbIs
  <2>7. AskDb' /\ ContextsSame
    BY <2>3, <2>5, <2>6, DeduceDb, DbIs DEF ContextsSame
  <2> QED BY <1>2, <2>2, <2>4, <2>7
<1> QED BY <1>1, <1>2

(***************************************************************************)
(* What is left alone.                                                     *)
(***************************************************************************)

LEMMA PlacesSame ==
  ASSUME AskFrames, AskTemps, ContextsSame, frames' = frames
  PROVE  AskFrames' /\ AskTemps'
<1>1. Known' = Known
  BY DEF ContextsSame, Known
<1> QED BY <1>1 DEF AskFrames, FrameIn, AskTemps, ContextsSame, Opened

(* What is on the node. *)
LEMMA FactsSame ==
  ASSUME AskTypeOK, AskFacts, UNCHANGED <<nodes, data>>
  PROVE  AskFacts' /\ nodes' \in SUBSET Stored /\ Answers' = Answers /\ UserFacts' = UserFacts
BY DEF AskTypeOK, AskFacts, UserFacts, Answers

LEMMA AnswersKeep ==
  ASSUME AskAnswers, localSigns' = localSigns, clearing' => localSigns # <<>> /\ frames' = <<>>,
         \A S \in SUBSET nodes : Recorded(S, nodes, localSigns)
                                   => S \subseteq nodes' /\ Recorded(S, nodes', localSigns)
  PROVE  AskAnswers'
<1>1. \E S \in SUBSET nodes' : Recorded(S, nodes', localSigns')
  BY DEF AskAnswers
<1> QED BY <1>1 DEF AskAnswers

LEMMA AnswersGrow ==
  ASSUME AskAnswers, localSigns' = localSigns, clearing' => localSigns # <<>> /\ frames' = <<>>,
         nodes \subseteq nodes', \A e \in nodes' \ nodes : e.by # "user"
  PROVE  AskAnswers'
<1>1. ASSUME NEW S \in SUBSET nodes, Recorded(S, nodes, localSigns)
      PROVE  S \subseteq nodes' /\ Recorded(S, nodes', localSigns)
  BY <1>1, RecordedStays
<1> QED BY <1>1, AnswersKeep

LEMMA AnswersStay ==
  ASSUME AskTypeOK, AskAnswers, localSigns' = localSigns, clearing' => localSigns # <<>> /\ frames' = <<>>,
         nodes' \subseteq nodes,
         \A d \in nodes \ nodes' : d.con # Initial \/ d.pred \notin Sign \/ localSigns = <<>>
  PROVE  AskAnswers'
<1>1. ASSUME NEW S \in SUBSET nodes, Recorded(S, nodes, localSigns)
      PROVE  S \subseteq nodes' /\ Recorded(S, nodes', localSigns)
  <2>1. localSigns \in Seq(Sign)
    BY DEF AskTypeOK
  <2>2. localSigns = <<>> <=> S = {}
    BY <1>1, <2>1, RecordedNone
  <2>3. localSigns # <<>> => Last(localSigns) \in Sign
    BY <2>1, FrontIs
  <2>4. S \subseteq nodes'
    BY <1>1, <2>2, <2>3 DEF Recorded
  <2> QED BY <1>1, <2>4, RecordedStays
<1> QED BY <1>1, AnswersKeep

(* Between two evaluations. *)
LEMMA IdleKeeps ==
  ASSUME frames' = <<>>
  PROVE  AskFrames' /\ AskNonzero'
BY DEF AskFrames, FrameIn, AskNonzero

LEMMA IdleIs ==
  ASSUME AskTemps, frames = <<>>
  PROVE  Known \cap Temp = {} /\ \A c : ~ Opened(c)
BY DEF AskTemps, Opened

(* While it is assumed that the expression is not zero it is known. *)
LEMMA HoldsInNonzero ==
  ASSUME AskTypeOK, AskDb, AskFacts, AskFrames, AskNonzero,
         NEW i \in 1 .. Len(frames), frames[i].kind = "nonzero"
  PROVE  Holds("ne")
<1>1. PICK d \in nodes : Implies(d.pred, "ne") /\ d.con \in Reach(subc, frames[i].name, activecontexts)
  BY DEF AskNonzero
<1>2. frames[i].name \in ChainIn(subc, context)
  <2>1. Len(frames) \in 1 .. Len(frames) /\ i <= Len(frames) /\ Last(frames) = frames[Len(frames)]
        /\ frames # <<>> /\ i \in 1 .. Len(frames)
    BY DEF Last, AskTypeOK
  <2> QED BY <2>1 DEF AskFrames, FrameIn
<1>3. d.con \in Reach(subc, context, activecontexts)
  BY <1>1, <1>2, DbIs, ChainOfMember DEF Reach
<1> QED BY <1>1, <1>3, DataIs, HoldsIs

LEMMA LastIn ==
  ASSUME AskTypeOK, frames # <<>>
  PROVE  /\ Len(frames) \in 1 .. Len(frames) /\ Len(frames) \in Nat \ {0}
         /\ Last(frames) = frames[Len(frames)] /\ Last(frames) \in Frame
<1>1. frames \in Seq(Frame)
  BY DEF AskTypeOK
<1>2. Len(frames) \in Nat \ {0} /\ Last(frames) = frames[Len(frames)] /\ Last(frames) \in Frame
  BY <1>1, FrontIs
<1> QED BY <1>2

LEMMA GrowNonzero ==
  ASSUME AskNonzero, frames' = frames, ContextsSame, nodes \subseteq nodes',
         \A d \in nodes' \ nodes : d.pred = "ne" => \A i \in 1 .. Len(frames) : frames[i].kind # "nonzero"
  PROVE  AskNonzero'
<1> SUFFICES ASSUME NEW i \in 1 .. Len(frames), frames[i].kind = "nonzero"
             PROVE  /\ \E d \in nodes' : /\ Implies(d.pred, "ne")
                                         /\ d.con \in Reach(subc, frames[i].name, activecontexts)
                    /\ \A d \in nodes' : d.pred = "ne" =>
                         /\ \A j \in 1 .. Len(frames) : frames[j].kind = "nonzero" => j = i
                         /\ d \in FirstOf(nodes', "ne") => d.by = "evaluator" /\ d.con = frames[i].name
  BY DEF AskNonzero, ContextsSame, Newest
<1>1. \A d \in nodes' : d.pred = "ne" => d \in nodes
  OBVIOUS
<1>2. \A d \in FirstOf(nodes', "ne") : d \in FirstOf(nodes, "ne")
  BY <1>1 DEF FirstOf
<1> QED BY <1>1, <1>2 DEF AskNonzero, Newest

Longer == /\ Len(frames) \in Nat /\ Len(frames') \in Nat /\ Len(frames) <= Len(frames')
          /\ \A i \in 1 .. Len(frames) : i \in 1 .. Len(frames') /\ frames'[i] = frames[i]

LEMMA OpenedLonger ==
  ASSUME Longer, NEW c, Opened(c)
  PROVE  Opened(c)'
BY DEF Longer, Opened

LEMMA SameLonger ==
  ASSUME AskTypeOK, frames' = frames
  PROVE  Longer
BY DEF AskTypeOK, Longer

LEMMA AppendLonger ==
  ASSUME AskTypeOK, NEW f \in Frame, frames' = Append(frames, f)
  PROVE  /\ Longer /\ frames' \in Seq(Frame) /\ frames' # <<>> /\ Len(frames') = Len(frames) + 1
         /\ frames'[Len(frames) + 1] = f /\ Last(frames') = f
         /\ \A i \in 1 .. Len(frames') : i \in 1 .. Len(frames) \/ i = Len(frames) + 1
<1> DEFINE n == Len(frames)
           m == Len(frames')
<1>1. /\ frames' \in Seq(Frame) /\ m = n + 1 /\ frames' # <<>> /\ n \in Nat
      /\ \A i \in 1 .. n : frames'[i] = frames[i]
      /\ frames'[n + 1] = f /\ Last(frames') = f
  BY AppendIs DEF AskTypeOK
<1> HIDE DEF n, m
<1>2. m \in Nat /\ n <= m /\ \A i \in 1 .. n : i \in 1 .. m
  BY <1>1
<1>3. \A i \in 1 .. m : i \in 1 .. n \/ i = n + 1
  BY <1>1
<1> QED BY <1>1, <1>2, <1>3 DEF Longer, n, m

LEMMA IdleStep ==
  ASSUME AskInv, frames = <<>>, frames' = <<>>, AskDb', AskTemps', AskFacts', AskAnswers',
         nodes' \in SUBSET Stored, localSigns' \in Seq(Sign), clearing' \in BOOLEAN
  PROVE  AskInv'
<1>1. AskFrames' /\ AskNonzero'
  BY IdleKeeps
<1>2. AskTypeOK'
  <2>1. frames' \in Seq(Frame)
    BY DEF AskInv, AskTypeOK
  <2> QED BY <2>1 DEF AskTypeOK
<1> QED BY <1>1, <1>2 DEF AskInv

(***************************************************************************)
(* The user's program.                                                     *)
(***************************************************************************)

(* A fact that the user adds says nothing that an answer says. *)
LEMMA UserAssumeIs ==
  ASSUME AskInv, Irregular = {}, NEW p \in Pred, UserAssume(p)
  PROVE  /\ AskDb' /\ ContextsSame
         /\ \/ UNCHANGED <<nodes, data>>
            \/ \E d : /\ Stores(d) /\ d.by = "user" /\ d.con \notin Temp
                      /\ \A e \in nodes : e.con = Initial => e.pred # d.pred
<1>1. /\ AskTypeOK /\ AskDb /\ AskTemps /\ frames = <<>> /\ UNCHANGED <<killing, tidy>>
      /\ Alone(p) /\ AssumeBy(p, "user")
  BY DEF AskInv, UserAssume, InProgram
<1>2. AskDb' /\ ContextsSame
  BY <1>1, AssumeIs
<1>3. ASSUME ~ Holds(p), NEW d, Stores(d), d.pred = p, d.con = context, d.by = "user"
      PROVE  d.con \notin Temp /\ \A e \in nodes : e.con = Initial => e.pred # d.pred
  <2>1. d.con \notin Temp
    BY <1>1, <1>3, IdleIs, DbIs
  <2>2. ASSUME NEW e \in nodes, e.con = Initial, e.pred = p PROVE FALSE
    <3>1. context = Initial
      BY <1>1, <2>2 DEF Alone
    <3>2. Initial \in Reach(subc, context, activecontexts)
      BY <1>1, <3>1, DbIs, ChainClosed, CtxAssumption DEF Reach
    <3> QED BY <1>1, <1>3, <2>2, <3>2, DataIs, HoldsIs DEF Implies
  <2> QED BY <1>3, <2>1, <2>2
<1> QED BY <1>1, <1>2, <1>3, AssumeIs

LEMMA UserAssumeKeeps ==
  ASSUME AskInv, Irregular = {}, NEW p \in Pred, UserAssume(p)
  PROVE  AskInv'
<1>1. /\ AskTypeOK /\ AskDb /\ AskFrames /\ AskTemps /\ AskFacts /\ AskAnswers
      /\ frames = <<>> /\ ~ clearing /\ UNCHANGED <<localSigns, frames, clearing>>
  BY DEF AskInv, UserAssume, InProgram
<1>2. AskDb' /\ ContextsSame
  BY UserAssumeIs
<1>3. AskTemps' /\ localSigns' \in Seq(Sign) /\ clearing' \in BOOLEAN
  BY <1>1, <1>2, PlacesSame DEF AskTypeOK
<1>4. CASE UNCHANGED <<nodes, data>>
  <2>1. AskFacts' /\ nodes' \in SUBSET Stored
    BY <1>1, <1>4, FactsSame
  <2>2. AskAnswers'
    BY <1>1, <1>4, AnswersGrow
  <2> QED BY <1>1, <1>2, <1>3, <2>1, <2>2, IdleStep
<1>5. ASSUME NEW d, Stores(d), d.by = "user", d.con \notin Temp,
             \A e \in nodes : e.con = Initial => e.pred # d.pred
      PROVE  AskInv'
  <2>1. AskFacts' /\ nodes' \in SUBSET Stored
    BY <1>1, <1>5, StoredFacts
  <2>2. nodes' = nodes \cup {d}
    BY <1>5 DEF Stores
  <2>3. ASSUME NEW S \in SUBSET nodes, Recorded(S, nodes, localSigns)
        PROVE  S \subseteq nodes' /\ Recorded(S, nodes', localSigns)
    <3>1. \A e \in S : e.con = Initial /\ e \in nodes
      BY <2>3 DEF Recorded
    <3> QED BY <1>5, <2>2, <2>3, <3>1, RecordedStays
  <2>4. AskAnswers'
    BY <1>1, <2>3, AnswersKeep
  <2> QED BY <1>1, <1>2, <1>3, <2>1, <2>4, IdleStep
<1> QED BY <1>4, <1>5, UserAssumeIs

LEMMA UserForgetKeeps ==
  ASSUME AskInv, Irregular = {}, NEW p \in Pred, UserForget(p)
  PROVE  AskInv'
<1>1. /\ AskTypeOK /\ AskDb /\ AskFrames /\ AskTemps /\ AskFacts /\ AskAnswers
      /\ frames = <<>> /\ ~ clearing /\ UNCHANGED <<localSigns, frames, clearing, killing, tidy>>
      /\ UNCHANGED <<lists, context, current, subc, cmark>>
      /\ localSigns = <<>> /\ Forgotten(p, context)
  BY DEF AskInv, UserForget, InProgram, NotMidway
<1>2. context \in Known /\ context \in Ctx /\ ContextsSame
  BY <1>1, DbIs DEF lists, ContextsSame
<1>3. /\ Shrinks /\ nodes' \subseteq Fact /\ nodes' \subseteq nodes
      /\ \A b \in Ctx \ {context} : data'[b] = data[b]
  BY <1>1, <1>2, ForgottenShrinks DEF Shrinks
<1>4. AskFacts' /\ nodes' \in SUBSET Stored
  BY <1>1, <1>3, ShrunkFacts
<1>5. AskDb'
  BY <1>1, <1>2, <1>3, FactsDb DEF lists, Shrinks
<1>6. AskTemps' /\ localSigns' \in Seq(Sign) /\ clearing' \in BOOLEAN
  BY <1>1, <1>2, PlacesSame DEF AskTypeOK
<1>7. AskAnswers'
  BY <1>1, <1>3, AnswersStay
<1> QED BY <1>1, <1>4, <1>5, <1>6, <1>7, IdleStep

(* What the user does with contexts leaves the temporary ones alone. *)
LEMMA UserContextPlaces ==
  ASSUME AskDb, AskTemps, Known \cap Temp = {}, UNCHANGED <<killing, tidy>>, NEW c \in UserName,
         \/ Select(c) \/ Newcontext(c) \/ Activate(c) \/ Deactivate(c)
         \/ KillcontextRefused(c) \/ KillcontextFails(c)
         \/ \E sub \in UserName : Supcontext(c, sub)
  PROVE  AskDb' /\ AskTemps' /\ UNCHANGED <<nodes, data>>
<1> USE DEF UserName
<1>d. data \in [Ctx -> SUBSET Fact] /\ nodes \subseteq Fact /\ context \in Known /\ killing = <<>>
  BY DbIs DEF AskDb
<1>t. ASSUME Known' \cap Temp = {}, \A b \in Known' : subc'[b] \notin Temp, activecontexts' \cap Temp = {}
      PROVE  AskTemps'
  BY <1>t DEF AskTemps
<1>o. (\A b \in Known : subc[b] \notin Temp) /\ activecontexts \cap Temp = {}
  BY DEF AskTemps
<1>1. CASE Select(c)
  <2>1. AskDb'
    BY <1>1, <1>d, FactsDb DEF Select, lists
  <2>2. Known' = Known /\ subc' = subc /\ activecontexts' = activecontexts /\ UNCHANGED <<nodes, data>>
    BY <1>1 DEF Select, lists, Known
  <2> QED BY <1>t, <1>o, <2>1, <2>2
<1>2. ASSUME NEW sub \in Known, Create(c, sub)
      PROVE  AskDb' /\ AskTemps' /\ UNCHANGED <<nodes, data>>
  <2>1. /\ AskDb' /\ Known' = Known \cup {c} /\ c \notin Known
        /\ subc'[c] = sub /\ \A b \in Ctx \ {c} : subc'[b] = subc[b]
        /\ UNCHANGED <<activecontexts, data, nodes>>
    BY <1>2, CreateDb
  <2>2. \A b \in Known' : subc'[b] \notin Temp
    BY <1>o, <2>1, DbIs
  <2> QED BY <1>t, <1>o, <2>1, <2>2
<1>3. CASE Newcontext(c)
  BY <1>2, <1>3, DbIs DEF Newcontext
<1>4. CASE \E sub \in UserName : Supcontext(c, sub)
  <2>1. PICK sub : sub \in Known /\ Create(c, sub)
    BY <1>4, <1>d DEF Supcontext
  <2> QED BY <1>2, <2>1
<1>5. CASE Activate(c)
  <2>1. OrderSame /\ UNCHANGED <<nodes, data>> /\ tidy' = tidy /\ Known' = Known /\ subc' = subc
        /\ activecontexts' = activecontexts \cup {c}
    BY <1>5 DEF Activate, OrderSame, Known
  <2>2. AskDb'
    BY <1>5, <2>1, ActivateKeeps, DbStep, DbIs
  <2> QED BY <1>t, <1>o, <2>1, <2>2
<1>6. CASE Deactivate(c)
  <2>1. OrderSame /\ UNCHANGED <<nodes, data>> /\ tidy' = tidy /\ Known' = Known /\ subc' = subc
        /\ activecontexts' = activecontexts \ {c}
    BY <1>6 DEF Deactivate, OrderSame, Known
  <2>2. AskDb'
    BY <1>6, <2>1, DeactivateKeeps, DbStep, DbIs
  <2> QED BY <1>t, <1>o, <2>1, <2>2
<1>7. CASE KillcontextRefused(c) \/ KillcontextFails(c)
  <2>1. Clear /\ UNCHANGED <<nodes, data>>
    BY <1>7 DEF KillcontextRefused, KillcontextFails, Deduce
  <2>2. AskDb' /\ UNCHANGED <<userContexts, activecontexts, context, subc>>
    BY <1>d, <2>1, DeduceDb
  <2>3. Known' = Known
    BY <2>2 DEF Known
  <2> QED BY <1>t, <1>o, <2>1, <2>2, <2>3
<1> QED BY <1>1, <1>3, <1>4, <1>5, <1>6, <1>7

(* A context, or what initial holds, is gone. *)
LEMMA GoneKeeps ==
  ASSUME AskInv, frames = <<>>, frames' = <<>>, AskDb', AskTemps',
         NEW c \in Known, data' = [data EXCEPT ![c] = {}], nodes' = nodes \ (data[c] \ Composite),
         c # Initial \/ localSigns = <<>>, UNCHANGED <<localSigns, clearing>>, ~ clearing
  PROVE  AskInv'
<1>1. AskTypeOK /\ AskDb /\ AskFacts /\ AskAnswers /\ c \in Ctx
  BY DbIs DEF AskInv
<1>2. Shrinks /\ \A d \in nodes \ nodes' : d.con = c
  BY <1>1, DbIs DEF Shrinks, AskFacts
<1>3. AskFacts' /\ nodes' \in SUBSET Stored
  BY <1>1, <1>2, ShrunkFacts
<1>4. AskAnswers'
  BY <1>1, <1>2, AnswersStay DEF Shrinks
<1>5. localSigns' \in Seq(Sign) /\ clearing' \in BOOLEAN
  BY <1>1 DEF AskTypeOK
<1> QED BY <1>3, <1>4, <1>5, IdleStep

(* What becomes of the facts. *)
LEMMA UserContextIs ==
  ASSUME AskInv, Irregular = {}, UserContext
  PROVE  /\ AskDb' /\ AskTemps'
         /\ \/ UNCHANGED <<nodes, data>>
            \/ \E c \in Known : /\ c # Initial \/ localSigns = <<>>
                                /\ data' = [data EXCEPT ![c] = {}]
                                /\ nodes' = nodes \ (data[c] \ Composite)
<1>1. /\ AskDb /\ AskFrames /\ AskTemps /\ frames = <<>> /\ UNCHANGED <<frames, killing, tidy>>
      /\ Known \cap Temp = {}
  BY IdleIs DEF AskInv, UserContext, InProgram
<1>2. ASSUME NEW c \in UserName,
             \/ Select(c) \/ Newcontext(c) \/ Activate(c) \/ Deactivate(c)
             \/ KillcontextRefused(c) \/ KillcontextFails(c)
             \/ \E sub \in UserName : Supcontext(c, sub)
      PROVE  AskDb' /\ AskTemps' /\ UNCHANGED <<nodes, data>>
  BY <1>1, <1>2, UserContextPlaces
<1>3. ASSUME NEW c \in UserName, \A d \in Known : subc[d] # c, Killcontext(c)
      PROVE  /\ AskDb' /\ AskTemps' /\ c \in Known /\ c # Initial
             /\ data' = [data EXCEPT ![c] = {}] /\ nodes' = nodes \ (data[c] \ Composite)
  <2>1. c \in Ctx /\ c \notin Temp
    BY <1>3 DEF UserName
  <2>2. /\ AskDb' /\ Known' = Known \ {c} /\ c \in Known \ {Global, Initial}
        /\ activecontexts' = activecontexts \ {c}
        /\ \A d \in Ctx \ {c} : subc'[d] = subc[d]
        /\ data' = [data EXCEPT ![c] = {}] /\ nodes' = nodes \ (data[c] \ Composite)
    BY <1>1, <1>3, <2>1, KillDb
  <2>3. AskTemps'
    BY <1>1, <2>1, <2>2, DbIs DEF AskTemps
  <2> QED BY <2>2, <2>3
<1>4. CASE NotMidway /\ KillcontextInitial
  <2>1. UNCHANGED <<lists, context, current, subc, cmark>> /\ data' = [data EXCEPT ![Initial] = {}]
        /\ localSigns = <<>> /\ nodes' = nodes \ (data[Initial] \ Composite)
    BY <1>4 DEF NotMidway, KillcontextInitial, Emptied
  <2>2. /\ data' \in [Ctx -> SUBSET Fact] /\ nodes' \subseteq Fact
        /\ \A c \in Ctx \ {Initial} : data'[c] = data[c]
    BY <1>1, <2>1, DbIs
  <2>3. AskDb'
    BY <1>1, <2>1, <2>2, FactsDb, DbIs DEF lists
  <2>4. AskTemps'
    BY <1>1, <2>1, PlacesSame DEF lists, ContextsSame
  <2> QED BY <1>1, <2>1, <2>3, <2>4, DbIs
<1> QED BY <1>2, <1>3, <1>4 DEF UserContext

LEMMA UserContextKeeps ==
  ASSUME AskInv, Irregular = {}, UserContext
  PROVE  AskInv'
<1>1. /\ AskTypeOK /\ AskFacts /\ AskAnswers
      /\ frames = <<>> /\ ~ clearing /\ UNCHANGED <<localSigns, frames, clearing>>
  BY DEF AskInv, UserContext, InProgram
<1>2. AskDb' /\ AskTemps'
  BY UserContextIs
<1>3. CASE UNCHANGED <<nodes, data>>
  <2>1. AskFacts' /\ nodes' \in SUBSET Stored
    BY <1>1, <1>3, FactsSame
  <2>2. AskAnswers'
    BY <1>1, <1>3, AnswersGrow
  <2>3. localSigns' \in Seq(Sign) /\ clearing' \in BOOLEAN
    BY <1>1 DEF AskTypeOK
  <2> QED BY <1>1, <1>2, <2>1, <2>2, <2>3, IdleStep
<1>4. ASSUME NEW c \in Known, c # Initial \/ localSigns = <<>>,
             data' = [data EXCEPT ![c] = {}], nodes' = nodes \ (data[c] \ Composite)
      PROVE  AskInv'
  BY <1>1, <1>2, <1>4, GoneKeeps
<1> QED BY <1>3, <1>4, UserContextIs

(***************************************************************************)
(* The evaluator.                                                          *)
(***************************************************************************)

LEMMA SignKnownKeeps ==
  ASSUME AskInv, SignKnown
  PROVE  AskInv'
<1>1. /\ AskTypeOK /\ AskDb /\ AskFrames /\ AskTemps /\ AskFacts /\ AskAnswers /\ AskNonzero
      /\ Clear /\ UNCHANGED <<data, nodes, localSigns, frames, clearing, killing, tidy>>
  BY DEF AskInv, SignKnown, Deduce
<1>2. AskDb' /\ ContextsSame
  BY <1>1, DeduceDb, DbIs DEF ContextsSame
<1>3. AskTypeOK' /\ AskFacts'
  BY <1>1, FactsSame DEF AskTypeOK
<1>4. AskAnswers'
  BY <1>1, AnswersGrow DEF AskAnswers
<1>5. AskFrames' /\ AskTemps'
  BY <1>1, <1>2, PlacesSame
<1>6. AskNonzero'
  BY <1>1, <1>2, GrowNonzero
<1> QED BY <1>2, <1>3, <1>4, <1>5, <1>6 DEF AskInv

(* A further answer, newer than every fact. *)
LEMMA AskIs ==
  ASSUME AskInv, NEW s \in Sign, Ask(s)
  PROVE  /\ \E d : Stores(d) /\ d.pred = s /\ d.con = Initial /\ d.by = "answer"
         /\ Clear /\ localSigns' = Append(localSigns, s) /\ data' \in [Ctx -> SUBSET Fact]
         /\ nodes' \subseteq Fact /\ \A c \in Ctx \ {Initial} : data'[c] = data[c]
<1> DEFINE d == NewFact(s, Initial, "answer")
<1>1. /\ AskTypeOK /\ AskDb /\ d \in Fact /\ data' = [data EXCEPT ![Initial] = @ \cup {d}]
      /\ nodes' = nodes \cup {d} /\ Clear /\ localSigns' = Append(localSigns, s)
  BY DEF AskInv, Ask
<1>2. /\ d \in Stored /\ d.pred = s /\ d.con = Initial /\ d.by = "answer"
      /\ \A e \in nodes : e.id < d.id
  BY <1>1, DataIs, NewFactIs
<1> HIDE DEF d
<1>3. Stores(d)
  BY <1>1, <1>2 DEF Stores
<1>4. /\ data' \in [Ctx -> SUBSET Fact] /\ nodes' \subseteq Fact
      /\ \A c \in Ctx \ {Initial} : data'[c] = data[c]
  BY <1>1, DbIs
<1> QED BY <1>1, <1>2, <1>3, <1>4

(* It is one more of those to be taken back. *)
LEMMA AskRecorded ==
  ASSUME AskInv, NEW s \in Sign, Ask(s), NEW d, Stores(d), d.pred = s, d.con = Initial, d.by = "answer",
         NEW S, Recorded(S, nodes, localSigns)
  PROVE  AllSame(localSigns') /\ Recorded(S \cup {d}, nodes', localSigns')
<1>1. /\ localSigns \in Seq(Sign) /\ AllSame(localSigns) /\ (localSigns # <<>> => s = Last(localSigns))
      /\ localSigns' = Append(localSigns, s) /\ nodes \in SUBSET Stored
  BY DEF AskInv, Ask, AskTypeOK, AskAnswers
<1>2. nodes' = nodes \cup {d} /\ d \notin nodes /\ \A e \in nodes : e.id < d.id
  BY <1>1 DEF Stores, Stored
<1>3. AllSame(Append(localSigns, s)) /\ Recorded(S \cup {d}, nodes \cup {d}, Append(localSigns, s))
  BY <1>1, <1>2, RecordedAppend
<1> QED BY <1>1, <1>2, <1>3

LEMMA AskKeeps ==
  ASSUME AskInv, NEW s \in Sign, Ask(s)
  PROVE  AskInv'
<1>1. /\ AskTypeOK /\ AskDb /\ AskFrames /\ AskTemps /\ AskFacts /\ AskAnswers /\ AskNonzero
      /\ ~ clearing /\ UNCHANGED <<killing, tidy, frames, clearing>>
  BY DEF AskInv, Ask
<1>2. PICK d : Stores(d) /\ d.pred = s /\ d.con = Initial /\ d.by = "answer"
  BY AskIs
<1>3. AskDb' /\ ContextsSame
  BY <1>1, AskIs, DeduceDb, DbIs DEF ContextsSame
<1>4. AskFacts' /\ nodes' \in SUBSET Stored
  BY <1>1, <1>2, StoredFacts
<1>5. AskTypeOK'
  <2>1. localSigns' \in Seq(Sign)
    BY <1>1, AskIs, AppendIs DEF AskTypeOK
  <2> QED BY <1>1, <1>4, <2>1 DEF AskTypeOK
<1>6. AskAnswers'
  <2>1. PICK S \in SUBSET nodes : Recorded(S, nodes, localSigns)
    BY <1>1 DEF AskAnswers
  <2>2. AllSame(localSigns') /\ Recorded(S \cup {d}, nodes', localSigns')
    BY <1>2, <2>1, AskRecorded
  <2>3. S \cup {d} \in SUBSET nodes'
    BY <1>2 DEF Stores
  <2> QED BY <1>1, <2>2, <2>3 DEF AskAnswers
<1>7. AskFrames' /\ AskTemps'
  BY <1>1, <1>3, PlacesSame
<1>8. AskNonzero'
  <2>1. nodes \subseteq nodes' /\ \A e \in nodes' \ nodes : e.pred # "ne"
    BY <1>2 DEF Stores, Sign
  <2> QED BY <1>1, <1>3, <2>1, GrowNonzero
<1> QED BY <1>3, <1>4, <1>5, <1>6, <1>7, <1>8 DEF AskInv

(* with-new-context assumes. *)
LEMMA LocalAssumeIs ==
  ASSUME AskInv, NEW p \in Pred, LocalAssume(p)
  PROVE  /\ AskDb' /\ ContextsSame
         /\ \/ UNCHANGED <<nodes, data>>
            \/ \E d : /\ Stores(d) /\ d.by = "evaluator" /\ Opened(d.con)
                      /\ d.pred = "ne" => \A i \in 1 .. Len(frames) : frames[i].kind # "nonzero"
<1>1. /\ AskTypeOK /\ AskDb /\ AskFrames /\ AskFacts /\ AskNonzero
      /\ frames # <<>> /\ Last(frames).kind = "context" /\ AssumeBy(p, "evaluator")
      /\ UNCHANGED <<killing, tidy>>
  BY DEF AskInv, LocalAssume
<1>2. AskDb' /\ ContextsSame
  BY <1>1, AssumeIs
<1>3. Opened(context)
  <2>1. Len(frames) \in 1 .. Len(frames) /\ Last(frames) = frames[Len(frames)]
    BY <1>1, LastIn
  <2> QED BY <1>1, <2>1 DEF AskFrames, FrameIn, Opened
<1>4. ~ Holds("ne") => \A i \in 1 .. Len(frames) : frames[i].kind # "nonzero"
  BY <1>1, HoldsInNonzero
<1> QED BY <1>1, <1>2, <1>3, <1>4, AssumeIs

LEMMA LocalAssumeKeeps ==
  ASSUME AskInv, NEW p \in Pred, LocalAssume(p)
  PROVE  AskInv'
<1>1. /\ AskTypeOK /\ AskDb /\ AskFrames /\ AskTemps /\ AskFacts /\ AskAnswers /\ AskNonzero
      /\ ~ clearing /\ UNCHANGED <<localSigns, frames, clearing>>
  BY DEF AskInv, LocalAssume
<1>2. AskDb' /\ ContextsSame
  BY LocalAssumeIs
<1>3. AskFrames' /\ AskTemps'
  BY <1>1, <1>2, PlacesSame
<1>4. CASE UNCHANGED <<nodes, data>>
  <2>1. AskTypeOK' /\ AskFacts'
    BY <1>1, <1>4, FactsSame DEF AskTypeOK
  <2>2. AskAnswers' /\ AskNonzero'
    BY <1>1, <1>2, <1>4, AnswersGrow, GrowNonzero
  <2> QED BY <1>2, <1>3, <2>1, <2>2 DEF AskInv
<1>5. ASSUME NEW d, Stores(d), d.by = "evaluator",
             d.pred = "ne" => \A i \in 1 .. Len(frames) : frames[i].kind # "nonzero"
      PROVE  AskInv'
  <2>1. AskFacts' /\ nodes' \in SUBSET Stored
    BY <1>1, <1>5, StoredFacts
  <2>2. AskTypeOK'
    BY <1>1, <2>1 DEF AskTypeOK
  <2>3. nodes \subseteq nodes' /\ \A e \in nodes' \ nodes : e = d
    BY <1>5 DEF Stores
  <2>4. AskAnswers' /\ AskNonzero'
    BY <1>1, <1>2, <1>5, <2>3, AnswersGrow, GrowNonzero
  <2> QED BY <1>2, <1>3, <2>1, <2>2, <2>4 DEF AskInv
<1> QED BY <1>4, <1>5, LocalAssumeIs

LEMMA FramePlaces ==
  ASSUME AskTypeOK, AskDb, AskFrames, NEW i \in 1 .. Len(frames)
  PROVE  /\ frames[i].name \in Known /\ frames[i].before \in Known
         /\ frames[i].kind \in {"context", "nonzero"}
<1>0. frames[i] \in Frame
  BY DEF AskTypeOK
<1>1. frames[i] \in Frame /\ frames[i].kind \in {"context", "nonzero"}
  BY <1>0 DEF Frame
<1>2. CASE frames[i].kind = "nonzero"
  BY <1>1, <1>2 DEF AskFrames, FrameIn
<1>3. CASE frames[i].kind = "context"
  <2>1. /\ frames[i].name \in Known /\ frames[i].name \in Temp
        /\ subc[frames[i].name] = frames[i].before
    BY <1>3 DEF AskFrames, FrameIn
  <2> QED BY <1>1, <2>1, DbIs, AskAssumption
<1> QED BY <1>1, <1>2, <1>3

(* with-new-context begins. *)
LEMMA EnterContextKeeps ==
  ASSUME AskInv, Irregular = {}, NEW c \in Temp, EnterContext(c)
  PROVE  AskInv'
<1> DEFINE f == [kind |-> "context", name |-> c, before |-> context]
           n == Len(frames)
<1>1. /\ AskTypeOK /\ AskDb /\ AskFrames /\ AskTemps /\ AskFacts /\ AskAnswers /\ AskNonzero
      /\ ~ clearing /\ context # Global /\ Supcontext(c, context) /\ frames' = Append(frames, f)
      /\ UNCHANGED <<killing, tidy, localSigns, clearing>>
  BY DEF AskInv, EnterContext
<1>2. c \in Ctx /\ context \in Known /\ context \in Ctx /\ Create(c, context)
  BY <1>1, DbIs, AskAssumption DEF Supcontext
<1>3. /\ AskDb' /\ Known' = Known \cup {c} /\ c \notin Known /\ context' = c
      /\ subc'[c] = context /\ \A d \in Ctx \ {c} : subc'[d] = subc[d]
      /\ UNCHANGED <<activecontexts, data, nodes>>
      /\ \A d \in Known : ChainIn(subc', d) = ChainIn(subc, d)
      /\ c \in ChainIn(subc', c) /\ ChainIn(subc, context) \subseteq ChainIn(subc', c)
  BY <1>1, <1>2, CreateDb
<1>4. f \in Frame /\ f.kind = "context" /\ f.name = c /\ f.before = context
  BY <1>2 DEF Frame
<1> HIDE DEF f
<1>5. /\ Longer /\ frames' \in Seq(Frame) /\ frames' # <<>> /\ Len(frames') = n + 1
      /\ frames'[n + 1] = f /\ Last(frames') = f
      /\ \A i \in 1 .. Len(frames') : i \in 1 .. n \/ i = n + 1
  BY <1>1, <1>4, AppendLonger
<1>6. n \in Nat /\ n + 1 \in 1 .. Len(frames') /\ \A i \in 1 .. n : frames'[i] = frames[i]
  BY <1>5 DEF Longer
<1>7. \A i \in 1 .. n : frames[i].name \in Known /\ frames[i].before \in Known
  BY <1>1, FramePlaces
<1>8. AskFrames'
  <2>1. ASSUME NEW i \in 1 .. n, NEW j \in 1 .. i
        PROVE  /\ frames'[j] = frames[j] /\ frames'[j].name \in ChainIn(subc', frames'[i].name)
               /\ frames'[i].kind = "context" => frames'[j].before # frames'[i].name
               /\ frames'[i].kind = "context" /\ j < i => frames'[j].name # frames'[i].name
    <3>1. j \in 1 .. n
      BY <1>6
    <3> QED BY <1>1, <1>3, <1>6, <1>7, <3>1 DEF AskFrames, FrameIn
  <2>2. ASSUME NEW i \in 1 .. n
        PROVE  /\ frames'[i].name \in Known'
               /\ i > 1 => frames'[i].before = frames'[i - 1].name
               /\ frames'[i].kind = "nonzero" => frames'[i].name = frames'[i].before
               /\ frames'[i].kind = "context" => /\ frames'[i].name \in Temp
                                                 /\ subc'[frames'[i].name] = frames'[i].before
                                                 /\ frames'[i].before # Global
    <3>1. frames'[i] = frames[i] /\ frames[i].name # c /\ frames[i].name \in Known
      BY <1>3, <1>6, <1>7
    <3>2. i > 1 => frames'[i - 1] = frames[i - 1]
      BY <1>6
    <3>3. subc'[frames[i].name] = subc[frames[i].name]
      BY <1>1, <1>3, <3>1, DbIs
    <3> QED BY <1>1, <1>3, <3>1, <3>2, <3>3 DEF AskFrames, FrameIn
  <2>3. ASSUME NEW j \in 1 .. n + 1
        PROVE  /\ frames'[j].name \in ChainIn(subc', c) /\ frames'[j].before # c
               /\ j < n + 1 => frames'[j].name # c
    <3>1. CASE j \in 1 .. n
      <4>1. frames # <<>> /\ n \in 1 .. n /\ frames[n].name = context
        <5>1. frames # <<>>
          BY <1>6, <3>1, EmptySeq DEF AskTypeOK
        <5> QED BY <1>1, <5>1, LastIn DEF AskFrames, FrameIn
      <4>2. frames[j].name \in ChainIn(subc, context)
        <5>1. j \in 1 .. n /\ n \in 1 .. n /\ \A i \in 1 .. n : \A k \in 1 .. i :
                frames[k].name \in ChainIn(subc, frames[i].name)
          BY <1>1, <3>1, <4>1 DEF AskFrames, FrameIn
        <5> QED BY <4>1, <5>1
      <4> QED BY <1>3, <1>6, <1>7, <3>1, <4>2
    <3>2. CASE j = n + 1
      BY <1>2, <1>3, <1>4, <1>5, <1>6, <3>2
    <3> QED BY <1>6, <3>1, <3>2
  <2>4. n + 1 > 1 => frames'[n + 1].before = frames'[n].name
    <3> SUFFICES ASSUME n > 0 PROVE context = frames[n].name /\ n \in 1 .. n
      BY <1>4, <1>5, <1>6
    <3>1. frames # <<>>
      BY EmptySeq DEF AskTypeOK
    <3> QED BY <1>1, <3>1, LastIn DEF AskFrames, FrameIn
  <2>5. ASSUME NEW i \in 1 .. n PROVE FrameIn(frames', Known', subc', i)
    BY <2>1, <2>2 DEF FrameIn
  <2>6. (n + 1) - 1 = n
    BY <1>6
  <2>7. FrameIn(frames', Known', subc', n + 1)
    <3> DEFINE m == n + 1
    <3>1. /\ frames'[m].kind = "context" /\ frames'[m].name = c /\ frames'[m].before = context
          /\ m - 1 = n
      BY <1>4, <1>5, <2>6
    <3>2. \A j \in 1 .. m : /\ frames'[j].name \in ChainIn(subc', c) /\ frames'[j].before # c
                            /\ j < m => frames'[j].name # c
      BY <2>3
    <3>3. m > 1 => context = frames'[m - 1].name
      BY <2>4, <3>1
    <3>4. c \in Known' /\ c \in Temp /\ subc'[c] = context /\ context # Global
      BY <1>1, <1>3
    <3> HIDE DEF m, n
    <3>5. FrameIn(frames', Known', subc', m)
      BY ONLY <3>1, <3>2, <3>3, <3>4 DEF FrameIn
    <3> QED BY <3>5 DEF m
  <2>8. frames' # <<>> => context' = Last(frames').name
    BY <1>3, <1>4, <1>5
  <2>9. \A i \in 1 .. Len(frames') : FrameIn(frames', Known', subc', i)
    <3> SUFFICES ASSUME NEW i \in 1 .. Len(frames') PROVE FrameIn(frames', Known', subc', i)
      OBVIOUS
    <3>1. i \in 1 .. n \/ i = n + 1
      BY <1>5
    <3>2. CASE i \in 1 .. n
      BY <2>5, <3>2
    <3>3. CASE i = n + 1
      BY <2>7, <3>3
    <3> QED BY <3>1, <3>2, <3>3
  <2> QED BY <2>8, <2>9 DEF AskFrames
<1>9. AskTemps'
  <2>1. Opened(c)'
    BY <1>4, <1>5, <1>6 DEF Opened
  <2>2. \A b \in Known' \cap Temp : Opened(b)'
    BY <1>1, <1>3, <1>5, <2>1, OpenedLonger DEF AskTemps
  <2>3. \A b \in Known' \ Temp : subc'[b] \notin Temp
    BY <1>1, <1>3, DbIs DEF AskTemps
  <2> QED BY <1>1, <1>3, <2>2, <2>3 DEF AskTemps
<1>10. AskTypeOK' /\ AskFacts'
  BY <1>1, <1>3, <1>5, FactsSame DEF AskTypeOK
<1>11. AskAnswers'
  BY <1>1, <1>3, AnswersGrow
<1>12. AskNonzero'
  <2>1. \A i \in 1 .. n : Reach(subc', frames[i].name, activecontexts) = Reach(subc, frames[i].name, activecontexts)
    BY <1>1, <1>3, <1>7, DbIs DEF Reach
  <2>2. \A i \in 1 .. Len(frames') : frames'[i].kind = "nonzero" => i \in 1 .. n /\ frames[i].kind = "nonzero" /\ frames'[i] = frames[i]
    BY <1>4, <1>5, <1>6
  <2> QED BY <1>1, <1>3, <2>1, <2>2 DEF AskNonzero, Newest
<1> QED BY <1>3, <1>8, <1>9, <1>10, <1>11, <1>12 DEF AskInv

(* The innermost frame is left; what the other ones selected is still there. *)
LEMMA FrontFrames ==
  ASSUME AskTypeOK, AskDb, AskFrames, frames # <<>>, frames' = Front(frames),
         context' = Last(frames).before,
         \A i \in 1 .. Len(frames) - 1 :
            /\ frames[i].name \in Known' /\ subc'[frames[i].name] = subc[frames[i].name]
            /\ ChainIn(subc', frames[i].name) = ChainIn(subc, frames[i].name)
  PROVE  /\ AskFrames' /\ frames' \in Seq(Frame) /\ Len(frames') = Len(frames) - 1
         /\ Len(frames) \in 1 .. Len(frames) /\ Last(frames) = frames[Len(frames)]
         /\ \A i \in 1 .. Len(frames') : i \in 1 .. Len(frames) /\ i # Len(frames) /\ frames'[i] = frames[i]
         /\ \A i \in 1 .. Len(frames) : i \in 1 .. Len(frames') \/ i = Len(frames)
<1> DEFINE n == Len(frames)
           m == Len(frames')
<1>1. /\ n \in Nat \ {0} /\ frames' \in Seq(Frame) /\ m = n - 1
      /\ \A i \in 1 .. n - 1 : frames'[i] = frames[i]
      /\ Last(frames) = frames[n]
  BY FrontIs DEF AskTypeOK
<1>2. frames' # <<>> => m > 0 /\ Last(frames') = frames'[m]
  BY <1>1, EmptySeq DEF Last
<1>3. \A i \in 1 .. n : FrameIn(frames, Known, subc, i)
  BY DEF AskFrames
<1>4. \A i \in 1 .. n - 1 :
         /\ frames[i].name \in Known' /\ subc'[frames[i].name] = subc[frames[i].name]
         /\ ChainIn(subc', frames[i].name) = ChainIn(subc, frames[i].name)
  OBVIOUS
<1>c. context' = frames[n].before
  BY <1>1
<1> HIDE DEF n, m
<1>5. /\ m \in Nat /\ n \in 1 .. n /\ m + 1 = n
      /\ \A i \in 1 .. m : i \in 1 .. n /\ i # n /\ i \in 1 .. n - 1
      /\ \A i \in 1 .. n : i \in 1 .. m \/ i = n
  BY <1>1
<1>6. \A i \in 1 .. m : frames'[i] = frames[i]
  BY <1>1, <1>5
<1>7. ASSUME NEW i \in 1 .. m PROVE FrameIn(frames', Known', subc', i)
  <2>1. \A j \in 1 .. i : j \in 1 .. m
    BY <1>5
  <2>2. i > 1 => i - 1 \in 1 .. m
    BY <1>5
  <2>3. /\ FrameIn(frames, Known, subc, i) /\ frames[i].name \in Known'
        /\ subc'[frames[i].name] = subc[frames[i].name]
        /\ ChainIn(subc', frames[i].name) = ChainIn(subc, frames[i].name)
    BY <1>3, <1>4, <1>5
  <2>4. frames'[i] = frames[i] /\ (\A j \in 1 .. i : frames'[j] = frames[j])
        /\ (i > 1 => frames'[i - 1] = frames[i - 1])
    BY <1>6, <2>1, <2>2
  <2> QED BY ONLY <2>3, <2>4 DEF FrameIn
<1>8. frames' # <<>> => context' = Last(frames').name
  <2> SUFFICES ASSUME frames' # <<>> PROVE context' = frames'[m].name
    BY <1>2
  <2>1. m > 0 /\ m \in 1 .. m /\ n > 1 /\ n - 1 = m
    BY <1>2, <1>5
  <2>2. frames[n].before = frames[n - 1].name
    BY <1>3, <1>5, <2>1 DEF FrameIn
  <2> QED BY <1>c, <1>6, <2>1, <2>2
<1>9. AskFrames'
  BY <1>7, <1>8 DEF AskFrames, m
<1> QED BY <1>1, <1>5, <1>6, <1>9 DEF n, m

(* with-new-context ends. *)
LEMMA LeaveContextIs ==
  ASSUME AskInv, LeaveContext, NEW c, c = Last(frames).name
  PROVE  /\ c \in Known \ {Global, Initial} /\ c \in Temp
         /\ AskDb' /\ Known' = Known \ {c} /\ activecontexts' = activecontexts
         /\ \A d \in Ctx \ {c} : subc'[d] = subc[d]
         /\ data' = [data EXCEPT ![c] = {}] /\ nodes' = nodes \ (data[c] \ Composite)
         /\ \A d \in Known \ {c} : ChainIn(subc', d) = ChainIn(subc, d) /\ c \notin ChainIn(subc, d)
         /\ AskFrames' /\ frames' \in Seq(Frame)
         /\ frames[Len(frames)].kind = "context" /\ frames[Len(frames)].name = c
         /\ \A i \in 1 .. Len(frames) : i # Len(frames) => frames[i].name \in Known \ {c}
         /\ \A i \in 1 .. Len(frames') : i \in 1 .. Len(frames) /\ i # Len(frames) /\ frames'[i] = frames[i]
         /\ \A i \in 1 .. Len(frames) : i \in 1 .. Len(frames') \/ i = Len(frames)
<1> DEFINE n == Len(frames)
<1>1. /\ AskTypeOK /\ AskDb /\ AskFrames /\ AskTemps
      /\ frames # <<>> /\ Last(frames).kind = "context"
      /\ Killcontext(c) /\ frames' = Front(frames) /\ UNCHANGED <<killing, tidy>>
  BY DEF AskInv, LeaveContext
<1>2. n \in 1 .. n /\ n \in Nat \ {0} /\ Last(frames) = frames[n] /\ frames[n].kind = "context" /\ c = frames[n].name
  BY <1>1, LastIn
<1>3. FrameIn(frames, Known, subc, n)
  BY <1>1, <1>2 DEF AskFrames
<1>4. /\ c \in Known /\ c \in Temp /\ c \in Ctx /\ subc[c] = frames[n].before /\ frames[n].before # Global
      /\ context = c
      /\ \A j \in 1 .. n : frames[j].before # c /\ (j # n => frames[j].name # c)
  <2>1. \A j \in 1 .. n : j # n => j < n
    BY <1>2
  <2>2. context = c
    BY <1>1 DEF AskFrames
  <2> QED BY <1>1, <1>2, <1>3, <2>1, <2>2, AskAssumption DEF FrameIn
<1>5. \A d \in Known : subc[d] # c
  <2>1. ASSUME NEW d \in Known, d \in Temp PROVE subc[d] # c
    <3>1. PICK i \in 1 .. n : frames[i].kind = "context" /\ frames[i].name = d
      BY <1>1, <2>1 DEF AskTemps, Opened
    <3>2. subc[d] = frames[i].before
      BY <1>1, <3>1 DEF AskFrames, FrameIn
    <3> QED BY <1>4, <3>2
  <2> QED BY <1>1, <1>4, <2>1 DEF AskTemps
<1>6. /\ AskDb' /\ Known' = Known \ {c} /\ c \in Known \ {Global, Initial}
      /\ activecontexts' = activecontexts \ {c} /\ context' = NextContext(c)
      /\ \A d \in Ctx \ {c} : subc'[d] = subc[d]
      /\ data' = [data EXCEPT ![c] = {}] /\ nodes' = nodes \ (data[c] \ Composite)
      /\ \A d \in Known \ {c} : ChainIn(subc', d) = ChainIn(subc, d) /\ c \notin ChainIn(subc, d)
  BY <1>1, <1>4, <1>5, KillDb
<1>7. /\ context' = Last(frames).before /\ activecontexts' = activecontexts
  BY <1>1, <1>2, <1>4, <1>6 DEF NextContext, AskTemps
<1>8. \A i \in 1 .. n : i # n => frames[i].name \in Known \ {c} /\ frames[i].name \in Ctx
  BY <1>1, <1>4, FramePlaces, DbIs
<1>9. /\ AskFrames' /\ frames' \in Seq(Frame) /\ Len(frames') = Len(frames) - 1
      /\ Len(frames) \in 1 .. Len(frames) /\ Last(frames) = frames[Len(frames)]
      /\ \A i \in 1 .. Len(frames') : i \in 1 .. Len(frames) /\ i # Len(frames) /\ frames'[i] = frames[i]
      /\ \A i \in 1 .. Len(frames) : i \in 1 .. Len(frames') \/ i = Len(frames)
  <2>1. \A i \in 1 .. n - 1 : i \in 1 .. n /\ i # n
    BY <1>2
  <2>2. \A i \in 1 .. n - 1 :
          /\ frames[i].name \in Known' /\ subc'[frames[i].name] = subc[frames[i].name]
          /\ ChainIn(subc', frames[i].name) = ChainIn(subc, frames[i].name)
    BY <1>6, <1>8, <2>1
  <2> QED BY <1>1, <1>7, <2>2, FrontFrames
<1> QED BY <1>2, <1>4, <1>6, <1>7, <1>8, <1>9

LEMMA LeaveContextKeeps ==
  ASSUME AskInv, LeaveContext
  PROVE  AskInv' /\ UserFacts' = UserFacts
<1> DEFINE n == Len(frames)
           c == Last(frames).name
<1>1. /\ AskTypeOK /\ AskDb /\ AskFrames /\ AskTemps /\ AskFacts /\ AskAnswers /\ AskNonzero
      /\ ~ clearing /\ UNCHANGED <<localSigns, clearing>>
  BY DEF AskInv, LeaveContext
<1> HIDE DEF c
<1>2. /\ c \in Known \ {Global, Initial} /\ c \in Temp
      /\ AskDb' /\ Known' = Known \ {c} /\ activecontexts' = activecontexts
      /\ \A d \in Ctx \ {c} : subc'[d] = subc[d]
      /\ data' = [data EXCEPT ![c] = {}] /\ nodes' = nodes \ (data[c] \ Composite)
      /\ \A d \in Known \ {c} : ChainIn(subc', d) = ChainIn(subc, d) /\ c \notin ChainIn(subc, d)
  BY LeaveContextIs DEF c
<1>3. /\ AskFrames' /\ frames' \in Seq(Frame) /\ frames[n].kind = "context" /\ frames[n].name = c
      /\ \A i \in 1 .. n : i # n => frames[i].name \in Known \ {c}
      /\ \A i \in 1 .. Len(frames') : i \in 1 .. n /\ i # n /\ frames'[i] = frames[i]
      /\ \A i \in 1 .. n : i \in 1 .. Len(frames') \/ i = n
  BY LeaveContextIs DEF c
<1>4. AskTemps'
  <2>1. ASSUME NEW b \in Known', b \in Temp PROVE Opened(b)'
    <3>1. PICK i \in 1 .. n : frames[i].kind = "context" /\ frames[i].name = b
      BY <1>1, <1>2, <2>1 DEF AskTemps, Opened
    <3>2. i # n
      BY <1>2, <1>3, <2>1, <3>1
    <3> QED BY <1>3, <3>1, <3>2 DEF Opened
  <2>2. \A b \in Known' \ Temp : subc'[b] \notin Temp
    BY <1>1, <1>2, DbIs DEF AskTemps
  <2> QED BY <1>1, <1>2, <2>1, <2>2 DEF AskTemps
<1>5. Shrinks /\ \A d \in nodes \ nodes' : d.con = c
  BY <1>1, <1>2, DbIs DEF Shrinks, AskFacts
<1>6. AskFacts' /\ nodes' \in SUBSET Stored /\ nodes' \subseteq nodes
  BY <1>1, <1>5, ShrunkFacts DEF Shrinks
<1>7. AskTypeOK'
  BY <1>1, <1>3, <1>6 DEF AskTypeOK
<1>8. AskAnswers'
  BY <1>1, <1>2, <1>5, <1>6, AnswersStay
<1>9. UserFacts' = UserFacts
  BY <1>1, <1>2, <1>5, <1>6 DEF AskFacts, UserFacts
<1>16. \A d \in nodes : d.con # c => d \in nodes' /\ (Newest(d, "ne") => Newest(d, "ne")')
  BY <1>5, <1>6 DEF Newest, FirstOf
<1>17. AskNonzero'
  <2> SUFFICES ASSUME NEW i \in 1 .. Len(frames'), frames'[i].kind = "nonzero"
               PROVE  /\ \E d \in nodes' : /\ Implies(d.pred, "ne")
                                           /\ d.con \in Reach(subc', frames'[i].name, activecontexts')
                      /\ \A d \in nodes' : d.pred = "ne" =>
                           /\ \A j \in 1 .. Len(frames') : frames'[j].kind = "nonzero" => j = i
                           /\ Newest(d, "ne")' => d.by = "evaluator" /\ d.con = frames'[i].name
    BY DEF AskNonzero
  <2>1. i \in 1 .. n /\ i # n /\ frames'[i] = frames[i] /\ frames[i].kind = "nonzero" /\ frames[i].name \in Known \ {c}
    BY <1>3
  <2>2. PICK d \in nodes : Implies(d.pred, "ne") /\ d.con \in Reach(subc, frames[i].name, activecontexts)
    BY <1>1, <2>1 DEF AskNonzero
  <2>3. activecontexts \subseteq Known \ {c}
    BY <1>1, <1>2, DbIs DEF AskTemps
  <2>4. d.con # c /\ d.con \in Reach(subc', frames'[i].name, activecontexts')
    BY <1>2, <2>1, <2>2, <2>3 DEF Reach
  <2>5. ASSUME NEW e \in nodes', e.pred = "ne"
        PROVE  /\ \A j \in 1 .. Len(frames') : frames'[j].kind = "nonzero" => j = i
               /\ Newest(e, "ne")' => e.by = "evaluator" /\ e.con = frames'[i].name
    <3>1. e \in nodes
      BY <1>6
    <3>2. \A j \in 1 .. n : frames[j].kind = "nonzero" => j = i
      BY <1>1, <2>1, <2>5, <3>1 DEF AskNonzero
    <3>3. \A j \in 1 .. Len(frames') : frames'[j].kind = "nonzero" => j = i
      BY <1>3, <3>2
    <3>4. PICK f \in FirstOf(nodes, "ne") :
            f \in nodes /\ f.pred = "ne" /\ \A x \in nodes : x.pred = "ne" => x.id <= f.id
      <4>1. nodes \in SUBSET Stored /\ e \in nodes /\ e.pred = "ne"
        BY <1>1, <2>5, <3>1 DEF AskTypeOK
      <4> QED BY ONLY <4>1, NewestIs
    <3>5. f.con = frames[i].name /\ f.by = "evaluator"
      BY <1>1, <2>1, <3>4 DEF AskNonzero, Newest
    <3>6. f \in nodes'
      BY <1>16, <2>1, <3>4, <3>5
    <3>7. ASSUME Newest(e, "ne")' PROVE e = f
      <4>1. f.id <= e.id /\ e.id <= f.id
        BY <3>1, <3>4, <3>6, <3>7, <2>5 DEF Newest, FirstOf
      <4>2. e.id = f.id
        BY <1>1, <3>1, <3>4, <4>1 DEF AskTypeOK, Stored
      <4> QED BY <1>1, <3>1, <3>4, <4>2 DEF AskFacts
    <3> QED BY <2>1, <3>3, <3>5, <3>7
  <2> QED BY <1>16, <2>2, <2>4, <2>5
<1> QED BY <1>2, <1>3, <1>4, <1>6, <1>7, <1>8, <1>9, <1>17 DEF AskInv

(* asksign-p-or-n, or absarg1, begins. *)
LEMMA EnterNonzeroKeeps ==
  ASSUME AskInv, Irregular = {}, EnterNonzero
  PROVE  AskInv'
<1> DEFINE f == [kind |-> "nonzero", name |-> context, before |-> context]
           n == Len(frames)
<1>1. /\ AskTypeOK /\ AskDb /\ AskFrames /\ AskTemps /\ AskFacts /\ AskAnswers /\ AskNonzero
      /\ ~ clearing /\ (Holds("ne") => \A d \in nodes : d.pred # "ne")
      /\ AssumeBy("ne", "evaluator") /\ frames' = Append(frames, f)
      /\ UNCHANGED <<killing, tidy, localSigns, clearing>>
  BY DEF AskInv, EnterNonzero
<1>2. AskDb' /\ ContextsSame /\ Known' = Known /\ context \in Known /\ context \in Ctx
  <2>1. AskDb' /\ ContextsSame
    BY <1>1, AssumeIs
  <2> QED BY <1>1, <2>1, DbIs DEF ContextsSame, Known
<1>3. f \in Frame /\ f.kind = "nonzero" /\ f.name = context /\ f.before = context
  BY <1>2 DEF Frame
<1> HIDE DEF f
<1>4. /\ Longer /\ frames' \in Seq(Frame) /\ frames' # <<>> /\ Len(frames') = n + 1
      /\ frames'[n + 1] = f /\ Last(frames') = f
      /\ \A i \in 1 .. Len(frames') : i \in 1 .. n \/ i = n + 1
  BY <1>1, <1>3, AppendLonger
<1>5. n \in Nat /\ n + 1 \in 1 .. Len(frames') /\ \A i \in 1 .. n : frames'[i] = frames[i]
  BY <1>4 DEF Longer
<1>6. n > 0 => frames # <<>> /\ n \in 1 .. n /\ frames[n].name = context
  <2> SUFFICES ASSUME n > 0 PROVE frames # <<>> /\ n \in 1 .. n /\ frames[n].name = context
    OBVIOUS
  <2>1. frames # <<>>
    BY EmptySeq DEF AskTypeOK
  <2> QED BY <1>1, <2>1, LastIn DEF AskFrames
<1>7. AskFrames'
  <2>1. ASSUME NEW i \in 1 .. n PROVE FrameIn(frames', Known', subc', i)
    <3>1. FrameIn(frames, Known, subc, i)
      BY <1>1 DEF AskFrames
    <3>2. frames'[i] = frames[i] /\ (\A j \in 1 .. i : frames'[j] = frames[j])
          /\ (i > 1 => frames'[i - 1] = frames[i - 1])
      BY <1>5
    <3>3. Known' = Known /\ subc' = subc
      BY <1>2 DEF ContextsSame
    <3> QED BY ONLY <3>1, <3>2, <3>3 DEF FrameIn
  <2>2. ASSUME NEW m, m = n + 1 PROVE FrameIn(frames', Known', subc', m)
    <3>1. frames'[m].kind = "nonzero" /\ frames'[m].name = context /\ frames'[m].before = context
      BY <1>3, <1>4, <2>2
    <3>2. m > 1 => frames'[m - 1].name = context
      BY <1>5, <1>6, <2>2
    <3>3. ASSUME NEW j \in 1 .. m PROVE frames'[j].name \in ChainIn(subc', context)
      <4>1. j \in 1 .. n \/ j = m
        BY <1>5, <2>2
      <4>2. CASE j = m
        BY <1>1, <1>2, <3>1, <4>2, DbIs, ChainClosed DEF ContextsSame
      <4>3. CASE j \in 1 .. n
        <5>1. n \in 1 .. n /\ frames[n].name = context /\ FrameIn(frames, Known, subc, n) /\ j \in 1 .. n
          BY <1>1, <1>5, <1>6, <4>3 DEF AskFrames
        <5>2. frames[j].name \in ChainIn(subc, context)
          BY ONLY <5>1 DEF FrameIn
        <5> QED BY <1>2, <1>5, <4>3, <5>2 DEF ContextsSame
      <4> QED BY <4>1, <4>2, <4>3
    <3>4. context \in Known'
      BY <1>2
    <3> QED BY ONLY <3>1, <3>2, <3>3, <3>4 DEF FrameIn
  <2>3. Last(frames').name = context'
    BY <1>2, <1>3, <1>4 DEF ContextsSame
  <2> QED BY <1>4, <2>1, <2>2, <2>3 DEF AskFrames
<1>8. AskTemps'
  BY <1>1, <1>2, <1>4, OpenedLonger DEF AskTemps, ContextsSame
<1>9. \A i \in 1 .. Len(frames') :
        frames'[i].kind = "nonzero" =>
          i = n + 1 \/ (i \in 1 .. n /\ frames[i].kind = "nonzero" /\ frames'[i] = frames[i])
  <2> TAKE i \in 1 .. Len(frames')
  <2>1. i \in 1 .. n \/ i = n + 1
    BY <1>4
  <2>2. i \in 1 .. n => frames'[i] = frames[i]
    BY <1>5
  <2> QED BY ONLY <2>1, <2>2
<1>10. \A i : Reach(subc', i, activecontexts') = Reach(subc, i, activecontexts)
  BY <1>2 DEF ContextsSame
<1>11. CASE UNCHANGED <<nodes, data>> /\ (Holds("ne") \/ Refuted("ne"))
  <2>1. AskTypeOK' /\ AskFacts'
    BY <1>1, <1>4, <1>11, FactsSame DEF AskTypeOK
  <2>2. AskAnswers'
    BY <1>1, <1>11, AnswersGrow
  <2>4. Holds("ne") /\ (\A d \in nodes : d.pred # "ne") /\ nodes' = nodes
    BY <1>1, <1>11, NonzeroNotRefuted
  <2>5. \E d \in nodes : Implies(d.pred, "ne") /\ d.con \in Reach(subc, context, activecontexts)
    BY <1>1, <2>4, DataIs, HoldsIs
  <2>6. AskNonzero'
    <3> SUFFICES ASSUME NEW i \in 1 .. Len(frames'), frames'[i].kind = "nonzero"
                 PROVE  \E d \in nodes : /\ Implies(d.pred, "ne")
                                         /\ d.con \in Reach(subc, frames'[i].name, activecontexts)
      BY <1>10, <2>4 DEF AskNonzero
    <3> QED BY <1>1, <1>3, <1>4, <1>9, <2>5 DEF AskNonzero
  <2> QED BY <1>2, <1>7, <1>8, <2>1, <2>2, <2>6 DEF AskInv
<1>12. ASSUME ~ Holds("ne"), NEW d, Stores(d), d.pred = "ne", d.con = context, d.by = "evaluator"
       PROVE  AskInv'
  <2>1. AskFacts' /\ nodes' \in SUBSET Stored
    BY <1>1, <1>12, StoredFacts
  <2>2. AskTypeOK'
    BY <1>1, <1>4, <2>1 DEF AskTypeOK
  <2>4. AskAnswers'
    BY <1>1, <1>12, AnswersGrow DEF Stores
  <2>5. \A i \in 1 .. n : frames[i].kind # "nonzero"
    BY <1>1, <1>12, HoldsInNonzero
  <2>6. \A i \in 1 .. Len(frames') : frames'[i].kind = "nonzero" => i = n + 1
    BY <1>9, <2>5
  <2>7. frames'[n + 1].kind = "nonzero" /\ frames'[n + 1].name = context
    BY <1>3, <1>4
  <2>8. nodes' = nodes \cup {d} /\ \A e \in nodes : e.id < d.id
    BY <1>12 DEF Stores
  <2>9. \A e \in nodes' : Newest(e, "ne")' <=> e = d
    <3>1. \A e \in nodes : e.id \in Int /\ d.id \in Int
      BY <1>1, <1>12 DEF AskTypeOK, Stores, Stored
    <3>2. Newest(d, "ne")'
      BY <1>12, <2>8, <3>1 DEF Newest, FirstOf, Stores, Stored
    <3>3. ASSUME NEW e \in nodes, Newest(e, "ne")' PROVE FALSE
      <4>1. d.id <= e.id
        BY <1>12, <2>8, <3>3 DEF Newest, FirstOf
      <4> QED BY <2>8, <3>1, <4>1
    <3> QED BY <2>8, <3>2, <3>3
  <2>10. AskNonzero'
    <3> SUFFICES ASSUME NEW i \in 1 .. Len(frames'), frames'[i].kind = "nonzero"
                 PROVE  /\ \E e \in nodes' : /\ Implies(e.pred, "ne")
                                             /\ e.con \in Reach(subc', frames'[i].name, activecontexts')
                        /\ \A e \in nodes' : e.pred = "ne" =>
                             /\ \A j \in 1 .. Len(frames') : frames'[j].kind = "nonzero" => j = i
                             /\ Newest(e, "ne")' => e.by = "evaluator" /\ e.con = frames'[i].name
      BY DEF AskNonzero
    <3>1. i = n + 1 /\ frames'[i].name = context
      BY <2>6, <2>7
    <3>2. Implies(d.pred, "ne") /\ d.con \in Reach(subc', frames'[i].name, activecontexts') /\ d \in nodes'
      BY <1>1, <1>2, <1>10, <1>12, <2>8, <3>1, DbIs, ChainClosed DEF Implies, Reach
    <3> QED BY <1>12, <2>6, <2>9, <3>1, <3>2
  <2> QED BY <1>2, <1>7, <1>8, <2>1, <2>2, <2>4, <2>10 DEF AskInv
<1> QED BY <1>1, <1>11, <1>12, AssumeIs

(* asksign-p-or-n, or absarg1, ends. *)
LEMMA LeaveNonzeroKeeps ==
  ASSUME AskInv, LeaveNonzero
  PROVE  AskInv' /\ UserFacts' = UserFacts
<1> DEFINE n == Len(frames)
           D == FirstOf(nodes, "ne")
<1>1. /\ AskTypeOK /\ AskDb /\ AskFrames /\ AskTemps /\ AskFacts /\ AskAnswers /\ AskNonzero
      /\ ~ clearing /\ frames # <<>> /\ Last(frames).kind = "nonzero" /\ Forgotten("ne", context)
      /\ frames' = Front(frames) /\ UNCHANGED <<lists, context, current, subc, cmark>>
      /\ UNCHANGED <<killing, tidy, localSigns, clearing>>
  BY DEF AskInv, LeaveNonzero
<1>2. n \in 1 .. n /\ n \in Nat \ {0} /\ Last(frames) = frames[n] /\ frames[n].kind = "nonzero"
  BY <1>1, LastIn
<1>3. context = frames[n].name /\ frames[n].before = frames[n].name /\ context \in Known /\ context \in Ctx
  <2>1. FrameIn(frames, Known, subc, n) /\ context = frames[n].name
    BY <1>1, <1>2 DEF AskFrames
  <2> QED BY <1>1, <1>2, <2>1, DbIs DEF FrameIn
<1>4. ContextsSame /\ Known' = Known /\ context' = Last(frames).before
  BY <1>1, <1>2, <1>3 DEF lists, ContextsSame, Known
<1>5. \A d \in D : d \in nodes /\ d.pred = "ne" /\ d.con = context /\ d.by = "evaluator"
  <2>1. \A d \in D : d \in nodes /\ d.pred = "ne"
    BY DEF FirstOf
  <2> QED BY <1>1, <1>2, <1>3, <2>1 DEF AskNonzero, Newest
<1>6. Shrinks /\ nodes' = nodes \ D /\ nodes' \subseteq Fact /\ \A b \in Ctx \ {context} : data'[b] = data[b]
  BY <1>1, <1>3, ForgottenShrinks
<1>7. AskFacts' /\ nodes' \in SUBSET Stored /\ nodes' = nodes \ D
  BY <1>1, <1>6, ShrunkFacts
<1>8. AskDb'
  BY <1>1, <1>3, <1>6, FactsDb DEF lists, Shrinks
<1>9. /\ AskFrames' /\ frames' \in Seq(Frame) /\ Len(frames') = Len(frames) - 1
      /\ Len(frames) \in 1 .. Len(frames) /\ Last(frames) = frames[Len(frames)]
      /\ \A i \in 1 .. Len(frames') : i \in 1 .. Len(frames) /\ i # Len(frames) /\ frames'[i] = frames[i]
      /\ \A i \in 1 .. Len(frames) : i \in 1 .. Len(frames') \/ i = Len(frames)
  <2>1. \A i \in 1 .. n - 1 : i \in 1 .. n
    BY <1>2
  <2>2. \A i \in 1 .. n - 1 :
          /\ frames[i].name \in Known' /\ subc'[frames[i].name] = subc[frames[i].name]
          /\ ChainIn(subc', frames[i].name) = ChainIn(subc, frames[i].name)
    BY <1>1, <1>4, <2>1, FramePlaces DEF ContextsSame
  <2> QED BY <1>1, <1>4, <2>2, FrontFrames
<1>10. \A c : Opened(c) => Opened(c)'
  <2> SUFFICES ASSUME NEW c, Opened(c) PROVE Opened(c)'
    OBVIOUS
  <2>1. PICK i \in 1 .. n : frames[i].kind = "context" /\ frames[i].name = c
    BY DEF Opened
  <2>2. i # n
    BY <1>2, <2>1
  <2> QED BY <1>9, <2>1, <2>2 DEF Opened
<1>11. AskTemps'
  BY <1>1, <1>4, <1>10 DEF AskTemps, ContextsSame
<1>12. AskTypeOK'
  BY <1>1, <1>7, <1>9 DEF AskTypeOK
<1>13. UserFacts' = UserFacts
  BY <1>5, <1>7 DEF UserFacts
<1>14. AskAnswers'
  <2>1. \A d \in nodes \ nodes' : d.pred \notin Sign
    BY <1>5, <1>7 DEF Sign
  <2> QED BY <1>1, <1>7, <2>1, AnswersStay
<1>15. AskNonzero'
  <2> SUFFICES ASSUME NEW i \in 1 .. Len(frames'), frames'[i].kind = "nonzero"
               PROVE  /\ \E d \in nodes' : /\ Implies(d.pred, "ne")
                                           /\ d.con \in Reach(subc', frames'[i].name, activecontexts')
                      /\ \A d \in nodes' : d.pred # "ne"
    BY DEF AskNonzero
  <2>1. i \in 1 .. n /\ i # n /\ frames'[i] = frames[i] /\ frames[i].kind = "nonzero"
    BY <1>9
  <2>2. \A d \in nodes : d.pred # "ne"
    BY <1>1, <1>2, <2>1 DEF AskNonzero
  <2>3. nodes' = nodes
    BY <1>5, <1>7, <2>2
  <2> QED BY <1>1, <1>4, <2>1, <2>2, <2>3 DEF AskNonzero, ContextsSame
<1> QED BY <1>7, <1>8, <1>9, <1>11, <1>12, <1>13, <1>14, <1>15 DEF AskInv

LEMMA EvaluationEndsKeeps ==
  ASSUME AskInv, EvaluationEnds
  PROVE  AskInv'
<1>1. /\ AskTypeOK /\ AskDb /\ AskFrames /\ AskTemps /\ AskFacts /\ AskAnswers
      /\ frames = <<>> /\ localSigns # <<>> /\ clearing' = TRUE
      /\ UNCHANGED <<dbvars, localSigns, frames>>
  BY DEF AskInv, EvaluationEnds, InProgram
<1>2. UNCHANGED <<userContexts, activecontexts, contexts, context, current, subc, cmark, data, nodes, killing, tidy>>
  BY <1>1 DEF dbvars
<1>3. AskDb'
  BY <1>1, <1>2, FactsDb, DbIs
<1>4. AskTemps'
  BY <1>1, <1>2, PlacesSame DEF ContextsSame
<1>5. AskFacts' /\ nodes' \in SUBSET Stored
  BY <1>1, <1>2, FactsSame
<1>6. AskAnswers'
  BY <1>1, <1>2, AnswersGrow
<1>7. localSigns' \in Seq(Sign) /\ clearing' \in BOOLEAN
  BY <1>1 DEF AskTypeOK
<1> QED BY <1>1, <1>3, <1>4, <1>5, <1>6, <1>7, IdleStep

(* What clearsign takes off the node is the newest fact that says what the     *)
(* answers say: never the user's.                                          *)
LEMMA ClearsignIs ==
  ASSUME AskInv, Clearsign
  PROVE  \E e \in nodes : /\ FirstOf(nodes, Last(localSigns)) = {e} /\ e.by # "user"
                          /\ e.pred = Last(localSigns)
<1> DEFINE s == Last(localSigns)
           D == FirstOf(nodes, s)
<1>1. /\ AskTypeOK /\ AskFacts /\ AskAnswers /\ localSigns # <<>>
      /\ nodes \in SUBSET Stored /\ localSigns \in Seq(Sign)
  BY DEF AskInv, Clearsign, AskAnswers, AskTypeOK
<1>2. PICK S \in SUBSET nodes : Recorded(S, nodes, localSigns)
  BY <1>1 DEF AskAnswers
<1>3. PICK a \in S : a \in nodes /\ a.pred = s /\ \A e \in nodes : e.by = "user" /\ e.pred = a.pred => e.id < a.id
  <2>1. S # {}
    BY <1>1, <1>2, RecordedNone
  <2> QED BY <1>2, <2>1 DEF Recorded
<1>4. PICK e \in D : e \in nodes /\ e.pred = s /\ \A x \in nodes : x.pred = s => x.id <= e.id
  BY <1>1, <1>3, NewestIs
<1> HIDE DEF s
<1>5. e.by # "user"
  <2>1. a.id <= e.id /\ a.id \in Int /\ e.id \in Int
    BY <1>1, <1>3, <1>4 DEF Stored
  <2> QED BY <1>3, <1>4, <2>1
<1>6. D = {e}
  <2>1. ASSUME NEW d \in D PROVE d = e
    <3>1. d \in nodes /\ e.id <= d.id /\ d.id <= e.id
      BY <1>4, <2>1 DEF FirstOf
    <3>2. d.id = e.id
      BY <1>1, <1>4, <3>1 DEF Stored
    <3> QED BY <1>1, <1>4, <3>1, <3>2 DEF AskFacts
  <2> QED BY <1>4, <2>1
<1> QED BY <1>4, <1>5, <1>6 DEF s

LEMMA ClearsignKeeps ==
  ASSUME AskInv, Clearsign
  PROVE  AskInv' /\ UserFacts' = UserFacts
<1>1. /\ AskTypeOK /\ AskDb /\ AskFrames /\ AskTemps /\ AskFacts /\ AskAnswers
      /\ frames = <<>> /\ localSigns # <<>> /\ Forgotten(Last(localSigns), Initial)
      /\ localSigns' = Front(localSigns) /\ clearing' = (Len(localSigns) > 1)
      /\ UNCHANGED <<lists, context, current, subc, cmark>> /\ UNCHANGED <<killing, tidy, frames>>
      /\ localSigns \in Seq(Sign)
  BY DEF AskInv, Clearsign, AskAnswers, AskTypeOK
<1>2. PICK e \in nodes : FirstOf(nodes, Last(localSigns)) = {e} /\ e.by # "user"
  BY ClearsignIs
<1>3. /\ Shrinks /\ nodes' = nodes \ {e} /\ nodes' \subseteq Fact
      /\ \A b \in Ctx \ {Initial} : data'[b] = data[b]
  BY <1>1, <1>2, ForgottenShrinks, CtxAssumption
<1>4. AskFacts' /\ nodes' \in SUBSET Stored
  BY <1>1, <1>3, ShrunkFacts
<1>5. AskDb'
  BY <1>1, <1>3, FactsDb, DbIs DEF lists, Shrinks
<1>6. AskTemps'
  BY <1>1, PlacesSame DEF lists, ContextsSame
<1>7. UserFacts' = UserFacts
  BY <1>2, <1>3 DEF UserFacts
<1>8. AskAnswers'
  <2>1. PICK S \in SUBSET nodes : Recorded(S, nodes, localSigns)
    BY <1>1 DEF AskAnswers
  <2>2. PICK x \in S : S \ {x} \subseteq nodes'
    <3>1. PICK a \in S : TRUE
      BY <1>1, <2>1, RecordedNone
    <3>2. CASE e \in S
      BY <1>3, <3>2
    <3>3. CASE e \notin S
      BY <1>3, <3>1, <3>3
    <3> QED BY <3>2, <3>3
  <2>3. AllSame(localSigns') /\ Recorded(S \ {x}, nodes', localSigns')
    <3>1. AllSame(localSigns) /\ nodes' \subseteq nodes
      BY <1>1, <1>3 DEF AskAnswers
    <3> QED BY <1>1, <2>1, <2>2, <3>1, RecordedFront
  <2>4. S \ {x} \in SUBSET nodes'
    BY <2>2
  <2>5. clearing' => localSigns' # <<>> /\ frames' = <<>>
    <3> DEFINE n == Len(localSigns)
               m == Len(localSigns')
    <3>1. n \in Nat \ {0} /\ m = n - 1 /\ (m = 0 <=> localSigns' = <<>>)
      BY <1>1, FrontIs, EmptySeq
    <3>2. clearing' = (n > 1)
      BY <1>1
    <3> HIDE DEF n, m
    <3>3. clearing' => n > 1
      BY ONLY <3>2, Zenon
    <3>4. n > 1 => localSigns' # <<>>
      BY ONLY <3>1
    <3> QED BY <1>1, <3>3, <3>4
  <2> QED BY <2>3, <2>4, <2>5 DEF AskAnswers
<1>9. localSigns' \in Seq(Sign) /\ clearing' \in BOOLEAN
  BY <1>1, FrontIs
<1>10. AskInv'
  BY <1>1, <1>4, <1>5, <1>6, <1>8, <1>9, IdleStep
<1> QED BY <1>7, <1>10

(***************************************************************************)
(* Of every expression.                                                    *)
(***************************************************************************)

LEMMA AskInitInv == AskInit => AskInv /\ AskExact
<1> SUFFICES ASSUME AskInit PROVE AskInv /\ AskExact
  OBVIOUS
<1>1. /\ DbInit /\ nodes = {} /\ localSigns = <<>> /\ frames = <<>> /\ clearing = FALSE
      /\ killing = <<>> /\ tidy = TRUE /\ userContexts = <<Initial, Global>> /\ activecontexts = {}
      /\ subc = [c \in Ctx |-> IF c = Initial THEN Global ELSE NoCtx]
      /\ data = [c \in Ctx |-> {}]
  BY DEF AskInit, DbInit
<1>2. AskDb
  BY <1>1, InitInv DEF AskDb
<1>3. AskTypeOK
  <2>1. <<>> \in Seq(Sign) /\ <<>> \in Seq(Frame) /\ {} \in SUBSET Stored
    BY EmptySeq
  <2> QED BY <1>1, <2>1 DEF AskTypeOK
<1>4. Known = {Initial, Global}
  BY <1>1, FirstList DEF Known
<1>5. AskTemps
  <2>1. Initial \notin Temp /\ Global \notin Temp /\ NoCtx \notin Temp
    BY AskAssumption, CtxAssumption
  <2>2. \A c \in Known : subc[c] \in {Global, NoCtx}
    BY <1>1, <1>4, CtxAssumption
  <2> QED BY <1>1, <1>4, <2>1, <2>2 DEF AskTemps
<1>6. AskFacts /\ NodesExact
  BY <1>1 DEF AskFacts, NodesExact, UserFacts
<1>7. Recorded({}, {}, <<>>) /\ AllSame(<<>>) /\ Answers = {}
  BY <1>1, FS_EmptySet DEF Recorded, AllSame, Answers
<1>8. AskAnswers
  <2>1. \E S \in SUBSET nodes : Recorded(S, nodes, localSigns)
    BY <1>1, <1>7
  <2> QED BY <1>1, <1>7, <2>1 DEF AskAnswers
<1>9. AskFrames /\ AskNonzero /\ AskOwned
  BY <1>1 DEF AskFrames, AskNonzero, AskOwned
<1>10. AskExact
  BY <1>1, <1>6, <1>7, <1>9 DEF AskExact
<1> QED BY <1>2, <1>3, <1>5, <1>6, <1>8, <1>9, <1>10 DEF AskInv

LEMMA AskStutter == AskInv /\ UNCHANGED askvars => AskInv'
<1> SUFFICES ASSUME AskInv, UNCHANGED askvars PROVE AskInv'
  OBVIOUS
<1>1. /\ AskTypeOK /\ AskDb /\ AskFrames /\ AskTemps /\ AskFacts /\ AskAnswers /\ AskNonzero
      /\ UNCHANGED <<userContexts, activecontexts, contexts, context, current, subc, cmark, data, killing, tidy>>
      /\ UNCHANGED <<nodes, localSigns, frames, clearing>>
  BY DEF AskInv, askvars, dbvars
<1>2. AskDb' /\ ContextsSame
  BY <1>1, FactsDb, DbIs DEF ContextsSame
<1>3. AskTypeOK' /\ AskFacts'
  BY <1>1, FactsSame DEF AskTypeOK
<1>4. AskAnswers'
  BY <1>1, AnswersGrow DEF AskAnswers
<1>5. AskFrames' /\ AskTemps'
  BY <1>1, <1>2, PlacesSame
<1>6. AskNonzero'
  BY <1>1, <1>2, GrowNonzero
<1> QED BY <1>2, <1>3, <1>4, <1>5, <1>6 DEF AskInv

LEMMA AskNextInv == AskInv /\ Irregular = {} /\ [AskNext]_askvars => AskInv'
<1> SUFFICES ASSUME AskInv, Irregular = {}, [AskNext]_askvars PROVE AskInv'
  OBVIOUS
<1>1. ASSUME NEW p \in Pred, UserAssume(p) \/ UserForget(p) \/ LocalAssume(p) PROVE AskInv'
  BY <1>1, UserAssumeKeeps, UserForgetKeeps, LocalAssumeKeeps
<1>2. ASSUME NEW s \in Sign, Ask(s) PROVE AskInv'
  BY <1>2, AskKeeps
<1>3. ASSUME NEW c \in Temp, EnterContext(c) PROVE AskInv'
  BY <1>3, EnterContextKeeps
<1>4. CASE UserContext
  BY <1>4, UserContextKeeps
<1>5. CASE SignKnown
  BY <1>5, SignKnownKeeps
<1>6. CASE LeaveContext
  BY <1>6, LeaveContextKeeps
<1>7. CASE EnterNonzero
  BY <1>7, EnterNonzeroKeeps
<1>8. CASE LeaveNonzero
  BY <1>8, LeaveNonzeroKeeps
<1>9. CASE EvaluationEnds
  BY <1>9, EvaluationEndsKeeps
<1>10. CASE Clearsign
  BY <1>10, ClearsignKeeps
<1>11. CASE UNCHANGED askvars
  BY <1>11, AskStutter
<1> QED BY <1>1, <1>2, <1>3, <1>4, <1>5, <1>6, <1>7, <1>8, <1>9, <1>10, <1>11 DEF AskNext

(* The invariant of every session whose program leaves the evaluator alone:    *)
(* the frames nest, no fact of the user that says what the answers say is       *)
(* newer than these, and "not zero" is said anew by nobody while it is assumed. *)
THEOREM AskInvariant == Irregular = {} /\ AskSpec => []AskInv
<1> SUFFICES ASSUME Irregular = {} PROVE AskSpec => []AskInv
  OBVIOUS
<1>1. AskInit => AskInv
  BY AskInitInv
<1>2. AskInv /\ [AskNext]_askvars => AskInv'
  BY AskNextInv
<1> QED BY <1>1, <1>2, PTL DEF AskSpec

(* During an evaluation asksign knows an answer that it was given, wherever    *)
(* initial is in force, whatever the expression.                            *)
THEOREM AnswerIsKnown == Irregular = {} /\ AskSpec => []AnswerKnown
<1>1. AskInv => AnswerKnown
  <2> SUFFICES ASSUME AskInv, localSigns # <<>>, Initial \in InForce
               PROVE  Holds(Last(localSigns))
    BY DEF AnswerKnown
  <2>1. AskTypeOK /\ AskDb /\ AskAnswers /\ localSigns \in Seq(Sign) /\ nodes \in SUBSET Stored
    BY DEF AskInv, AskTypeOK
  <2>2. PICK S \in SUBSET nodes : Recorded(S, nodes, localSigns)
    BY <2>1 DEF AskAnswers
  <2>3. PICK d \in S : d \in nodes /\ d.con = Initial /\ d.pred = Last(localSigns)
    <3>1. S # {}
      BY <2>1, <2>2, RecordedNone
    <3> QED BY <2>2, <3>1 DEF Recorded
  <2>4. Initial \in Reach(subc, context, activecontexts)
    BY <2>1, SeenIs, CtxAssumption
  <2> QED BY <2>1, <2>3, <2>4, HoldsIs DEF Implies
<1> QED BY <1>1, AskInvariant, PTL

(* Neither clearsign nor an unwind-protect takes back a fact of the user,      *)
(* whatever the expression.                                                *)
THEOREM FactsAreRetained == Irregular = {} /\ AskSpec => FactsRetained
<1> SUFFICES ASSUME Irregular = {} PROVE AskSpec => FactsRetained
  OBVIOUS
<1>1. AskInv /\ [AskNext]_askvars
        => [frames # <<>> \/ clearing => UserFacts \subseteq UserFacts']_askvars
  <2> SUFFICES ASSUME AskInv, AskNext, frames # <<>> \/ clearing
               PROVE  UserFacts \subseteq UserFacts'
    OBVIOUS
  <2>1. ~ InProgram
    BY DEF InProgram
  <2>2. nodes \subseteq nodes' => UserFacts \subseteq UserFacts'
    BY DEF UserFacts
  <2>3. ASSUME NEW p \in Pred, UserAssume(p) \/ UserForget(p) \/ LocalAssume(p)
        PROVE  nodes \subseteq nodes'
    <3>1. AssumeBy(p, "evaluator")
      BY <2>1, <2>3 DEF UserAssume, UserForget, LocalAssume
    <3> QED BY <3>1 DEF AssumeBy, Deduce, Assume
  <2>4. CASE UserContext \/ EvaluationEnds
    BY <2>1, <2>4 DEF UserContext, EvaluationEnds
  <2>5. ASSUME NEW s \in Sign, Ask(s) PROVE nodes \subseteq nodes'
    BY <2>5 DEF Ask
  <2>6. ASSUME NEW c \in Temp, EnterContext(c) PROVE nodes \subseteq nodes'
    BY <2>6 DEF EnterContext, Supcontext, Create
  <2>7. CASE SignKnown
    BY <2>2, <2>7 DEF SignKnown, Deduce
  <2>8. CASE EnterNonzero
    BY <2>2, <2>8 DEF EnterNonzero, AssumeBy, Deduce, Assume
  <2>9. CASE LeaveContext \/ LeaveNonzero \/ Clearsign
    BY <2>9, LeaveContextKeeps, LeaveNonzeroKeeps, ClearsignKeeps
  <2> QED BY <2>2, <2>3, <2>4, <2>5, <2>6, <2>7, <2>8, <2>9 DEF AskNext
<1>2. AskInit => AskInv
  BY AskInitInv
<1>3. AskInv /\ [AskNext]_askvars => AskInv'
  BY AskNextInv
<1> QED BY <1>1, <1>2, <1>3, PTL DEF AskSpec, FactsRetained

(***************************************************************************)
(* Of a symbol.                                                            *)
(***************************************************************************)

Removes(D, c) == /\ c \in Ctx /\ D \subseteq data[c]
                 /\ nodes' = nodes \ D /\ data' = [data EXCEPT ![c] = @ \ D]

LEMMA ExactData ==
  ASSUME AskTypeOK, AskDb, NodesExact
  PROVE  /\ nodes \in SUBSET Stored /\ data \in [Ctx -> SUBSET Stored]
         /\ \A c \in Ctx : data[c] = {d \in nodes : d.con = c}
<1>1. \A d \in nodes : d.con \in Ctx
  BY DEF AskTypeOK, Stored
<1> QED BY <1>1, DataIs DEF NodesExact

LEMMA StoredExact ==
  ASSUME AskTypeOK, AskDb, NodesExact, NEW d, Stores(d)
  PROVE  NodesExact'
<1>1. d.con \in Ctx /\ nodes' = nodes \cup {d}
      /\ \A c \in Ctx : data'[c] = IF c = d.con THEN data[c] \cup {d} ELSE data[c]
  BY DataIs DEF Stores, Stored
<1>2. \A c \in Ctx : \A e : e \in data'[c] <=> e \in data[c] \/ (c = d.con /\ e = d)
  BY <1>1
<1>3. \A e : e \in nodes <=> \E c \in Ctx : e \in data[c]
  BY DEF NodesExact
<1>4. \A e : e \in nodes' <=> \E c \in Ctx : e \in data'[c]
  <2> TAKE e
  <2>1. e \in nodes' <=> e \in nodes \/ e = d
    BY <1>1
  <2>2. (\E c \in Ctx : e \in data'[c]) <=> (\E c \in Ctx : e \in data[c]) \/ e = d
    BY <1>1, <1>2
  <2> QED BY ONLY <1>3, <2>1, <2>2
<1>5. \A c \in Ctx : \A e \in data'[c] : e.con = c
  BY <1>2 DEF NodesExact
<1> QED BY <1>4, <1>5 DEF NodesExact

LEMMA RemovedExact ==
  ASSUME AskTypeOK, AskDb, NodesExact, NEW D, NEW c, Removes(D, c)
  PROVE  NodesExact'
<1>1. /\ c \in Ctx /\ nodes' = nodes \ D /\ \A d \in D : d \in data[c] /\ d.con = c
      /\ \A b \in Ctx : data'[b] = IF b = c THEN data[b] \ D ELSE data[b]
  BY ExactData DEF Removes
<1>2. \A b \in Ctx : \A e : e \in data'[b] <=> e \in data[b] /\ e \notin D
  <2>1. \A b \in Ctx : \A e \in data[b] : e.con = b
    BY DEF NodesExact
  <2>2. ASSUME NEW b \in Ctx, NEW e PROVE e \in data'[b] <=> e \in data[b] /\ e \notin D
    <3>1. CASE b = c
      BY <1>1, <3>1
    <3>2. CASE b # c
      BY <1>1, <2>1, <3>2
    <3> QED BY <3>1, <3>2
  <2> QED BY <2>2
<1>3. nodes' = UNION {data'[b] : b \in Ctx}
  BY <1>1, <1>2 DEF NodesExact
<1>4. \A b \in Ctx : \A e \in data'[b] : e.con = b
  BY <1>2 DEF NodesExact
<1> QED BY <1>3, <1>4 DEF NodesExact

(* What is forgotten in c is the same on both lists if the newest that says   *)
(* so belongs to c.                                                        *)
LEMMA ForgottenIs ==
  ASSUME AskTypeOK, AskDb, AskFacts, NodesExact, NEW p, NEW c \in Ctx, Forgotten(p, c),
         \A d \in FirstOf(nodes, p) : d.con = c
  PROVE  Removes(FirstOf(nodes, p), c)
<1>1. data[c] = {d \in nodes : d.con = c} /\ nodes \in SUBSET Stored
  BY ExactData
<1>2. FirstOf(nodes, p) \subseteq FirstOf(data[c], p)
  BY <1>1 DEF FirstOf
<1>3. ASSUME NEW e \in FirstOf(data[c], p) PROVE e \in FirstOf(nodes, p)
  <2>1. e \in nodes /\ e.pred = p
    BY <1>1, <1>3 DEF FirstOf
  <2>2. PICK n \in FirstOf(nodes, p) :
          n \in nodes /\ n.pred = p /\ \A x \in nodes : x.pred = p => x.id <= n.id
    BY <1>1, <2>1, NewestIs
  <2>3. n.id <= e.id
    BY <1>1, <1>3, <2>2 DEF FirstOf
  <2>4. e.id = n.id
    BY <1>1, <2>1, <2>2, <2>3 DEF Stored
  <2> QED BY <2>1, <2>2, <2>4 DEF AskFacts
<1> QED BY <1>1, <1>2, <1>3 DEF Forgotten, Removes, FirstOf

(* A context that is killed leaves nothing. *)
LEMMA KilledExact ==
  ASSUME AskTypeOK, AskDb, NodesExact, Composite = {}, NEW c \in Ctx,
         data' = [data EXCEPT ![c] = {}], nodes' = nodes \ (data[c] \ Composite)
  PROVE  NodesExact' /\ nodes' = {d \in nodes : d.con # c}
<1>1. Removes(data[c], c)
  BY DataIs DEF Removes
<1> QED BY <1>1, RemovedExact, ExactData

LEMMA GrowOwned ==
  ASSUME AskOwned, Longer, nodes \subseteq nodes',
         \A d \in nodes' \ nodes : d.by = "evaluator" => Opened(d.con)',
         \A d \in nodes' \ nodes : d.pred = "ne" => \A i \in 1 .. Len(frames) : frames[i].kind # "nonzero"
  PROVE  AskOwned'
<1> SUFFICES ASSUME NEW d \in nodes, d.by = "evaluator", ~ Opened(d.con)
             PROVE  Newest(d, "ne")' /\ \E i \in 1 .. Len(frames') : frames'[i].kind = "nonzero" /\ frames'[i].name = d.con
  BY OpenedLonger DEF AskOwned
<1>1. PICK i \in 1 .. Len(frames) : Newest(d, "ne") /\ frames[i].kind = "nonzero" /\ frames[i].name = d.con
  BY DEF AskOwned
<1>2. \A e \in nodes' : e.pred = "ne" => e \in nodes
  BY <1>1
<1>3. Newest(d, "ne")'
  BY <1>1, <1>2 DEF Newest, FirstOf
<1>4. i \in 1 .. Len(frames') /\ frames'[i].kind = "nonzero" /\ frames'[i].name = d.con
  BY <1>1 DEF Longer
<1> QED BY <1>3, <1>4

(* Between two evaluations. *)
LEMMA IdleOwned ==
  ASSUME AskOwned, frames = <<>>
  PROVE  \A d \in nodes : d.by # "evaluator"
BY DEF AskOwned, Opened

LEMMA OwnedIdle ==
  ASSUME \A d \in nodes' : d.by # "evaluator"
  PROVE  AskOwned'
BY DEF AskOwned

(* The facts and the frames stay, or frames are added. *)
LEMMA SameExact ==
  ASSUME AskExact, UNCHANGED <<nodes, data, localSigns>>, Longer
  PROVE  AskExact'
<1>1. NodesExact' /\ Recorded(Answers, nodes, localSigns)' /\ AskOwned
  BY DEF AskExact, NodesExact, Answers
<1>2. AskOwned'
  BY <1>1, GrowOwned
<1> QED BY <1>1, <1>2 DEF AskExact

(* A fact is stored that is no answer, and the user's says nothing that an      *)
(* answer says.                                                            *)
LEMMA StoredRecorded ==
  ASSUME Recorded(Answers, nodes, localSigns), localSigns' = localSigns, NEW d, Stores(d), d.by # "answer",
         d.by = "user" => \A e \in nodes : e.con = Initial => e.pred # d.pred
  PROVE  Recorded(Answers, nodes, localSigns)'
<1>1. nodes' = nodes \cup {d} /\ Answers' = Answers
  BY DEF Stores, Answers
<1>2. \A e \in Answers : e \in nodes /\ e.con = Initial
  BY DEF Recorded, Answers
<1>3. Recorded(Answers, nodes', localSigns)
  <2> DEFINE S == Answers
  <2>1. S \subseteq nodes' /\ \A e \in nodes' \ nodes : e.by = "user" => \A x \in S : e.pred # x.pred
    BY <1>1, <1>2
  <2>2. Recorded(S, nodes, localSigns)
    OBVIOUS
  <2> HIDE DEF S
  <2>3. Recorded(S, nodes', localSigns)
    BY <2>1, <2>2, RecordedStays
  <2> QED BY <2>3 DEF S
<1> QED BY <1>1, <1>3

(* Facts are removed that are no answers. *)
LEMMA RemovedRecorded ==
  ASSUME Recorded(Answers, nodes, localSigns), localSigns' = localSigns, nodes' \subseteq nodes,
         \A d \in nodes \ nodes' : d.by # "answer"
  PROVE  Recorded(Answers, nodes, localSigns)'
<1>1. Answers' = Answers
  BY DEF Answers
<1>2. Recorded(Answers, nodes', localSigns)
  BY <1>1 DEF Recorded, Answers
<1> QED BY <1>1, <1>2

LEMMA UserAssumeExact ==
  ASSUME AskInv, AskExact, Irregular = {}, NEW p \in Pred, UserAssume(p)
  PROVE  AskExact'
<1>1. /\ AskTypeOK /\ AskDb /\ NodesExact /\ Recorded(Answers, nodes, localSigns) /\ AskOwned
      /\ frames = <<>> /\ UNCHANGED <<localSigns, frames>>
  BY DEF AskInv, AskExact, UserAssume, InProgram
<1>2. CASE UNCHANGED <<nodes, data>>
  BY <1>1, <1>2, SameExact, SameLonger
<1>3. ASSUME NEW d, Stores(d), d.by = "user", \A e \in nodes : e.con = Initial => e.pred # d.pred
      PROVE  AskExact'
  <2>1. NodesExact' /\ Recorded(Answers, nodes, localSigns)'
    BY <1>1, <1>3, StoredExact, StoredRecorded
  <2>2. AskOwned'
    BY <1>1, <1>3, IdleOwned, OwnedIdle DEF Stores
  <2> QED BY <2>1, <2>2 DEF AskExact
<1> QED BY <1>2, <1>3, UserAssumeIs

LEMMA UserForgetExact ==
  ASSUME AskInv, AskExact, Irregular = {}, NEW p \in Pred, UserForget(p)
  PROVE  AskExact'
<1>1. /\ AskTypeOK /\ AskDb /\ AskFacts /\ NodesExact /\ Recorded(Answers, nodes, localSigns) /\ AskOwned
      /\ frames = <<>> /\ UNCHANGED <<localSigns, frames>> /\ localSigns \in Seq(Sign)
      /\ localSigns = <<>> /\ Alone(p) /\ Forgotten(p, context)
  BY DEF AskInv, AskExact, UserForget, InProgram, NotMidway, AskTypeOK
<1>2. Removes(FirstOf(nodes, p), context)
  <2>1. (\A d \in FirstOf(nodes, p) : d.con = context) /\ context \in Ctx
    BY <1>1, DbIs DEF Alone, FirstOf
  <2> QED BY <1>1, <2>1, ForgottenIs
<1>3. NodesExact' /\ nodes' \subseteq nodes
  BY <1>1, <1>2, RemovedExact DEF Removes
<1>4. Recorded(Answers, nodes, localSigns)'
  <2>1. Answers = {}
    BY <1>1, RecordedNone
  <2> QED BY <1>1, <1>3, <2>1, RemovedRecorded DEF Answers
<1>5. AskOwned'
  BY <1>1, <1>3, IdleOwned, OwnedIdle
<1> QED BY <1>3, <1>4, <1>5 DEF AskExact

LEMMA UserContextExact ==
  ASSUME AskInv, AskExact, Irregular = {}, Composite = {}, UserContext
  PROVE  AskExact'
<1>1. /\ AskTypeOK /\ AskDb /\ NodesExact /\ Recorded(Answers, nodes, localSigns) /\ AskOwned
      /\ frames = <<>> /\ UNCHANGED <<localSigns, frames>> /\ localSigns \in Seq(Sign)
  BY DEF AskInv, AskExact, UserContext, InProgram, AskTypeOK
<1>2. CASE UNCHANGED <<nodes, data>>
  BY <1>1, <1>2, SameExact, SameLonger
<1>3. ASSUME NEW c \in Known, c # Initial \/ localSigns = <<>>,
             data' = [data EXCEPT ![c] = {}], nodes' = nodes \ (data[c] \ Composite)
      PROVE  AskExact'
  <2>1. NodesExact' /\ nodes' = {d \in nodes : d.con # c}
    <3>1. c \in Ctx
      BY <1>1, DbIs
    <3> QED BY <1>1, <1>3, <3>1, KilledExact
  <2>2. \A d \in nodes \ nodes' : d.by # "answer"
    <3>1. localSigns = <<>> => Answers = {}
      BY <1>1, RecordedNone
    <3> QED BY <1>1, <1>3, <2>1, <3>1 DEF Recorded, Answers
  <2>3. Recorded(Answers, nodes, localSigns)'
    BY <1>1, <2>1, <2>2, RemovedRecorded
  <2>4. AskOwned'
    BY <1>1, <2>1, IdleOwned, OwnedIdle
  <2> QED BY <2>1, <2>3, <2>4 DEF AskExact
<1> QED BY <1>2, <1>3, UserContextIs

LEMMA AskKeepsExact ==
  ASSUME AskInv, AskExact, NEW s \in Sign, Ask(s)
  PROVE  AskExact'
<1>1. /\ AskTypeOK /\ AskDb /\ NodesExact /\ Recorded(Answers, nodes, localSigns) /\ AskOwned
      /\ frames' = frames
  BY DEF AskInv, AskExact, Ask
<1>2. PICK d : Stores(d) /\ d.pred = s /\ d.con = Initial /\ d.by = "answer"
  BY AskIs
<1>3. NodesExact'
  BY <1>1, <1>2, StoredExact
<1>4. Recorded(Answers, nodes, localSigns)'
  <2>1. Answers' = Answers \cup {d}
    BY <1>2 DEF Stores, Answers
  <2>2. Recorded(Answers \cup {d}, nodes', localSigns')
    <3> DEFINE S == Answers
    <3>1. Recorded(S, nodes, localSigns)
      BY <1>1
    <3> HIDE DEF S
    <3>2. Recorded(S \cup {d}, nodes', localSigns')
      BY <1>2, <3>1, AskRecorded
    <3> QED BY <3>2 DEF S
  <2> QED BY <2>1, <2>2
<1>5. AskOwned'
  <2>1. nodes \subseteq nodes' /\ \A e \in nodes' \ nodes : e.pred # "ne" /\ e.by # "evaluator"
    BY <1>2 DEF Stores, Sign
  <2> QED BY <1>1, <2>1, SameLonger, GrowOwned
<1> QED BY <1>3, <1>4, <1>5 DEF AskExact

LEMMA LocalAssumeExact ==
  ASSUME AskInv, AskExact, NEW p \in Pred, LocalAssume(p)
  PROVE  AskExact'
<1>1. /\ AskTypeOK /\ AskDb /\ NodesExact /\ Recorded(Answers, nodes, localSigns) /\ AskOwned
      /\ UNCHANGED <<localSigns, frames>>
  BY DEF AskInv, AskExact, LocalAssume
<1>2. CASE UNCHANGED <<nodes, data>>
  BY <1>1, <1>2, SameExact, SameLonger
<1>3. ASSUME NEW d, Stores(d), d.by = "evaluator", Opened(d.con),
             d.pred = "ne" => \A i \in 1 .. Len(frames) : frames[i].kind # "nonzero"
      PROVE  AskExact'
  <2>1. NodesExact' /\ Recorded(Answers, nodes, localSigns)'
    BY <1>1, <1>3, StoredExact, StoredRecorded
  <2>2. nodes \subseteq nodes' /\ \A e \in nodes' \ nodes : e = d
    BY <1>3 DEF Stores
  <2>3. Opened(d.con)'
    BY <1>1, <1>3, SameLonger, OpenedLonger
  <2>4. AskOwned'
    BY <1>1, <1>3, <2>2, <2>3, SameLonger, GrowOwned
  <2> QED BY <2>1, <2>4 DEF AskExact
<1> QED BY <1>2, <1>3, LocalAssumeIs

LEMMA EnterContextExact ==
  ASSUME AskInv, AskExact, NEW c \in Temp, EnterContext(c)
  PROVE  AskExact'
<1>1. /\ AskTypeOK /\ AskDb /\ UNCHANGED <<nodes, data, localSigns>>
      /\ frames' = Append(frames, [kind |-> "context", name |-> c, before |-> context])
  BY DEF AskInv, EnterContext, Supcontext, Create
<1>2. [kind |-> "context", name |-> c, before |-> context] \in Frame
  BY <1>1, DbIs, AskAssumption DEF Frame
<1>3. Longer
  BY <1>1, <1>2, AppendLonger
<1> QED BY <1>1, <1>3, SameExact

LEMMA LeaveContextExact ==
  ASSUME AskInv, AskExact, Composite = {}, LeaveContext
  PROVE  AskExact'
<1> DEFINE n == Len(frames)
           c == Last(frames).name
<1>1. /\ AskTypeOK /\ AskDb /\ NodesExact /\ Recorded(Answers, nodes, localSigns) /\ AskOwned
      /\ localSigns' = localSigns
  BY DEF AskInv, AskExact, LeaveContext
<1> HIDE DEF c
<1>2. /\ c \in Known \ {Global, Initial}
      /\ data' = [data EXCEPT ![c] = {}] /\ nodes' = nodes \ (data[c] \ Composite)
      /\ frames[n].kind = "context" /\ frames[n].name = c
      /\ \A i \in 1 .. Len(frames') : i \in 1 .. n /\ i # n /\ frames'[i] = frames[i]
      /\ \A i \in 1 .. n : i \in 1 .. Len(frames') \/ i = n
  BY LeaveContextIs DEF c
<1>3. NodesExact' /\ nodes' = {d \in nodes : d.con # c}
  <2>1. c \in Ctx
    BY <1>1, <1>2, DbIs
  <2> QED BY <1>1, <1>2, <2>1, KilledExact
<1>4. Recorded(Answers, nodes, localSigns)'
  <2>1. \A d \in nodes \ nodes' : d.by # "answer"
    BY <1>1, <1>2, <1>3 DEF Recorded, Answers
  <2> QED BY <1>1, <1>3, <2>1, RemovedRecorded
<1>5. \A d \in nodes' : d \in nodes /\ d.con # c /\ (Newest(d, "ne") => Newest(d, "ne")')
  BY <1>3 DEF Newest, FirstOf
<1>6. AskOwned'
  <2> SUFFICES ASSUME NEW d \in nodes', d.by = "evaluator"
               PROVE  \/ Opened(d.con)'
                      \/ Newest(d, "ne")' /\ \E i \in 1 .. Len(frames') : frames'[i].kind = "nonzero" /\ frames'[i].name = d.con
    BY DEF AskOwned
  <2>1. d \in nodes /\ d.con # c
    BY <1>5
  <2>2. CASE Opened(d.con)
    <3>1. PICK i \in 1 .. n : frames[i].kind = "context" /\ frames[i].name = d.con
      BY <2>2 DEF Opened
    <3>2. i # n
      BY <1>2, <2>1, <3>1
    <3> QED BY <1>2, <3>1, <3>2 DEF Opened
  <2>3. ASSUME NEW i \in 1 .. n, Newest(d, "ne"), frames[i].kind = "nonzero", frames[i].name = d.con
        PROVE  Newest(d, "ne")' /\ \E j \in 1 .. Len(frames') : frames'[j].kind = "nonzero" /\ frames'[j].name = d.con
    <3>1. i # n
      BY <1>2, <2>3
    <3>2. i \in 1 .. Len(frames') /\ frames'[i] = frames[i] /\ frames'[i].kind = "nonzero"
      BY <1>2, <2>3, <3>1
    <3> QED BY <1>5, <2>3, <3>2
  <2> QED BY <1>1, <2>1, <2>2, <2>3 DEF AskOwned
<1> QED BY <1>3, <1>4, <1>6 DEF AskExact

LEMMA EnterNonzeroExact ==
  ASSUME AskInv, AskExact, EnterNonzero
  PROVE  AskExact'
<1> DEFINE f == [kind |-> "nonzero", name |-> context, before |-> context]
           n == Len(frames)
<1>1. /\ AskTypeOK /\ AskDb /\ AskFrames /\ AskFacts /\ AskNonzero
      /\ NodesExact /\ Recorded(Answers, nodes, localSigns) /\ AskOwned
      /\ AssumeBy("ne", "evaluator") /\ frames' = Append(frames, f)
      /\ UNCHANGED <<killing, tidy, localSigns>>
  BY DEF AskInv, AskExact, EnterNonzero
<1>2. f \in Frame /\ f.kind = "nonzero" /\ f.name = context
  BY <1>1, DbIs DEF Frame
<1> HIDE DEF f
<1>3. /\ Longer /\ frames'[n + 1] = f /\ Len(frames') = n + 1
      /\ \A i \in 1 .. Len(frames') : i \in 1 .. n \/ i = n + 1
  BY <1>1, <1>2, AppendLonger
<1>4. n + 1 \in 1 .. Len(frames')
  <2> DEFINE m == Len(frames')
  <2>1. n \in Nat /\ m = n + 1
    BY <1>3 DEF Longer
  <2> HIDE DEF n, m
  <2>2. n + 1 \in 1 .. m
    BY <2>1
  <2> QED BY <2>2 DEF m
<1>5. CASE UNCHANGED <<nodes, data>>
  BY <1>1, <1>3, <1>5, SameExact
<1>6. ASSUME ~ Holds("ne"), NEW d, Stores(d), d.pred = "ne", d.con = context, d.by = "evaluator"
      PROVE  AskExact'
  <2>1. NodesExact' /\ Recorded(Answers, nodes, localSigns)'
    BY <1>1, <1>6, StoredExact, StoredRecorded
  <2>2. \A i \in 1 .. n : frames[i].kind # "nonzero"
    BY <1>1, <1>6, HoldsInNonzero
  <2>3. nodes' = nodes \cup {d} /\ \A e \in nodes : e.id < d.id
    BY <1>6 DEF Stores
  <2>4. Newest(d, "ne")'
    <3>1. d.id \in Int /\ \A e \in nodes : e.id \in Int
      BY <1>1, <1>6 DEF AskTypeOK, Stores, Stored
    <3> QED BY <1>6, <2>3, <3>1 DEF Newest, FirstOf
  <2>5. \E i \in 1 .. Len(frames') : frames'[i].kind = "nonzero" /\ frames'[i].name = d.con
    BY <1>2, <1>3, <1>4, <1>6
  <2>6. \A e \in nodes : e.by = "evaluator" => Opened(e.con)'
    BY <1>1, <1>3, <2>2, OpenedLonger DEF AskOwned
  <2>7. AskOwned'
    <3> SUFFICES ASSUME NEW e \in nodes', e.by = "evaluator"
                 PROVE  \/ Opened(e.con)'
                        \/ Newest(e, "ne")' /\ \E i \in 1 .. Len(frames') : frames'[i].kind = "nonzero" /\ frames'[i].name = e.con
      BY DEF AskOwned
    <3>1. CASE e = d
      BY <2>4, <2>5, <3>1
    <3>2. CASE e \in nodes
      BY <2>6, <3>2
    <3> QED BY <2>3, <3>1, <3>2
  <2> QED BY <2>1, <2>7 DEF AskExact
<1> QED BY <1>1, <1>5, <1>6, AssumeIs

LEMMA LeaveNonzeroExact ==
  ASSUME AskInv, AskExact, LeaveNonzero
  PROVE  AskExact'
<1> DEFINE n == Len(frames)
           D == FirstOf(nodes, "ne")
<1>1. /\ AskTypeOK /\ AskDb /\ AskFrames /\ AskFacts /\ AskNonzero
      /\ NodesExact /\ Recorded(Answers, nodes, localSigns) /\ AskOwned
      /\ frames # <<>> /\ Last(frames).kind = "nonzero" /\ Forgotten("ne", context)
      /\ frames' = Front(frames) /\ localSigns' = localSigns
  BY DEF AskInv, AskExact, LeaveNonzero
<1>2. /\ n \in 1 .. n /\ frames[n].kind = "nonzero" /\ context = frames[n].name /\ context \in Ctx
      /\ n \in Nat \ {0} /\ frames \in Seq(Frame)
  BY <1>1, LastIn, DbIs DEF AskFrames, AskTypeOK
<1>3. \A d \in D : d \in nodes /\ d.con = context /\ d.by = "evaluator"
  <2>1. \A d \in D : d \in nodes /\ d.pred = "ne"
    BY DEF FirstOf
  <2> QED BY <1>1, <1>2, <2>1 DEF AskNonzero, Newest
<1>4. Removes(D, context)
  BY <1>1, <1>2, <1>3, ForgottenIs
<1>5. NodesExact' /\ nodes' = nodes \ D
  BY <1>1, <1>4, RemovedExact DEF Removes
<1>6. Recorded(Answers, nodes, localSigns)'
  BY <1>1, <1>3, <1>5, RemovedRecorded
<1>7. \A c : Opened(c) => Opened(c)'
  <2> SUFFICES ASSUME NEW c, Opened(c) PROVE Opened(c)'
    OBVIOUS
  <2>1. PICK i \in 1 .. n : frames[i].kind = "context" /\ frames[i].name = c
    BY DEF Opened
  <2>2. i # n
    BY <1>2, <2>1
  <2> DEFINE m == Len(frames')
  <2>3. m = n - 1 /\ \A j \in 1 .. n - 1 : frames'[j] = frames[j]
    BY <1>1, <1>2, FrontIs
  <2> HIDE DEF n, m
  <2>4. i \in 1 .. m /\ frames'[i] = frames[i]
    BY <1>2, <2>1, <2>2, <2>3
  <2> QED BY <2>1, <2>4 DEF Opened, m
<1>8. AskOwned'
  <2> SUFFICES ASSUME NEW d \in nodes', d.by = "evaluator" PROVE Opened(d.con)'
    BY DEF AskOwned
  <2>1. d \in nodes /\ ~ Newest(d, "ne")
    BY <1>5 DEF Newest
  <2> QED BY <1>1, <1>7, <2>1 DEF AskOwned
<1> QED BY <1>5, <1>6, <1>8 DEF AskExact

LEMMA ClearsignExact ==
  ASSUME AskInv, AskExact, Clearsign
  PROVE  AskExact'
<1>1. /\ AskTypeOK /\ AskDb /\ AskFacts /\ NodesExact /\ Recorded(Answers, nodes, localSigns) /\ AskOwned
      /\ frames = <<>> /\ localSigns # <<>> /\ Forgotten(Last(localSigns), Initial) /\ frames' = frames
      /\ localSigns' = Front(localSigns) /\ localSigns \in Seq(Sign) /\ AllSame(localSigns)
      /\ nodes \in SUBSET Stored
  BY DEF AskInv, AskExact, Clearsign, AskAnswers, AskTypeOK
<1>2. PICK e \in nodes : FirstOf(nodes, Last(localSigns)) = {e} /\ e.by # "user"
  BY ClearsignIs
<1>3. e \in Answers /\ e.con = Initial
  <2>1. e.by \in {"user", "evaluator", "answer"} /\ e.by # "evaluator"
    BY <1>1, IdleOwned DEF Stored
  <2> QED BY <1>1, <1>2, <2>1 DEF Answers, Recorded
<1>4. Removes({e}, Initial)
  BY <1>1, <1>2, <1>3, ForgottenIs, CtxAssumption
<1>5. NodesExact' /\ nodes' = nodes \ {e}
  BY <1>1, <1>4, RemovedExact DEF Removes
<1>6. Recorded(Answers, nodes, localSigns)'
  <2>1. Answers' = Answers \ {e}
    BY <1>5 DEF Answers
  <2> DEFINE S == Answers
  <2>2. Recorded(S, nodes, localSigns) /\ e \in S /\ S \ {e} \subseteq nodes' /\ nodes' \subseteq nodes
    BY <1>1, <1>3, <1>5 DEF Answers
  <2>3. Recorded(S \ {e}, nodes', Front(localSigns))
    <3> HIDE DEF S
    <3> QED BY <1>1, <2>2, RecordedFront
  <2> QED BY <1>1, <2>1, <2>3
<1>7. AskOwned'
  BY <1>1, <1>5, IdleOwned, OwnedIdle
<1> QED BY <1>5, <1>6, <1>7 DEF AskExact

LEMMA AskNextExact ==
  AskInv /\ AskExact /\ Irregular = {} /\ Composite = {} /\ [AskNext]_askvars => AskExact'
<1> SUFFICES ASSUME AskInv, AskExact, Irregular = {}, Composite = {}, [AskNext]_askvars PROVE AskExact'
  OBVIOUS
<1>1. ASSUME NEW p \in Pred, UserAssume(p) \/ UserForget(p) \/ LocalAssume(p) PROVE AskExact'
  BY <1>1, UserAssumeExact, UserForgetExact, LocalAssumeExact
<1>2. ASSUME NEW s \in Sign, Ask(s) PROVE AskExact'
  BY <1>2, AskKeepsExact
<1>3. ASSUME NEW c \in Temp, EnterContext(c) PROVE AskExact'
  BY <1>3, EnterContextExact
<1>4. CASE UserContext
  BY <1>4, UserContextExact
<1>5. CASE SignKnown \/ EvaluationEnds \/ UNCHANGED askvars
  <2>1. UNCHANGED <<nodes, data, localSigns, frames>>
    BY <1>5 DEF SignKnown, Deduce, EvaluationEnds, askvars, dbvars
  <2>2. AskTypeOK
    BY DEF AskInv
  <2> QED BY <2>1, <2>2, SameLonger, SameExact
<1>6. CASE LeaveContext
  BY <1>6, LeaveContextExact
<1>7. CASE EnterNonzero
  BY <1>7, EnterNonzeroExact
<1>8. CASE LeaveNonzero
  BY <1>8, LeaveNonzeroExact
<1>9. CASE Clearsign
  BY <1>9, ClearsignExact
<1> QED BY <1>1, <1>2, <1>3, <1>4, <1>5, <1>6, <1>7, <1>8, <1>9 DEF AskNext

(* While the expression is a symbol, the lists agree, the answers stored are    *)
(* those to be taken back and the evaluator's assumptions belong to frames.    *)
THEOREM SymbolInvariant == Irregular = {} /\ Composite = {} /\ AskSpec => [](AskInv /\ AskExact)
<1> SUFFICES ASSUME Irregular = {}, Composite = {} PROVE AskSpec => [](AskInv /\ AskExact)
  OBVIOUS
<1>1. AskInit => AskInv /\ AskExact
  BY AskInitInv
<1>2. AskInv /\ AskExact /\ [AskNext]_askvars => AskInv' /\ AskExact'
  BY AskNextInv, AskNextExact
<1> QED BY <1>1, <1>2, PTL DEF AskSpec

(* The lists of the contexts and that of the symbol hold the same facts,       *)
(* although mkill searches each by itself.  Not so of any other expression,    *)
(* whose node keeps the facts of contexts that are killed.                   *)
THEOREM NodesAreExact == Irregular = {} /\ Composite = {} /\ AskSpec => []NodesExact
<1>1. AskExact => NodesExact
  BY DEF AskExact
<1> QED BY <1>1, SymbolInvariant, PTL

(* When an evaluation is over nothing is left of what clearsign and the       *)
(* unwind-protects have to take back, if the expression is a symbol.          *)
THEOREM NothingIsLeft == Irregular = {} /\ Composite = {} /\ AskSpec => []NothingLeft
<1>1. AskInv /\ AskExact => NothingLeft
  <2> SUFFICES ASSUME AskInv, AskExact PROVE NothingLeft
    OBVIOUS
  <2>1. /\ NodesExact /\ Recorded(Answers, nodes, localSigns) /\ AskOwned
        /\ localSigns \in Seq(Sign)
    BY DEF AskInv, AskExact, AskTypeOK
  <2>2. AllFacts = nodes
    BY <2>1 DEF NodesExact, AllFacts
  <2>3. localSigns = <<>> => \A d \in nodes : d.by # "answer"
    <3>1. localSigns = <<>> => Answers = {}
      BY <2>1, RecordedNone
    <3> QED BY <3>1 DEF Answers
  <2>4. frames = <<>> => \A d \in nodes : d.by # "evaluator"
    BY <2>1, IdleOwned
  <2> QED BY <2>2, <2>3, <2>4 DEF NothingLeft
<1> QED BY <1>1, SymbolInvariant, PTL

=============================================================================
