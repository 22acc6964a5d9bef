-------------------------- MODULE EvalFrames_proof --------------------------
(***************************************************************************)
(* Proofs about EvalFrames, for every set of variables, values, functions   *)
(* and variable lists, every nesting of forms and all irregular inputs.     *)
(*                                                                         *)
(* The inductive invariant is Fits: how a frame and the one above it share  *)
(* bindlist and loclist.  Every action replaces the top frame, pushes one   *)
(* or pops one; the lemmas ReplaceTop, PushFrame and PopFrame say when that  *)
(* keeps Fits, and each action is a case of one of them.  The second part is *)
(* about local properties.                                                 *)
(***************************************************************************)
EXTENDS EvalFrames, ShallowBinding_proof, FiniteSetTheorems

Phases == Evaluates \cup Works

(* What the phase of a frame says about its own bindings.                   *)
FrameOK(f) ==
  /\ f.bound <= Len(f.vars)
  /\ f.kind = "do" => Len(f.vars) = 1
  /\ f.kind \in {"errcatch", "catch"} => Len(f.vars) = 0 /\ f.phase \in {"body", "restore"}
  /\ f.phase = "restore" => f.kind \in {"errcatch", "catch"}
  /\ f.phase = "args" => f.bound = 0
  /\ f.phase \in {"test", "body", "next", "mlocal", "pre"} => f.bound = Len(f.vars)
  /\ f.phase \in {"test", "next"} => f.kind = "do"
  /\ f.phase \in {"mlocal", "pre", "retract", "rebind"} => f.kind = "ev"
  /\ f.phase = "unlocal" => f.kind \in {"block", "call", "ev"}
                             /\ (f.kind # "call" => f.bound = 0)

(* f is directly below g: g was entered while f evaluated. *)
Below(f, g) == /\ g.bindl = f.bindl + f.bound
               /\ f.locl + OwnLoc(f) <= g.locl
               /\ f.phase \in Evaluates

(* f is the innermost frame when the lists are bl and ll. *)
AtTop(f, bl, ll) == /\ Len(bl) = f.bindl + f.bound
                    /\ f.locl + OwnLoc(f) <= Len(ll)

(* f's part of bindlist names the variables it has bound. *)
Names(f, bl) == \A k \in 1..f.bound : bl[f.bindl + k] = f.vars[k]

Ordered(stk) == \A i, j \in 1..Len(stk) : i < j => stk[i].bindl + stk[i].bound <= stk[j].bindl

Fits(stk, bl, ll) ==
  /\ stk = <<>> => bl = <<>>
  /\ stk # <<>> => stk[1].bindl = 0 /\ AtTop(stk[Len(stk)], bl, ll)
  /\ \A i \in 1..(Len(stk) - 1) : Below(stk[i], stk[i + 1])
  /\ \A i \in 1..Len(stk) : FrameOK(stk[i]) /\ Names(stk[i], bl)
  /\ Ordered(stk)

(* Which phases the innermost frame can be in. *)
ExitPhases == /\ inLocal => exit = "none" /\ stack # <<>> /\ Top.phase \in Evaluates
              /\ exit # "none" /\ stack # <<>> => Top.phase \notin {"bind", "rebind", "restore"}

EInv == /\ EvalTypeOK /\ ValuesListExact
        /\ Fits(stack, bindlist, loclist)
        /\ ExitPhases

-----------------------------------------------------------------------------
(***************************************************************************)
(* Frames on a stack.                                                      *)
(***************************************************************************)

(* bl and bl2 agree on the first n entries. *)
AgreeUpTo(bl, bl2, n) == n <= Len(bl) /\ n <= Len(bl2) /\ \A k \in 1..n : bl2[k] = bl[k]

(* g can take the place of f at the top. *)
Replaces(g, f, bl2, ll2) == /\ g.bindl = f.bindl /\ FrameOK(g)
                            /\ g.locl = f.locl
                            /\ AtTop(g, bl2, ll2) /\ Names(g, bl2)

(* What a frame below the top has bound does not reach the top's part.      *)
LEMMA NamesBelow ==
  ASSUME NEW f \in Frame, NEW n \in Nat, NEW bl, NEW bl2,
         f.bindl + f.bound <= n, AgreeUpTo(bl, bl2, n), Names(f, bl)
  PROVE  Names(f, bl2)
<1>1. f.bindl \in Nat /\ f.bound \in Nat
  BY DEF Frame
<1>2. \A k \in 1..f.bound : f.bindl + k \in 1..n
  BY <1>1
<1>3. QED
  BY <1>2 DEF Names, AgreeUpTo

LEMMA ReplaceTop ==
  ASSUME NEW stk \in Seq(Frame), stk # <<>>, NEW g \in Frame,
         NEW bl \in Seq(Var), NEW bl2 \in Seq(Var), NEW ll, NEW ll2,
         Fits(stk, bl, ll), Replaces(g, stk[Len(stk)], bl2, ll2),
         AgreeUpTo(bl, bl2, g.bindl)
  PROVE  /\ [stk EXCEPT ![Len(stk)] = g] \in Seq(Frame)
         /\ Fits([stk EXCEPT ![Len(stk)] = g], bl2, ll2)
<1> DEFINE n == Len(stk)
           s == [stk EXCEPT ![Len(stk)] = g]
<1>1. n \in Nat \ {0} /\ \A i \in 1..n : stk[i] \in Frame
  BY EmptySeq, ElementOfSeq
<1>2. /\ s \in Seq(Frame) /\ Len(s) = n /\ s # <<>>
      /\ \A i \in 1..n : s[i] = IF i = n THEN g ELSE stk[i]
  BY <1>1, ExceptSeq, EmptySeq
<1> HIDE DEF s
<1>3. \A i \in 1..n : stk[i].bindl \in Nat /\ stk[i].bound \in Nat
  BY <1>1 DEF Frame
<1>4. s[1].bindl = 0 /\ AtTop(s[Len(s)], bl2, ll2)
  BY <1>1, <1>2 DEF Fits, Replaces
<1>5. ASSUME NEW i \in 1..(Len(s) - 1)
      PROVE  Below(s[i], s[i + 1])
  <2>1. Below(stk[i], stk[i + 1]) /\ s[i] = stk[i] /\ i + 1 \in 1..n
    BY <1>1, <1>2 DEF Fits
  <2>2. s[i + 1].bindl = stk[i + 1].bindl /\ s[i + 1].locl = stk[i + 1].locl
    BY <1>1, <1>2, <2>1 DEF Replaces
  <2>3. QED
    BY <2>1, <2>2 DEF Below
<1>6. ASSUME NEW i \in 1..Len(s)
      PROVE  FrameOK(s[i]) /\ Names(s[i], bl2)
  <2>1. CASE i = n
    BY <1>2, <2>1 DEF Replaces
  <2>2. CASE i # n
    <3>1. s[i] = stk[i] /\ FrameOK(stk[i]) /\ Names(stk[i], bl)
      BY <1>2, <2>2 DEF Fits
    <3>2. stk[i].bindl + stk[i].bound <= g.bindl
      BY <1>1, <1>2, <2>2 DEF Fits, Ordered, Replaces
    <3>3. g.bindl \in Nat
      BY DEF Frame
    <3>4. QED
      BY <1>1, <1>2, <3>1, <3>2, <3>3, NamesBelow
  <2>3. QED
    BY <2>1, <2>2
<1>7. Ordered(s)
  <2>1. ASSUME NEW i \in 1..n, NEW j \in 1..n, i < j
        PROVE  s[i].bindl + s[i].bound <= s[j].bindl
    <3>1. stk[i].bindl + stk[i].bound <= stk[j].bindl /\ i # n
      BY <1>1, <2>1 DEF Fits, Ordered
    <3>2. s[j].bindl = stk[j].bindl /\ s[i] = stk[i]
      BY <1>2, <3>1 DEF Replaces
    <3>3. QED
      BY <3>1, <3>2
  <2>2. QED
    BY <1>2, <2>1 DEF Ordered
<1>8. Fits(s, bl2, ll2)
  BY <1>2, <1>4, <1>5, <1>6, <1>7 DEF Fits
<1>9. QED
  BY <1>2, <1>8 DEF s

LEMMA SumBelow ==
  ASSUME NEW a \in Nat, NEW b \in Nat, NEW c \in Nat, NEW d \in Nat, NEW m,
         a + b <= c, c + d = m
  PROVE  a + b <= m
OBVIOUS

(* g can be entered from the top of a stack. *)
Enters(g, bl, ll, ll2) == /\ g.bindl = Len(bl) /\ FrameOK(g)
                          /\ g.locl = Len(ll) /\ g.bound = 0
                          /\ AtTop(g, bl, ll2)

LEMMA PushFrame ==
  ASSUME NEW stk \in Seq(Frame), NEW g \in Frame,
         NEW bl \in Seq(Var), NEW ll, NEW ll2,
         Fits(stk, bl, ll), Enters(g, bl, ll, ll2),
         stk # <<>> => stk[Len(stk)].phase \in Evaluates
  PROVE  /\ Append(stk, g) \in Seq(Frame)
         /\ Fits(Append(stk, g), bl, ll2)
<1> DEFINE n == Len(stk)
           s == Append(stk, g)
<1>1. n \in Nat /\ \A i \in 1..n : stk[i] \in Frame
  BY LenProperties, ElementOfSeq
<1>2. /\ s \in Seq(Frame) /\ Len(s) = n + 1 /\ s # <<>>
      /\ s[n + 1] = g
      /\ \A i \in 1..n : s[i] = stk[i]
  BY <1>1, AppendProperties, EmptySeq
<1> HIDE DEF s
<1>3. \A i \in 1..n : stk[i].bindl \in Nat /\ stk[i].bound \in Nat
  BY <1>1 DEF Frame
<1>4. Len(bl) \in Nat /\ g.bindl = Len(bl) /\ g.bound = 0 /\ g.locl = Len(ll)
  BY LenProperties DEF Enters
<1>5. stk # <<>> => n \in 1..n /\ AtTop(stk[n], bl, ll)
  BY EmptySeq, <1>1 DEF Fits
<1>6. s[1].bindl = 0 /\ AtTop(s[Len(s)], bl, ll2)
  <2>1. CASE stk = <<>>
    BY <1>2, <1>4, <2>1, EmptySeq DEF Fits, Enters
  <2>2. CASE stk # <<>>
    BY <1>1, <1>2, <1>5, <2>2 DEF Fits, Enters
  <2>3. QED
    BY <2>1, <2>2
<1>7. ASSUME NEW i \in 1..(Len(s) - 1)
      PROVE  Below(s[i], s[i + 1])
  <2>1. CASE i < n
    BY <1>1, <1>2, <2>1 DEF Fits
  <2>2. CASE i = n
    <3>1. stk # <<>> /\ s[i] = stk[n] /\ s[i + 1] = g
      BY <1>1, <1>2, <2>2, EmptySeq
    <3>2. QED
      BY <1>4, <1>5, <3>1 DEF Below, AtTop
  <2>3. QED
    BY <1>1, <1>2, <2>1, <2>2
<1>8. ASSUME NEW i \in 1..Len(s)
      PROVE  FrameOK(s[i]) /\ Names(s[i], bl)
  <2>1. CASE i = n + 1
    BY <1>2, <1>4, <2>1 DEF Enters, Names
  <2>2. CASE i \in 1..n
    BY <1>2, <2>2 DEF Fits
  <2>3. QED
    BY <1>1, <1>2, <2>1, <2>2
<1>9. Ordered(s)
  <2>1. ASSUME NEW i \in 1..(n + 1), NEW j \in 1..(n + 1), i < j
        PROVE  s[i].bindl + s[i].bound <= s[j].bindl
    <3>1. CASE j \in 1..n
      BY <1>1, <1>2, <2>1, <3>1 DEF Fits, Ordered
    <3>2. CASE j = n + 1
      <4>1. stk # <<>> /\ i \in 1..n /\ s[i] = stk[i] /\ s[j] = g
        BY <1>1, <1>2, <2>1, <3>2, EmptySeq
      <4>2. stk[n].bindl + stk[n].bound = Len(bl)
        BY <1>5, <4>1 DEF AtTop
      <4>3. stk[i].bindl + stk[i].bound <= Len(bl)
        <5>1. CASE i = n
          BY <4>1, <4>2, <5>1, <1>4
        <5>2. CASE i < n
          <6>1. i \in 1..Len(stk) /\ n \in 1..Len(stk)
            BY <1>1, <4>1
          <6>2. stk[i].bindl + stk[i].bound <= stk[n].bindl
            BY <5>2, <6>1 DEF Fits, Ordered
          <6>3. stk[i].bindl \in Nat /\ stk[i].bound \in Nat /\ stk[n].bindl \in Nat
                /\ stk[n].bound \in Nat
            BY <1>3, <6>1
          <6>4. QED
            BY ONLY <4>2, <6>2, <6>3, SumBelow
        <5>3. QED
          BY <1>1, <4>1, <5>1, <5>2
      <4>4. QED
        BY <1>4, <4>1, <4>3
    <3>3. QED
      BY <1>1, <2>1, <3>1, <3>2
  <2>2. QED
    BY <1>2, <2>1 DEF Ordered
<1>10. Fits(s, bl, ll2)
  BY <1>2, <1>6, <1>7, <1>8, <1>9 DEF Fits
<1>11. QED
  BY <1>2, <1>10 DEF s

LEMMA PopFrame ==
  ASSUME NEW stk \in Seq(Frame), stk # <<>>,
         NEW bl \in Seq(Var), NEW ll, NEW ll2 \in Seq(Seq(Fun)),
         Fits(stk, bl, ll), stk[Len(stk)].bound = 0, stk[Len(stk)].locl <= Len(ll2)
  PROVE  /\ Front(stk) \in Seq(Frame)
         /\ Fits(Front(stk), bl, ll2)
<1> DEFINE n == Len(stk)
           s == Front(stk)
<1>1. n \in Nat \ {0} /\ \A i \in 1..n : stk[i] \in Frame
  BY EmptySeq, ElementOfSeq
<1>2. /\ s \in Seq(Frame) /\ Len(s) = n - 1
      /\ \A i \in 1..(n - 1) : s[i] = stk[i]
  BY PopProperties
<1> HIDE DEF s
<1>3. \A i \in 1..n : stk[i].bindl \in Nat /\ stk[i].bound \in Nat /\ stk[i].locl \in Nat
  BY <1>1 DEF Frame
<1>4. Len(bl) \in Nat /\ Len(bl) = stk[n].bindl /\ Len(ll2) \in Nat
  BY <1>1, <1>3, LenProperties DEF Fits, AtTop
<1>5. s = <<>> => bl = <<>>
  <2>1. ASSUME s = <<>>
        PROVE  Len(bl) = 0
    <3>1. n = 1
      BY <1>1, <1>2, <2>1, EmptySeq
    <3>2. QED
      BY <1>4, <3>1 DEF Fits
  <2>2. QED
    BY <2>1, EmptySeq
<1>6. s # <<>> => s[1].bindl = 0 /\ AtTop(s[Len(s)], bl, ll2)
  <2>1. SUFFICES ASSUME s # <<>>
                 PROVE  s[1].bindl = 0 /\ AtTop(s[Len(s)], bl, ll2)
    OBVIOUS
  <2>2. n - 1 \in 1..(n - 1) /\ 1 \in 1..(n - 1)
    BY <1>1, <1>2, <2>1, EmptySeq
  <2>3. Below(stk[n - 1], stk[n]) /\ s[n - 1] = stk[n - 1] /\ s[1] = stk[1]
    <3>1. (n - 1) + 1 = n
      BY <1>1
    <3>2. QED
      BY <1>2, <2>2, <3>1 DEF Fits
  <2>4. stk[n - 1].locl + OwnLoc(stk[n - 1]) <= Len(ll2)
    <3>1. OwnLoc(stk[n - 1]) \in Nat
      BY DEF OwnLoc
    <3>2. stk[n - 1].locl \in Nat /\ stk[n].locl \in Nat
      BY <1>1, <1>3, <2>2
    <3>3. QED
      BY <1>4, <2>3, <3>1, <3>2 DEF Below
  <2>5. QED
    BY <1>1, <1>2, <1>4, <2>3, <2>4 DEF Fits, Below, AtTop
<1>7. \A i \in 1..(Len(s) - 1) : Below(s[i], s[i + 1])
  <2>1. ASSUME NEW i \in 1..(n - 1 - 1)
        PROVE  Below(s[i], s[i + 1])
    <3>1. i \in 1..(n - 1) /\ i + 1 \in 1..(n - 1)
      BY <1>1
    <3>2. Below(stk[i], stk[i + 1])
      BY <3>1 DEF Fits
    <3>3. QED
      BY ONLY <1>2, <3>1, <3>2, Zenon
  <2>2. QED
    BY <1>2, <2>1
<1>8. ASSUME NEW i \in 1..Len(s)
      PROVE  FrameOK(s[i]) /\ Names(s[i], bl)
  <2>1. i \in 1..Len(stk) /\ s[i] = stk[i]
    BY <1>1, <1>2
  <2>2. QED
    BY <2>1 DEF Fits
<1>9. Ordered(s)
  <2>1. SUFFICES ASSUME NEW i \in 1..Len(s), NEW j \in 1..Len(s), i < j
                 PROVE  s[i].bindl + s[i].bound <= s[j].bindl
    BY DEF Ordered
  <2>2. /\ i \in 1..Len(stk) /\ s[i] = stk[i]
        /\ j \in 1..Len(stk) /\ s[j] = stk[j]
    <3>1. n \in Nat /\ Len(s) = n - 1 /\ \A k \in 1..(n - 1) : s[k] = stk[k]
      BY <1>1, <1>2
    <3>2. i \in 1..(n - 1) /\ j \in 1..(n - 1)
      BY <3>1, Zenon
    <3>3. s[i] = stk[i] /\ s[j] = stk[j]
      BY ONLY <3>1, <3>2, Zenon
    <3> HIDE DEF n
    <3>4. i \in 1..n /\ j \in 1..n
      BY ONLY <3>1, <3>2
    <3>5. QED
      BY ONLY <3>3, <3>4 DEF n
  <2>3. Ordered(stk)
    BY DEF Fits
  <2>4. stk[i].bindl + stk[i].bound <= stk[j].bindl
    BY ONLY <2>1, <2>2, <2>3 DEF Ordered
  <2>5. QED
    BY ONLY <2>2, <2>4
<1>10. Fits(s, bl, ll2)
  BY <1>5, <1>6, <1>7, <1>8, <1>9 DEF Fits
<1>11. QED
  BY <1>2, <1>10 DEF s

-----------------------------------------------------------------------------
(***************************************************************************)
(* Steps of the innermost frame.                                           *)
(***************************************************************************)

WithPhase(f, ph) == [f EXCEPT !.phase = ph]
WithBound(f, b) == [f EXCEPT !.bound = b]

LEMMA WithPhaseFields ==
  ASSUME NEW f \in Frame, NEW ph \in Phases
  PROVE  /\ WithPhase(f, ph) \in Frame
         /\ WithPhase(f, ph).phase = ph
         /\ WithPhase(f, ph).kind = f.kind /\ WithPhase(f, ph).vars = f.vars
         /\ WithPhase(f, ph).bound = f.bound /\ WithPhase(f, ph).bindl = f.bindl
         /\ WithPhase(f, ph).locl = f.locl
BY DEF WithPhase, Frame, Phases

LEMMA WithBoundFields ==
  ASSUME NEW f \in Frame, NEW b \in Nat
  PROVE  /\ WithBound(f, b) \in Frame
         /\ WithBound(f, b).bound = b
         /\ WithBound(f, b).kind = f.kind /\ WithBound(f, b).vars = f.vars
         /\ WithBound(f, b).phase = f.phase /\ WithBound(f, b).bindl = f.bindl
         /\ WithBound(f, b).locl = f.locl
BY DEF WithBound, Frame

(* What the invariant says about the innermost frame. *)
LEMMA TopFacts ==
  ASSUME EInv, stack # <<>>
  PROVE  /\ Len(stack) \in Nat \ {0} /\ Top = stack[Len(stack)] /\ Top \in Frame
         /\ FrameOK(Top) /\ AtTop(Top, bindlist, loclist) /\ Names(Top, bindlist)
         /\ Top.kind \in Kinds /\ Top.phase \in Phases /\ Top.vars \in Seq(Var)
         /\ Top.bound \in Nat /\ Top.bindl \in Nat /\ Top.locl \in Nat
         /\ Len(bindlist) \in Nat /\ Len(loclist) \in Nat /\ Len(Top.vars) \in Nat
         /\ Len(bindlist) = Top.bindl + Top.bound
         /\ Top.locl + OwnLoc(Top) <= Len(loclist)
<1>1. stack \in Seq(Frame) /\ bindlist \in Seq(Var) /\ loclist \in Seq(Seq(Fun))
  BY DEF EInv, EvalTypeOK, BindTypeOK
<1>2. Len(stack) \in Nat \ {0} /\ Top = stack[Len(stack)] /\ Len(stack) \in 1..Len(stack)
  BY <1>1, EmptySeq DEF Top, Last
<1>3. Top \in Frame
  BY <1>1, <1>2, ElementOfSeq
<1>4. FrameOK(Top) /\ AtTop(Top, bindlist, loclist) /\ Names(Top, bindlist)
  BY <1>2 DEF EInv, Fits
<1>5. /\ Top.kind \in Kinds /\ Top.phase \in Phases /\ Top.vars \in Seq(Var)
      /\ Top.bound \in Nat /\ Top.bindl \in Nat /\ Top.locl \in Nat
  BY <1>3 DEF Frame, Phases
<1>6. Len(bindlist) \in Nat /\ Len(loclist) \in Nat /\ Len(Top.vars) \in Nat
  BY <1>1, <1>5, LenProperties
<1>7. QED
  BY <1>2, <1>3, <1>4, <1>5, <1>6 DEF AtTop

(* The frames after a step: well typed, and fitting the lists.              *)
FramesKept == /\ stack' \in Seq(Frame)
              /\ Fits(stack', bindlist', loclist')

(* The innermost frame becomes g. *)
LEMMA TopBecomes ==
  ASSUME EInv, stack # <<>>, NEW g \in Frame, bindlist' \in Seq(Var),
         Replaces(g, Top, bindlist', loclist'), AgreeUpTo(bindlist, bindlist', Top.bindl),
         stack' = [stack EXCEPT ![Len(stack)] = g]
  PROVE  FramesKept /\ stack' # <<>> /\ Last(stack') = g
<1>1. Top = stack[Len(stack)] /\ Len(stack) \in Nat \ {0} /\ g.bindl = Top.bindl
  BY TopFacts DEF Replaces
<1>2. stack \in Seq(Frame) /\ bindlist \in Seq(Var) /\ Fits(stack, bindlist, loclist)
  BY DEF EInv, EvalTypeOK, BindTypeOK
<1>3. stack' \in Seq(Frame) /\ Fits(stack', bindlist', loclist')
  BY <1>1, <1>2, ReplaceTop
<1>4. Len(stack') = Len(stack) /\ stack'[Len(stack)] = g
  BY <1>1, <1>2, ExceptSeq
<1>5. QED
  BY <1>1, <1>3, <1>4, EmptySeq DEF FramesKept, Last

(* The innermost frame goes to another phase; the bindings stay. *)
LEMMA TopGoesTo ==
  ASSUME EInv, stack # <<>>, NEW ph \in Phases, UNCHANGED bindlist,
         FrameOK(WithPhase(Top, ph)),
         Top.locl + OwnLoc(WithPhase(Top, ph)) <= Len(loclist'),
         stack' = SetPhase(ph)
  PROVE  FramesKept /\ stack' # <<>> /\ Last(stack') = WithPhase(Top, ph)
<1> DEFINE g == WithPhase(Top, ph)
<1>1. /\ g \in Frame /\ g.vars = Top.vars /\ g.bound = Top.bound
      /\ g.bindl = Top.bindl /\ g.locl = Top.locl
  BY TopFacts, WithPhaseFields
<1>2. stack' = [stack EXCEPT ![Len(stack)] = g]
  BY TopFacts DEF SetPhase, WithPhase
<1>3. bindlist \in Seq(Var) /\ bindlist' = bindlist
  BY DEF EInv, EvalTypeOK, BindTypeOK
<1>4. Names(Top, bindlist) /\ Len(bindlist) = Top.bindl + Top.bound /\ FrameOK(g)
      /\ Top.bindl \in Nat /\ Top.bound \in Nat
  BY TopFacts
<1>5. Top.locl + OwnLoc(g) <= Len(loclist')
  OBVIOUS
<1> HIDE DEF g
<1>6. Names(g, bindlist')
  BY <1>1, <1>3, <1>4 DEF Names
<1>7. AtTop(g, bindlist', loclist')
  BY <1>1, <1>3, <1>4, <1>5 DEF AtTop
<1>8. AgreeUpTo(bindlist, bindlist', Top.bindl)
  BY <1>3, <1>4 DEF AgreeUpTo
<1>9. Replaces(g, Top, bindlist', loclist')
  BY <1>1, <1>4, <1>6, <1>7 DEF Replaces
<1>10. QED
  BY <1>1, <1>2, <1>3, <1>8, <1>9, TopBecomes DEF g

(* The innermost frame is left; the bindings stay. *)
LEMMA TopIsLeft ==
  ASSUME EInv, stack # <<>>, UNCHANGED bindlist, Top.bound = 0,
         loclist' \in Seq(Seq(Fun)), Top.locl <= Len(loclist'),
         stack' = Front(stack)
  PROVE  FramesKept /\ (stack' # <<>> => Last(stack').phase \in Evaluates)
<1>1. Top = stack[Len(stack)] /\ Len(stack) \in Nat \ {0}
  BY TopFacts
<1>2. stack \in Seq(Frame) /\ bindlist \in Seq(Var) /\ Fits(stack, bindlist, loclist)
  BY DEF EInv, EvalTypeOK, BindTypeOK
<1>3. FramesKept
  BY <1>1, <1>2, PopFrame DEF FramesKept
<1>4. ASSUME stack' # <<>>
      PROVE  Last(stack').phase \in Evaluates
  <2>1. /\ Len(stack') = Len(stack) - 1 /\ Len(stack') \in Nat \ {0}
        /\ \A i \in 1..(Len(stack) - 1) : stack'[i] = stack[i]
    BY <1>1, <1>2, <1>3, <1>4, PopProperties, EmptySeq DEF FramesKept
  <2>2. Below(stack[Len(stack) - 1], stack[Len(stack) - 1 + 1])
    <3>1. Len(stack) - 1 \in 1..(Len(stack) - 1)
      BY <1>1, <2>1
    <3>2. QED
      BY <1>2, <3>1 DEF Fits
  <2>3. QED
    BY <1>1, <2>1, <2>2 DEF Last, Below
<1>5. QED
  BY <1>3, <1>4

(* Only the lists of names change. *)
LEMMA OnlyNamesChange ==
  ASSUME EInv, UNCHANGED <<bindlist, stack>>, loclist' \in Seq(Seq(Fun)),
         stack # <<>> => Top.locl + OwnLoc(Top) <= Len(loclist')
  PROVE  FramesKept
<1>1. stack # <<>> => AtTop(stack[Len(stack)], bindlist, loclist')
  BY TopFacts DEF AtTop
<1>2. QED
  BY <1>1 DEF EInv, EvalTypeOK, Fits, FramesKept

(* The variables of the frame are variables. *)
LEMMA BoundVariable ==
  ASSUME EInv, stack # <<>>, NEW k \in 1..Len(Top.vars)
  PROVE  Top.vars[k] \in Var
BY TopFacts, ElementOfSeq

(* The variable a frame unbinds is the one bound last. *)
LEMMA UnbindsLast ==
  ASSUME EInv, stack # <<>>, Top.bound > 0
  PROVE  /\ bindlist # <<>> /\ Last(bindlist) = Top.vars[Top.bound]
<1>1. /\ Top.bound \in Nat /\ Top.bindl \in Nat /\ Len(bindlist) = Top.bindl + Top.bound
      /\ Names(Top, bindlist)
  BY TopFacts
<1>2. bindlist[Top.bindl + Top.bound] = Top.vars[Top.bound]
  BY <1>1 DEF Names
<1>3. QED
  BY <1>1, <1>2, EmptySeq DEF Last

(* Every step of the evaluator is a step of the binding lists. *)
LEMMA EvalStepBinds ==
  ASSUME EInv, [EvalNext]_vars
  PROVE  [BindNext]_bvars
<1>1. CASE UNCHANGED bvars
  BY <1>1
<1>2. CASE AssignVar
  BY <1>2 DEF AssignVar, BindNext
<1>3. ASSUME NEW x \in Val, BindOne(x)
      PROVE  BindNext
  <2>1. Top.vars[Top.bound + 1] \in Var
    <3>1. stack # <<>> /\ Top.bound < Len(Top.vars)
      BY <1>3 DEF BindOne
    <3>2. Top.bound + 1 \in 1..Len(Top.vars)
      BY <3>1, TopFacts
    <3>3. QED
      BY <3>1, <3>2, BoundVariable
  <2>2. QED
    BY <1>3, <2>1 DEF BindOne, BindNext
<1>4. CASE UnbindOne
  <2>1. MunbindLast
    BY <1>4, UnbindsLast DEF UnbindOne, MunbindLast
  <2>2. QED
    BY <2>1 DEF BindNext
<1>5. CASE NextDone
  <2>1. Top.vars[1] \in Var
    <3>1. stack # <<>> /\ Top.phase = "next"
      BY <1>5 DEF NextDone
    <3>2. FrameOK(Top)
      BY <3>1, TopFacts
    <3>3. Len(Top.vars) = 1
      BY <3>1, <3>2, Zenon DEF FrameOK
    <3>4. 1 \in 1..Len(Top.vars)
      BY <3>3
    <3>5. QED
      BY <3>1, <3>4, BoundVariable
  <2>2. QED
    BY <1>5, <2>1 DEF NextDone, BindNext
<1>6. CASE Errlfun1
  BY <1>6 DEF Errlfun1, BindNext
<1>7. ASSUME NEW vs, MprogEnter(vs) \/ MlambdaEnter(vs) \/ EvEnter(vs)
      PROVE  UNCHANGED bvars
  BY <1>7 DEF MprogEnter, MlambdaEnter, EvEnter, Push
<1>8. ASSUME NEW v, MdoEnter(v)
      PROVE  UNCHANGED bvars
  BY <1>8 DEF MdoEnter, Push
<1>9. ASSUME NEW f, NEW d, Define(f, d)
      PROVE  UNCHANGED bvars
  BY <1>9 DEF Define
<1>10. ASSUME NEW f, LocalOne(f)
       PROVE  UNCHANGED bvars
  BY <1>10 DEF LocalOne
<1>11. ASSUME NEW e, Raise(e)
       PROVE  UNCHANGED bvars
  BY <1>11 DEF Raise
<1>12. CASE ErrcatchEnter \/ CatchEnter
  BY <1>12 DEF ErrcatchEnter, CatchEnter, Push
<1>13. CASE LocalBegin \/ LocalFail \/ LocalDone
  BY <1>13 DEF LocalBegin, LocalFail, LocalDone
<1>14. CASE ArgsDone \/ BodyDone \/ TestDone \/ DoBodyDone \/ HandlerDone \/ MdoinEmpty \/ BindFail
  BY <1>14 DEF ArgsDone, BodyDone, TestDone, DoBodyDone, HandlerDone, MdoinEmpty, BindFail
<1>15. CASE BindDone \/ Mlocal \/ UnbindDone \/ Unlocal \/ Unwind \/ CatchReturn \/ CatchExit
              \/ MacsymaQuit
  BY <1>15 DEF BindDone, Mlocal, UnbindDone, Unlocal, Unwind, CatchReturn, CatchExit, MacsymaQuit
<1>16. CASE UNCHANGED vars
  BY <1>16 DEF vars
<1>17. QED
  BY <1>1, <1>2, <1>3, <1>4, <1>5, <1>6, <1>7, <1>8, <1>9, <1>10, <1>11, <1>12, <1>13, <1>14,
     <1>15, <1>16 DEF EvalNext, EvalSteps, OwnSteps

-----------------------------------------------------------------------------
(***************************************************************************)
(* The invariant, action by action.                                        *)
(***************************************************************************)

(* The types of what is not a binding and not a frame, after a step.        *)
OthersKept == /\ prop' \in [Fun -> Props]
              /\ loclist' \in Seq(Seq(Fun)) /\ mproplist' \in Seq(Props)
              /\ inLocal' \in BOOLEAN /\ saving' \in Seq(Fun)
              /\ calls' \in Int
              /\ exit' \in Exits \cup {"none"}

Kept == FramesKept /\ OthersKept /\ ExitPhases'

LEMMA Others ==
  ASSUME EInv
  PROVE  /\ prop \in [Fun -> Props]
         /\ loclist \in Seq(Seq(Fun)) /\ mproplist \in Seq(Props)
         /\ inLocal \in BOOLEAN /\ saving \in Seq(Fun)
         /\ calls \in Int
         /\ exit \in Exits \cup {"none"}
         /\ stack \in Seq(Frame)
         /\ bindlist \in Seq(Var)
BY DEF EInv, EvalTypeOK, BindTypeOK

(* Entering a form, whatever it pushes on loclist. *)
LEMMA PushKept ==
  ASSUME EInv, NEW k \in Kinds, NEW ph \in Phases, NEW vs \in Seq(Var), Push(k, ph, vs),
         loclist' \in Seq(Seq(Fun)),
         \/ ph = "args" /\ k \in {"block", "do", "ev"} /\ loclist' = loclist
         \/ ph = "args" /\ k = "call" /\ Len(loclist') = Len(loclist) + 1
         \/ ph = "body" /\ k \in {"errcatch", "catch"} /\ vs = <<>> /\ loclist' = loclist,
         k = "do" => Len(vs) = 1
  PROVE  Kept
<1> DEFINE g == [kind |-> k, phase |-> ph, vars |-> vs, bound |-> 0,
                 bindl |-> Len(bindlist), locl |-> Len(loclist),
                 mlocp |-> k \in {"block", "call"}]
<1>1. /\ Len(bindlist) \in Nat /\ Len(loclist) \in Nat /\ Len(vs) \in Nat
      /\ vs = <<>> => Len(vs) = 0
  BY Others, LenProperties, EmptySeq
<1>2. /\ g.kind = k /\ g.phase = ph /\ g.vars = vs /\ g.bound = 0
      /\ g.bindl = Len(bindlist) /\ g.locl = Len(loclist)
  OBVIOUS
<1>3. g \in Frame
  BY <1>1 DEF Frame, Phases
<1>4. Evaluating /\ stack' = Append(stack, g) /\ UNCHANGED <<bvars, prop, mproplist, inLocal, saving, calls, exit>>
  BY DEF Push
<1> HIDE DEF g
<1>5. FrameOK(g)
  BY <1>1, <1>2 DEF FrameOK
<1>6. Len(loclist) + OwnLoc(g) <= Len(loclist')
  BY <1>1, <1>2 DEF OwnLoc
<1>7. AtTop(g, bindlist, loclist')
  BY <1>1, <1>2, <1>6 DEF AtTop
<1>8. Enters(g, bindlist, loclist, loclist')
  BY <1>2, <1>5, <1>7 DEF Enters
<1>9. stack # <<>> => stack[Len(stack)].phase \in Evaluates
  BY <1>4 DEF Evaluating, Top, Last
<1>10. FramesKept
  BY <1>3, <1>4, <1>8, <1>9, Others, PushFrame DEF FramesKept, EInv, bvars
<1>11. OthersKept
  BY <1>4, Others DEF OthersKept
<1>12. ExitPhases'
  BY <1>4 DEF ExitPhases, Evaluating
<1>13. QED
  BY <1>10, <1>11, <1>12 DEF Kept

LEMMA EnterKept ==
  ASSUME EInv, NEW vs \in VarLists, MprogEnter(vs) \/ MlambdaEnter(vs) \/ EvEnter(vs)
  PROVE  Kept
<1>1. vs \in Seq(Var) /\ loclist \in Seq(Seq(Fun)) /\ <<>> \in Seq(Fun)
  BY EvalAssumption, Others, EmptySeq
<1>2. CASE MprogEnter(vs)
  BY <1>1, <1>2, PushKept DEF MprogEnter, Phases, Kinds, Evaluates
<1>3. CASE MlambdaEnter(vs)
  <2>1. loclist' \in Seq(Seq(Fun)) /\ Len(loclist') = Len(loclist) + 1
    BY <1>1, <1>3, AppendProperties DEF MlambdaEnter
  <2>2. QED
    BY <1>1, <1>3, <2>1, PushKept DEF MlambdaEnter, Phases, Kinds, Evaluates
<1>4. CASE EvEnter(vs)
  BY <1>1, <1>4, PushKept DEF EvEnter, Phases, Kinds, Evaluates
<1>5. QED
  BY <1>2, <1>3, <1>4

LEMMA MdoEnterKept ==
  ASSUME EInv, NEW v \in Var, MdoEnter(v)
  PROVE  Kept
<1>1. <<v>> \in Seq(Var) /\ Len(<<v>>) = 1 /\ loclist \in Seq(Seq(Fun))
  BY Others
<1>2. QED
  BY <1>1, PushKept DEF MdoEnter, Phases, Kinds, Evaluates

LEMMA HandlerEnterKept ==
  ASSUME EInv, ErrcatchEnter \/ CatchEnter
  PROVE  Kept
<1>1. <<>> \in Seq(Var) /\ loclist \in Seq(Seq(Fun))
  BY Others, EmptySeq
<1>2. QED
  BY <1>1, PushKept DEF ErrcatchEnter, CatchEnter, Phases, Kinds, Evaluates

(* The innermost frame goes to another phase, all other conditions given.   *)
LEMMA PhaseKept ==
  ASSUME EInv, stack # <<>>, NEW ph \in Phases, UNCHANGED bindlist,
         FrameOK(WithPhase(Top, ph)),
         Top.locl + OwnLoc(WithPhase(Top, ph)) <= Len(loclist'),
         stack' = SetPhase(ph), OthersKept,
         inLocal' => exit' = "none" /\ ph \in Evaluates,
         exit' # "none" => ph \notin {"bind", "rebind", "restore"}
  PROVE  Kept
<1>1. FramesKept /\ stack' # <<>> /\ Last(stack') = WithPhase(Top, ph)
  BY TopGoesTo
<1>2. WithPhase(Top, ph).phase = ph
  BY TopFacts, WithPhaseFields
<1>3. ExitPhases'
  BY <1>1, <1>2 DEF ExitPhases, Top
<1>4. QED
  BY <1>1, <1>3 DEF Kept

(* The innermost frame is left, all other conditions given. *)
LEMMA LeftKept ==
  ASSUME EInv, stack # <<>>, UNCHANGED bindlist, Top.bound = 0,
         Top.locl <= Len(loclist'), stack' = Front(stack), OthersKept, ~inLocal'
  PROVE  Kept
<1>1. FramesKept /\ (stack' # <<>> => Last(stack').phase \in Evaluates)
  BY TopIsLeft DEF OthersKept
<1>2. ExitPhases'
  BY <1>1 DEF ExitPhases, Top, Evaluates
<1>3. QED
  BY <1>1, <1>2 DEF Kept

(* While a frame works for itself no local() is under way. *)
LEMMA NotLocal ==
  ASSUME EInv, stack # <<>>, Top.phase \in Works \/ Evaluating
  PROVE  ~inLocal
BY DEF EInv, ExitPhases, Works, Evaluates, Evaluating

LEMMA ArgsDoneKept ==
  ASSUME EInv, ArgsDone
  PROVE  Kept
<1> DEFINE g == WithPhase(Top, "bind")
<1>1. /\ stack # <<>> /\ Top.phase = "args" /\ UNCHANGED bindlist /\ ~inLocal'
      /\ exit' = "none" /\ stack' = SetPhase("bind") /\ Evaluating
  BY DEF ArgsDone, bvars, Evaluating
<1>2. "bind" \in Phases
  BY DEF Phases, Works
<1>3. /\ g.phase = "bind" /\ g.kind = Top.kind /\ g.vars = Top.vars
      /\ g.bound = Top.bound /\ FrameOK(Top)
      /\ Top.locl + OwnLoc(Top) <= Len(loclist)
      /\ Top.locl \in Nat /\ Len(loclist) \in Nat
  BY <1>1, <1>2, TopFacts, WithPhaseFields
<1> HIDE DEF g
<1>4. FrameOK(g)
  BY <1>1, <1>3 DEF FrameOK
<1>5. /\ loclist' \in Seq(Seq(Fun))
      /\ Len(loclist') = IF Top.kind = "block" THEN Len(loclist) + 1 ELSE Len(loclist)
  BY Others, AppendProperties, EmptySeq DEF ArgsDone
<1>6. Top.locl + OwnLoc(g) <= Len(loclist')
  BY <1>1, <1>3, <1>5 DEF OwnLoc
<1>7. OthersKept
  BY <1>5, Others DEF ArgsDone, OthersKept
<1>8. QED
  BY <1>1, <1>2, <1>4, <1>6, <1>7, PhaseKept DEF g

LEMMA BindDoneKept ==
  ASSUME EInv, BindDone
  PROVE  Kept
<1> DEFINE ph == IF Top.kind = "do" THEN "test" ELSE "body"
           g == WithPhase(Top, ph)
<1>1. /\ stack # <<>> /\ Top.bound = Len(Top.vars) /\ UNCHANGED <<bindlist, lvars, calls, exit>>
      /\ Top.phase \in {"bind", "rebind"} /\ (Top.phase = "bind" => Top.kind # "ev")
      /\ stack' = SetPhase(ph)
  BY DEF BindDone, bvars
<1>2. ph \in Phases /\ ph \in {"test", "body"} /\ (ph = "test" <=> Top.kind = "do")
  BY DEF Phases, Evaluates
<1>3. /\ g.phase = ph /\ g.kind = Top.kind /\ g.vars = Top.vars
      /\ g.bound = Top.bound /\ FrameOK(Top)
      /\ Top.locl + OwnLoc(Top) <= Len(loclist)
      /\ Top.locl \in Nat /\ Len(loclist) \in Nat
  BY <1>1, <1>2, TopFacts, WithPhaseFields
<1> HIDE DEF g, ph
<1>4. FrameOK(g)
  BY <1>1, <1>2, <1>3 DEF FrameOK
<1>5. OwnLoc(g) = OwnLoc(Top)
  BY <1>1, <1>2, <1>3 DEF OwnLoc, FrameOK
<1>6. Top.locl + OwnLoc(g) <= Len(loclist')
  BY <1>1, <1>3, <1>5 DEF lvars
<1>7. OthersKept
  BY <1>1, Others DEF lvars, OthersKept
<1>8. ~inLocal'
  BY <1>1, NotLocal DEF lvars, Works
<1>9. ph \notin {"bind", "rebind", "restore"}
  BY <1>2
<1>10. QED
  BY <1>1, <1>2, <1>4, <1>6, <1>7, <1>8, <1>9, PhaseKept DEF g

LEMMA MlocalKept ==
  ASSUME EInv, Mlocal
  PROVE  Kept
<1> DEFINE g == WithPhase(Top, "mlocal")
<1>1. /\ stack # <<>> /\ Top.bound = Len(Top.vars) /\ UNCHANGED <<bindlist, calls, exit>>
      /\ Top.phase = "bind" /\ Top.kind = "ev"
      /\ stack' = SetPhase("mlocal")
      /\ loclist' = Append(loclist, <<>>)
  BY DEF Mlocal, bvars
<1>2. "mlocal" \in Phases /\ "mlocal" \in Evaluates
  BY DEF Phases, Evaluates
<1>3. /\ g.phase = "mlocal" /\ g.kind = Top.kind /\ g.vars = Top.vars
      /\ g.bound = Top.bound /\ FrameOK(Top)
      /\ Top.locl + OwnLoc(Top) <= Len(loclist)
      /\ Top.locl \in Nat /\ Len(loclist) \in Nat
  BY <1>1, <1>2, TopFacts, WithPhaseFields
<1> HIDE DEF g
<1>4. FrameOK(g)
  BY <1>1, <1>3 DEF FrameOK
<1>5. loclist' \in Seq(Seq(Fun)) /\ Len(loclist') = Len(loclist) + 1
  BY <1>1, Others, AppendProperties, EmptySeq
<1>6. Top.locl + OwnLoc(g) <= Len(loclist')
  BY <1>1, <1>3, <1>5 DEF OwnLoc
<1>7. OthersKept
  BY <1>5, Others, EmptySeq DEF Mlocal, OthersKept
<1>8. exit' = "none"
  BY <1>1 DEF EInv, ExitPhases
<1>9. QED
  BY <1>1, <1>2, <1>4, <1>6, <1>7, <1>8, PhaseKept DEF g

LEMMA BindFailKept ==
  ASSUME EInv, BindFail
  PROVE  Kept
<1>0. PICK ph \in {"undo", "unbind"} :
        /\ stack' = SetPhase(ph)
        /\ \/ Top.phase = "bind" /\ ph = "undo"
           \/ Top.phase = "rebind" /\ ph = "unbind"
  <2>1. \/ Top.phase = "bind" /\ stack' = SetPhase("undo")
        \/ Top.phase = "rebind" /\ stack' = SetPhase("unbind")
    BY DEF BindFail
  <2>2. QED
    BY <2>1, Zenon
<1> DEFINE g == WithPhase(Top, ph)
<1>1. /\ stack # <<>> /\ UNCHANGED <<bindlist, lvars, calls>> /\ exit' = "error"
      /\ Top.phase \in {"bind", "rebind"}
      /\ stack' = SetPhase(ph)
  BY <1>0 DEF BindFail, bvars
<1>2. /\ ph \in Phases
      /\ \/ Top.phase = "bind" /\ ph = "undo"
         \/ Top.phase = "rebind" /\ ph = "unbind"
  BY <1>0 DEF Phases, Evaluates, Works
<1>3. /\ g.phase = ph /\ g.kind = Top.kind /\ g.vars = Top.vars
      /\ g.bound = Top.bound /\ FrameOK(Top)
      /\ Top.locl + OwnLoc(Top) <= Len(loclist)
      /\ Top.locl \in Nat /\ Len(loclist) \in Nat
  BY <1>1, <1>2, TopFacts, WithPhaseFields
<1> HIDE DEF g
<1>4. FrameOK(g)
  BY <1>2, <1>3 DEF FrameOK
<1>5. OwnLoc(g) = OwnLoc(Top)
  BY <1>2, <1>3 DEF OwnLoc, FrameOK
<1>6. Top.locl + OwnLoc(g) <= Len(loclist')
  BY <1>1, <1>3, <1>5 DEF lvars
<1>7. OthersKept
  BY <1>1, Others DEF lvars, OthersKept, Exits
<1>8. ~inLocal'
  BY <1>1, NotLocal DEF lvars, Works
<1>9. ph \notin {"bind", "rebind", "restore"}
  BY <1>2
<1>10. QED
  BY <1>1, <1>2, <1>4, <1>6, <1>7, <1>8, <1>9, PhaseKept DEF g

LEMMA BodyDoneKept ==
  ASSUME EInv, BodyDone
  PROVE  Kept
<1> DEFINE g == WithPhase(Top, CleanupPhase)
<1>1. /\ stack # <<>> /\ UNCHANGED <<bindlist, lvars, exit>> /\ Evaluating
      /\ \/ Top.phase = "body" /\ Top.kind \in {"block", "call", "ev"}
         \/ Top.phase \in {"test", "pre"}
      /\ stack' = SetPhase(CleanupPhase)
      /\ calls' = IF Top.kind = "call" THEN calls - 1 ELSE calls
  BY DEF BodyDone, StartCleanup, bvars
<1>2. /\ CleanupPhase \in Phases
      /\ \/ Top.kind = "call" /\ CleanupPhase = "unlocal"
         \/ Top.kind # "call" /\ Top.phase \in {"mlocal", "pre"} /\ CleanupPhase = "retract"
         \/ Top.kind # "call" /\ Top.phase \notin {"mlocal", "pre"} /\ CleanupPhase = "unbind"
  BY DEF CleanupPhase, Phases, Works
<1>3. /\ g.phase = CleanupPhase /\ g.kind = Top.kind /\ g.vars = Top.vars
      /\ g.bound = Top.bound /\ FrameOK(Top)
      /\ Top.locl + OwnLoc(Top) <= Len(loclist)
      /\ Top.locl \in Nat /\ Len(loclist) \in Nat
  BY <1>1, <1>2, TopFacts, WithPhaseFields
<1> HIDE DEF g
<1>4. FrameOK(g)
  BY <1>1, <1>2, <1>3 DEF FrameOK
<1>5. OwnLoc(g) = OwnLoc(Top)
  BY <1>1, <1>2, <1>3 DEF OwnLoc, FrameOK
<1>6. Top.locl + OwnLoc(g) <= Len(loclist')
  BY <1>1, <1>3, <1>5 DEF lvars
<1>7. OthersKept
  BY <1>1, Others DEF lvars, OthersKept
<1>8. ~inLocal' /\ CleanupPhase \notin {"bind", "rebind", "restore"}
  BY <1>1, <1>2 DEF lvars, Evaluating
<1>9. QED
  BY <1>1, <1>2, <1>4, <1>6, <1>7, <1>8, PhaseKept DEF g

LEMMA TestDoneKept ==
  ASSUME EInv, TestDone
  PROVE  Kept
<1> DEFINE g == WithPhase(Top, "body")
<1>1. /\ stack # <<>> /\ UNCHANGED <<bindlist, lvars, calls, exit>> /\ Evaluating
      /\ Top.phase = "test" /\ stack' = SetPhase("body")
  BY DEF TestDone, bvars
<1>2. "body" \in Phases
  BY DEF Phases, Evaluates
<1>3. /\ g.phase = "body" /\ g.kind = Top.kind /\ g.vars = Top.vars
      /\ g.bound = Top.bound /\ FrameOK(Top)
      /\ Top.locl + OwnLoc(Top) <= Len(loclist)
  BY <1>1, <1>2, TopFacts, WithPhaseFields
<1> HIDE DEF g
<1>4. FrameOK(g)
  BY <1>1, <1>3 DEF FrameOK
<1>5. OwnLoc(g) = OwnLoc(Top)
  BY <1>1, <1>3 DEF OwnLoc, FrameOK
<1>6. Top.locl + OwnLoc(g) <= Len(loclist')
  BY <1>1, <1>3, <1>5 DEF lvars
<1>7. OthersKept
  BY <1>1, Others DEF lvars, OthersKept
<1>8. ~inLocal'
  BY <1>1 DEF lvars, Evaluating
<1>9. QED
  BY <1>1, <1>2, <1>4, <1>6, <1>7, <1>8, PhaseKept DEF g

LEMMA DoBodyDoneKept ==
  ASSUME EInv, DoBodyDone
  PROVE  Kept
<1> DEFINE g == WithPhase(Top, "next")
<1>1. /\ stack # <<>> /\ UNCHANGED <<bindlist, lvars, calls, exit>> /\ Evaluating
      /\ Top.phase = "body" /\ Top.kind = "do" /\ stack' = SetPhase("next")
  BY DEF DoBodyDone, bvars
<1>2. "next" \in Phases
  BY DEF Phases, Evaluates
<1>3. /\ g.phase = "next" /\ g.kind = Top.kind /\ g.vars = Top.vars
      /\ g.bound = Top.bound /\ FrameOK(Top)
      /\ Top.locl + OwnLoc(Top) <= Len(loclist)
  BY <1>1, <1>2, TopFacts, WithPhaseFields
<1> HIDE DEF g
<1>4. FrameOK(g)
  BY <1>1, <1>3 DEF FrameOK
<1>5. OwnLoc(g) = OwnLoc(Top)
  BY <1>1, <1>3 DEF OwnLoc
<1>6. Top.locl + OwnLoc(g) <= Len(loclist')
  BY <1>1, <1>3, <1>5 DEF lvars
<1>7. OthersKept
  BY <1>1, Others DEF lvars, OthersKept
<1>8. ~inLocal'
  BY <1>1 DEF lvars, Evaluating
<1>9. QED
  BY <1>1, <1>2, <1>4, <1>6, <1>7, <1>8, PhaseKept DEF g

LEMMA NextDoneKept ==
  ASSUME EInv, NextDone
  PROVE  Kept
<1>1. PICK ph \in {"test", "unbind"} : stack' = SetPhase(ph)
  BY DEF NextDone
<1> DEFINE g == WithPhase(Top, ph)
<1>2. /\ stack # <<>> /\ UNCHANGED <<bindlist, lvars, calls, exit>> /\ Evaluating
      /\ Top.phase = "next"
  BY DEF NextDone, bvars, Mset
<1>3. ph \in Phases /\ ph \in {"test", "unbind"}
  BY DEF Phases, Evaluates, Works
<1>4. /\ g.phase = ph /\ g.kind = Top.kind /\ g.vars = Top.vars
      /\ g.bound = Top.bound /\ FrameOK(Top)
      /\ Top.locl + OwnLoc(Top) <= Len(loclist)
  BY <1>2, <1>3, TopFacts, WithPhaseFields
<1> HIDE DEF g
<1>5. FrameOK(g) /\ Top.kind = "do"
  BY <1>2, <1>3, <1>4 DEF FrameOK
<1>6. OwnLoc(g) = OwnLoc(Top)
  BY <1>2, <1>4, <1>5 DEF OwnLoc
<1>7. Top.locl + OwnLoc(g) <= Len(loclist')
  BY <1>2, <1>4, <1>6 DEF lvars
<1>8. OthersKept
  BY <1>2, Others DEF lvars, OthersKept
<1>9. ~inLocal' /\ ph \notin {"bind", "rebind", "restore"}
  BY <1>2, <1>3 DEF lvars, Evaluating
<1>10. QED
  BY <1>1, <1>2, <1>3, <1>5, <1>7, <1>8, <1>9, PhaseKept DEF g

LEMMA HandlerDoneKept ==
  ASSUME EInv, HandlerDone
  PROVE  Kept
<1> DEFINE g == WithPhase(Top, "restore")
<1>1. /\ stack # <<>> /\ UNCHANGED <<bindlist, lvars, calls, exit>> /\ Evaluating
      /\ Top.kind \in {"errcatch", "catch"} /\ exit' = "none"
      /\ stack' = IF Top.kind = "catch" THEN SetPhase("restore") ELSE Front(stack)
  BY DEF HandlerDone, bvars, Evaluating
<1>2. "restore" \in Phases
  BY DEF Phases, Works
<1>3. /\ g.phase = "restore" /\ g.kind = Top.kind /\ g.vars = Top.vars
      /\ g.bound = Top.bound /\ FrameOK(Top)
      /\ Top.locl + OwnLoc(Top) <= Len(loclist)
      /\ Top.locl \in Nat /\ Len(loclist) \in Nat /\ Top.bound \in Nat
  BY <1>1, <1>2, TopFacts, WithPhaseFields
<1> HIDE DEF g
<1>4. FrameOK(g) /\ Top.bound = 0
  BY <1>1, <1>3 DEF FrameOK
<1>5. OwnLoc(g) = 0 /\ OwnLoc(Top) = 0
  BY <1>1, <1>3 DEF OwnLoc
<1>6. Top.locl + OwnLoc(g) <= Len(loclist') /\ Top.locl <= Len(loclist')
  BY <1>1, <1>3, <1>5 DEF lvars
<1>7. OthersKept
  BY <1>1, Others DEF lvars, OthersKept
<1>8. ~inLocal'
  BY <1>1 DEF lvars, Evaluating
<1>9. CASE Top.kind = "catch"
  BY <1>1, <1>2, <1>4, <1>6, <1>7, <1>8, <1>9, PhaseKept DEF g
<1>10. CASE Top.kind # "catch"
  BY <1>1, <1>4, <1>6, <1>7, <1>8, <1>10, LeftKept
<1>11. QED
  BY <1>9, <1>10

LEMMA MdoinEmptyKept ==
  ASSUME EInv, MdoinEmpty
  PROVE  Kept
<1>1. /\ stack # <<>> /\ UNCHANGED <<bindlist, lvars, calls, exit>> /\ Evaluating
      /\ Top.kind = "do" /\ Top.phase = "args" /\ stack' = Front(stack)
  BY DEF MdoinEmpty, bvars
<1>2. FrameOK(Top) /\ Top.locl + OwnLoc(Top) <= Len(loclist) /\ Top.locl \in Nat
  BY <1>1, TopFacts
<1>3. Top.bound = 0 /\ OwnLoc(Top) = 0
  BY <1>1, <1>2 DEF FrameOK, OwnLoc
<1>4. Top.locl <= Len(loclist')
  BY <1>1, <1>2, <1>3 DEF lvars
<1>5. OthersKept
  BY <1>1, Others DEF lvars, OthersKept
<1>6. ~inLocal'
  BY <1>1 DEF lvars, Evaluating
<1>7. QED
  BY <1>1, <1>3, <1>4, <1>5, <1>6, LeftKept

(***************************************************************************)
(* Evaluating and local(): the frames stay.                                 *)
(***************************************************************************)

LEMMA SameFramesKept ==
  ASSUME EInv, UNCHANGED <<bindlist, stack>>, Len(loclist') = Len(loclist), OthersKept,
         inLocal' => exit' = "none" /\ stack # <<>> /\ Top.phase \in Evaluates,
         exit' # "none" /\ stack # <<>> => Top.phase \notin {"bind", "rebind", "restore"}
  PROVE  Kept
<1>1. stack # <<>> => Top.locl + OwnLoc(Top) <= Len(loclist')
  BY TopFacts
<1>2. FramesKept
  BY <1>1, OnlyNamesChange DEF OthersKept
<1>3. ExitPhases'
  BY DEF ExitPhases, Top
<1>4. QED
  BY <1>2, <1>3 DEF Kept

LEMMA EvaluatingKept ==
  ASSUME EInv,
         AssignVar \/ (\E f \in Fun, d \in Def : Define(f, d)) \/ LocalBegin
           \/ (\E e \in Exits : Raise(e))
  PROVE  Kept
<1>1. Evaluating /\ UNCHANGED <<bindlist, stack, loclist, mproplist, calls>>
  BY DEF AssignVar, Define, LocalBegin, Raise, Remvalue, Mset, lvars, bvars
<1>2. prop' \in [Fun -> Props]
  BY Others DEF AssignVar, Define, LocalBegin, Raise, lvars, Props
<1>3. inLocal' \in BOOLEAN /\ saving' \in Seq(Fun) /\ exit' \in Exits \cup {"none"}
  BY Others, EmptySeq DEF AssignVar, Define, LocalBegin, Raise, lvars
<1>4. OthersKept
  BY <1>1, <1>2, <1>3, Others DEF OthersKept
<1>5. inLocal' => exit' = "none" /\ stack # <<>>
  <2>1. CASE LocalBegin
    <3>1. Live # {} /\ exit' = "none"
      BY <2>1 DEF LocalBegin, Binder, Evaluating
    <3>2. stack = <<>> => Live = {}
      BY EmptySeq DEF Live
    <3>3. QED
      BY <3>1, <3>2
  <2>2. CASE ~LocalBegin
    <3>1. inLocal' = inLocal
      BY <2>2 DEF AssignVar, Define, Raise, lvars
    <3>2. QED
      BY <1>1, <3>1 DEF Evaluating
  <2>3. QED
    BY <2>1, <2>2
<1>6. stack # <<>> => Top.phase \in Evaluates /\ Top.phase \notin {"bind", "rebind", "restore"}
  BY <1>1 DEF Evaluating, Evaluates
<1>7. QED
  BY <1>1, <1>4, <1>5, <1>6, SameFramesKept

LEMMA LocalOneKept ==
  ASSUME EInv, NEW f \in Fun, LocalOne(f)
  PROVE  Kept
<1>1. UNCHANGED <<bindlist, stack, loclist, inLocal, calls, exit>> /\ inLocal
  BY DEF LocalOne, bvars
<1>2. prop[f] \in Props /\ prop' \in [Fun -> Props]
  BY Others DEF LocalOne, Props
<1>3. mproplist' \in Seq(Props) /\ saving' \in Seq(Fun)
  BY <1>2, Others, AppendProperties DEF LocalOne
<1>4. OthersKept
  BY <1>1, <1>2, <1>3, Others DEF OthersKept
<1>5. exit = "none" /\ stack # <<>> /\ Top.phase \in Evaluates
  BY <1>1 DEF EInv, ExitPhases
<1>6. QED
  BY <1>1, <1>4, <1>5, SameFramesKept

LEMMA LocalFailKept ==
  ASSUME EInv, LocalFail
  PROVE  Kept
<1>1. UNCHANGED <<bindlist, stack, loclist, mproplist, prop, calls>> /\ inLocal
      /\ ~inLocal' /\ saving' = <<>> /\ exit' = "error" /\ inLocal' \in BOOLEAN
  BY DEF LocalFail, bvars
<1>2. OthersKept
  BY <1>1, Others, EmptySeq DEF OthersKept, Exits
<1>3. Top.phase \in Evaluates /\ Top.phase \notin {"bind", "rebind", "restore"}
  BY <1>1 DEF EInv, ExitPhases, Evaluates
<1>4. QED
  BY <1>1, <1>2, <1>3, SameFramesKept

(* local() that succeeds: the names go to the head of loclist, and mlocp is  *)
(* off, which the invariant does not look at.                               *)
SameBut(f, g) == /\ g.kind = f.kind /\ g.phase = f.phase /\ g.vars = f.vars
                 /\ g.bound = f.bound /\ g.bindl = f.bindl /\ g.locl = f.locl

LEMMA SameButFits ==
  ASSUME NEW stk \in Seq(Frame), NEW stk2 \in Seq(Frame), Len(stk2) = Len(stk),
         \A i \in 1..Len(stk) : SameBut(stk[i], stk2[i]),
         NEW bl, NEW ll, NEW ll2, Len(ll2) = Len(ll), Fits(stk, bl, ll)
  PROVE  Fits(stk2, bl, ll2)
<1> DEFINE n == Len(stk)
<1>1. n \in Nat /\ Len(stk2) = n /\ (stk = <<>> <=> stk2 = <<>>)
  BY LenProperties, EmptySeq
<1> HIDE DEF n
<1>2. ASSUME NEW f, NEW g, SameBut(f, g)
      PROVE  /\ OwnLoc(g) = OwnLoc(f) /\ (FrameOK(f) => FrameOK(g))
             /\ (Names(f, bl) => Names(g, bl)) /\ (AtTop(f, bl, ll) => AtTop(g, bl, ll2))
  <2>1. OwnLoc(g) = OwnLoc(f)
    BY <1>2 DEF SameBut, OwnLoc
  <2>2. FrameOK(f) => FrameOK(g)
    BY <1>2 DEF SameBut, FrameOK
  <2>3. Names(f, bl) => Names(g, bl)
    BY <1>2 DEF SameBut, Names
  <2>4. AtTop(f, bl, ll) => AtTop(g, bl, ll2)
    BY <1>2, <2>1 DEF SameBut, AtTop
  <2>5. QED
    BY <2>1, <2>2, <2>3, <2>4
<1>3. \A i \in 1..n : SameBut(stk[i], stk2[i])
  BY DEF n
<1>4. stk2 # <<>> => stk2[1].bindl = 0 /\ AtTop(stk2[Len(stk2)], bl, ll2)
  <2>1. SUFFICES ASSUME stk2 # <<>>
                 PROVE  stk2[1].bindl = 0 /\ AtTop(stk2[Len(stk2)], bl, ll2)
    OBVIOUS
  <2>2. 1 \in 1..n /\ n \in 1..n
    BY <1>1, <2>1, EmptySeq
  <2>3. stk[1].bindl = 0 /\ AtTop(stk[n], bl, ll)
    BY <1>1, <2>1 DEF Fits, n
  <2>4. SameBut(stk[1], stk2[1]) /\ SameBut(stk[n], stk2[n])
    BY <1>3, <2>2
  <2>5. stk2[1].bindl = 0
    BY <2>3, <2>4 DEF SameBut
  <2>6. AtTop(stk2[n], bl, ll2)
    BY <1>2, <2>3, <2>4
  <2>7. QED
    BY <1>1, <2>5, <2>6
<1>5. ASSUME NEW i \in 1..(n - 1)
      PROVE  Below(stk2[i], stk2[i + 1])
  <2>1. i \in 1..n /\ i + 1 \in 1..n /\ Below(stk[i], stk[i + 1])
    BY <1>1 DEF Fits, n
  <2>2. SameBut(stk[i], stk2[i]) /\ SameBut(stk[i + 1], stk2[i + 1])
    BY <1>3, <2>1
  <2>3. OwnLoc(stk2[i]) = OwnLoc(stk[i])
    BY <1>2, <2>2
  <2>4. QED
    BY <2>1, <2>2, <2>3 DEF SameBut, Below
<1>6. ASSUME NEW i \in 1..n
      PROVE  FrameOK(stk2[i]) /\ Names(stk2[i], bl)
  <2>1. FrameOK(stk[i]) /\ Names(stk[i], bl)
    BY DEF Fits, n
  <2>2. QED
    BY <1>2, <1>3, <2>1
<1>7. Ordered(stk2)
  <2>1. ASSUME NEW i \in 1..n, NEW j \in 1..n, i < j
        PROVE  stk2[i].bindl + stk2[i].bound <= stk2[j].bindl
    <3>1. stk[i].bindl + stk[i].bound <= stk[j].bindl
      BY <2>1 DEF Fits, Ordered, n
    <3>2. QED
      BY <1>3, <3>1 DEF SameBut
  <2>2. QED
    BY <1>1, <2>1 DEF Ordered
<1>8. stk2 = <<>> => bl = <<>>
  BY <1>1 DEF Fits
<1>9. QED
  BY <1>1, <1>4, <1>5, <1>6, <1>7, <1>8 DEF Fits

LEMMA LocalDoneKept ==
  ASSUME EInv, LocalDone
  PROVE  Kept
<1>1. /\ UNCHANGED <<bindlist, prop, mproplist, calls>> /\ inLocal /\ inLocal' = FALSE
      /\ saving' = <<>>
  BY DEF LocalDone, bvars
<1>2. exit = "none" /\ stack # <<>> /\ Top.phase \in Evaluates
  BY <1>1 DEF EInv, ExitPhases
<1>3. CASE loclist = <<>>
  <2>1. UNCHANGED <<loclist, stack>> /\ exit' = "error"
    BY <1>3 DEF LocalDone
  <2>2. OthersKept
    BY <1>1, <2>1, Others, EmptySeq DEF OthersKept, Exits
  <2>3. Top.phase \notin {"bind", "rebind", "restore"}
    BY <1>2 DEF Evaluates
  <2>4. QED
    BY <1>1, <2>1, <2>2, <2>3, SameFramesKept
<1>4. CASE loclist # <<>>
  <2>1. /\ loclist' = [loclist EXCEPT ![Len(loclist)] = saving] /\ exit' = exit
        /\ \/ Top.phase = "mlocal" /\ stack' = SetPhase("pre")
           \/ stack' = [i \in Live |-> IF Binder(i) THEN [stack[i] EXCEPT !.mlocp = FALSE]
                                                    ELSE stack[i]]
    BY <1>4 DEF LocalDone
  <2>2. loclist' \in Seq(Seq(Fun)) /\ Len(loclist') = Len(loclist)
    <3>1. Len(loclist) \in 1..Len(loclist)
      BY <1>4, Others, EmptySeq
    <3>2. QED
      BY <2>1, <3>1, Others, ExceptSeq
  <2>3. OthersKept
    BY <1>1, <1>2, <2>1, <2>2, Others, EmptySeq DEF OthersKept
  <2>4. CASE Top.phase = "mlocal" /\ stack' = SetPhase("pre")
    <3> DEFINE g == WithPhase(Top, "pre")
    <3>1. "pre" \in Phases
      BY DEF Phases, Evaluates
    <3>2. /\ g.phase = "pre" /\ g.kind = Top.kind /\ g.vars = Top.vars
          /\ g.bound = Top.bound /\ FrameOK(Top)
          /\ Top.locl + OwnLoc(Top) <= Len(loclist)
      BY <1>2, <3>1, TopFacts, WithPhaseFields
    <3> HIDE DEF g
    <3>3. FrameOK(g)
      BY <2>4, <3>2 DEF FrameOK
    <3>4. OwnLoc(g) = OwnLoc(Top)
      BY <2>4, <3>2 DEF OwnLoc
    <3>5. Top.locl + OwnLoc(g) <= Len(loclist')
      BY <2>2, <3>2, <3>4
    <3>6. exit' = "none"
      BY <1>2, <2>1
    <3>7. QED
      BY <1>1, <1>2, <2>3, <2>4, <3>1, <3>3, <3>5, <3>6, PhaseKept DEF g
  <2>5. CASE stack' = [i \in Live |-> IF Binder(i) THEN [stack[i] EXCEPT !.mlocp = FALSE]
                                                  ELSE stack[i]]
    <3>1. Len(stack) \in Nat /\ \A i \in 1..Len(stack) : stack[i] \in Frame
      BY Others, LenProperties, ElementOfSeq
    <3>2. ASSUME NEW i \in 1..Len(stack)
          PROVE  stack'[i] \in Frame /\ SameBut(stack[i], stack'[i])
      <4>1. stack[i] \in Frame
        BY <3>1
      <4>2. stack'[i] = stack[i] \/ stack'[i] = [stack[i] EXCEPT !.mlocp = FALSE]
        BY <2>5 DEF Live
      <4>3. [stack[i] EXCEPT !.mlocp = FALSE] \in Frame
            /\ SameBut(stack[i], [stack[i] EXCEPT !.mlocp = FALSE])
        BY <4>1 DEF Frame, SameBut
      <4>4. SameBut(stack[i], stack[i])
        BY DEF SameBut
      <4>5. QED
        BY <4>1, <4>2, <4>3, <4>4
    <3>3. stack' \in [1..Len(stack) -> Frame]
      BY <2>5, <3>2 DEF Live
    <3>4. stack' \in Seq(Frame)
      BY <3>1, <3>3, SeqDef
    <3>5. Len(stack') = Len(stack)
      BY <3>1, <3>3, <3>4, LenProperties
    <3>6. FramesKept
      BY <1>1, <2>2, <3>2, <3>4, <3>5, Others, SameButFits DEF FramesKept, EInv
    <3>7. ExitPhases'
      BY <1>1, <1>2, <2>1 DEF ExitPhases
    <3>8. QED
      BY <2>3, <3>6, <3>7 DEF Kept
  <2>6. QED
    BY <2>1, <2>4, <2>5
<1>5. QED
  BY <1>3, <1>4

(***************************************************************************)
(* Binding, unbinding and cleaning up.                                      *)
(***************************************************************************)

(* The part of bindlist above a mark a holds b of its n entries. *)
LEMMA CountUp ==
  ASSUME NEW a \in Nat, NEW b \in Nat, NEW n, n = a + b
  PROVE  /\ b + 1 \in Nat
         /\ a + (b + 1) = n + 1
         /\ a <= n
         /\ a <= n + 1
         /\ \A k \in 1..a : k \in 1..n
         /\ \A k \in 1..b : a + k \in 1..n
OBVIOUS

LEMMA CountDown ==
  ASSUME NEW a \in Nat, NEW b \in Nat, NEW n, n = a + b, b > 0
  PROVE  /\ b - 1 \in Nat /\ n - 1 = a + (b - 1) /\ a <= n - 1
         /\ \A k \in 1..(b - 1) : k \in 1..b /\ a + k \in 1..(n - 1)
OBVIOUS

LEMMA BindOneKept ==
  ASSUME EInv, NEW x \in Val, BindOne(x)
  PROVE  Kept
<1> DEFINE v == Top.vars[Top.bound + 1]
           g == WithBound(Top, Top.bound + 1)
<1>1. /\ stack # <<>> /\ Top.phase \in {"bind", "rebind"} /\ Top.bound < Len(Top.vars)
      /\ bindlist' = Append(bindlist, v)
      /\ stack' = [stack EXCEPT ![Len(stack)].bound = @ + 1]
      /\ UNCHANGED <<lvars, calls, exit>>
  BY DEF BindOne, MbindOne
<1>2. /\ Top.bound + 1 \in 1..Len(Top.vars) /\ Top.bound \in Nat /\ Top.bindl \in Nat
      /\ Len(bindlist) \in Nat /\ Len(bindlist) = Top.bindl + Top.bound
      /\ Top = stack[Len(stack)] /\ Top \in Frame
      /\ FrameOK(Top) /\ Names(Top, bindlist)
      /\ Top.locl + OwnLoc(Top) <= Len(loclist)
  <2>1. /\ Top.bound \in Nat /\ Len(Top.vars) \in Nat /\ Top.bound < Len(Top.vars)
    BY <1>1, TopFacts
  <2>2. Top.bound + 1 \in 1..Len(Top.vars)
    BY ONLY <2>1
  <2>3. QED
    BY <1>1, <2>2, TopFacts, Zenon
<1>2a. /\ Top.bound + 1 \in Nat /\ Top.bindl + (Top.bound + 1) = Len(bindlist) + 1
       /\ Top.bindl <= Len(bindlist) /\ Top.bindl <= Len(bindlist) + 1
       /\ \A k \in 1..Top.bindl : k \in 1..Len(bindlist)
       /\ \A k \in 1..Top.bound : Top.bindl + k \in 1..Len(bindlist)
  <2>1. Top.bindl \in Nat /\ Top.bound \in Nat /\ Len(bindlist) = Top.bindl + Top.bound
    BY ONLY <1>2
  <2> DEFINE a == Top.bindl
             b == Top.bound
             m == Len(bindlist)
  <2>2. a \in Nat /\ b \in Nat /\ m = a + b
    BY ONLY <2>1
  <2> HIDE DEF a, b, m
  <2>3. /\ b + 1 \in Nat /\ a + (b + 1) = m + 1 /\ a <= m /\ a <= m + 1
        /\ \A k \in 1..a : k \in 1..m
        /\ \A k \in 1..b : a + k \in 1..m
    BY ONLY <2>2, CountUp
  <2>4. QED
    BY ONLY <2>3 DEF a, b, m
<1>3. /\ g \in Frame /\ g.bound = Top.bound + 1 /\ g.kind = Top.kind /\ g.vars = Top.vars
      /\ g.phase = Top.phase /\ g.bindl = Top.bindl /\ g.locl = Top.locl
  <2>1. Top \in Frame /\ Top.bound + 1 \in Nat
    BY ONLY <1>2, <1>2a
  <2>2. QED
    BY ONLY <2>1, WithBoundFields
<1>4. stack' = [stack EXCEPT ![Len(stack)] = g]
  BY <1>1, <1>2 DEF WithBound
<1>5. v \in Var
  BY <1>1, <1>2, BoundVariable
<1>6. v = Top.vars[Top.bound + 1]
  OBVIOUS
<1> HIDE DEF g, v
<1>7. /\ bindlist' \in Seq(Var) /\ Len(bindlist') = Len(bindlist) + 1
      /\ bindlist'[Len(bindlist) + 1] = v
      /\ \A k \in 1..Len(bindlist) : bindlist'[k] = bindlist[k]
  BY <1>1, <1>5, Others, AppendProperties
<1>8. FrameOK(g)
  BY <1>1, <1>2, <1>3 DEF FrameOK
<1>9. OwnLoc(g) = OwnLoc(Top)
  BY <1>3 DEF OwnLoc
<1>10. AtTop(g, bindlist', loclist')
  BY <1>1, <1>2, <1>3, <1>7, <1>9 DEF AtTop, lvars
<1>11. Names(g, bindlist')
  <2>1. ASSUME NEW k \in 1..(Top.bound + 1)
        PROVE  bindlist'[Top.bindl + k] = Top.vars[k]
    <3>1. CASE k = Top.bound + 1
      BY <1>2a, <1>6, <1>7, <3>1
    <3>2. CASE k \in 1..Top.bound
      <4>1. Top.bindl + k \in 1..Len(bindlist)
        BY <1>2a, <3>2
      <4>2. QED
        BY <1>2, <1>7, <3>2, <4>1 DEF Names
    <3>3. QED
      BY <1>2, <3>1, <3>2
  <2>2. QED
    BY <1>3, <2>1 DEF Names
<1>12. AgreeUpTo(bindlist, bindlist', Top.bindl)
  BY <1>2a, <1>7 DEF AgreeUpTo
<1>13. FramesKept /\ stack' # <<>> /\ Last(stack') = g
  BY <1>1, <1>3, <1>4, <1>7, <1>8, <1>10, <1>11, <1>12, TopBecomes DEF Replaces
<1>14. OthersKept
  BY <1>1, Others DEF lvars, OthersKept
<1>15. ~inLocal' /\ exit' = "none"
  BY <1>1, NotLocal DEF lvars, Works, EInv, ExitPhases
<1>16. QED
  BY <1>13, <1>14, <1>15 DEF Kept, ExitPhases

LEMMA UnbindOneKept ==
  ASSUME EInv, UnbindOne
  PROVE  Kept
<1> DEFINE g == WithBound(Top, Top.bound - 1)
<1>1. /\ stack # <<>> /\ Top.phase \in Unbinds /\ Top.bound > 0
      /\ bindlist' = Front(bindlist)
      /\ stack' = [stack EXCEPT ![Len(stack)].bound = @ - 1]
      /\ UNCHANGED <<lvars, calls, exit>>
  BY DEF UnbindOne, Munbind
<1>2. /\ Top.bound \in Nat /\ Top.bindl \in Nat
      /\ Len(bindlist) \in Nat /\ Len(bindlist) = Top.bindl + Top.bound
      /\ Top = stack[Len(stack)] /\ Top \in Frame /\ Len(Top.vars) \in Nat
      /\ FrameOK(Top) /\ Names(Top, bindlist)
      /\ Top.locl + OwnLoc(Top) <= Len(loclist)
  BY <1>1, TopFacts
<1>2a. /\ Top.bound - 1 \in Nat /\ Len(bindlist) - 1 = Top.bindl + (Top.bound - 1)
       /\ Top.bindl <= Len(bindlist) - 1
       /\ \A k \in 1..(Top.bound - 1) :
             k \in 1..Top.bound /\ Top.bindl + k \in 1..(Len(bindlist) - 1)
  <2>1. Top.bindl \in Nat /\ Top.bound \in Nat /\ Len(bindlist) = Top.bindl + Top.bound
        /\ Top.bound > 0
    BY ONLY <1>1, <1>2
  <2> DEFINE a == Top.bindl
             b == Top.bound
             m == Len(bindlist)
  <2>2. a \in Nat /\ b \in Nat /\ m = a + b /\ b > 0
    BY ONLY <2>1
  <2> HIDE DEF a, b, m
  <2>3. /\ b - 1 \in Nat /\ m - 1 = a + (b - 1) /\ a <= m - 1
        /\ \A k \in 1..(b - 1) : k \in 1..b /\ a + k \in 1..(m - 1)
    BY ONLY <2>2, CountDown
  <2>4. QED
    BY ONLY <2>3 DEF a, b, m
<1>3. /\ g \in Frame /\ g.bound = Top.bound - 1 /\ g.kind = Top.kind /\ g.vars = Top.vars
      /\ g.phase = Top.phase /\ g.bindl = Top.bindl /\ g.locl = Top.locl
  <2>1. Top \in Frame /\ Top.bound - 1 \in Nat
    BY ONLY <1>2, <1>2a
  <2>2. QED
    BY ONLY <2>1, WithBoundFields
<1>4. stack' = [stack EXCEPT ![Len(stack)] = g]
  BY <1>1, <1>2 DEF WithBound
<1> HIDE DEF g
<1>5. /\ bindlist' \in Seq(Var) /\ Len(bindlist') = Len(bindlist) - 1
      /\ \A k \in 1..(Len(bindlist) - 1) : bindlist'[k] = bindlist[k]
  BY <1>1, Others, UnbindsLast, PopProperties
<1>6. FrameOK(g)
  BY <1>1, <1>2, <1>3 DEF FrameOK, Unbinds
<1>7. OwnLoc(g) = OwnLoc(Top)
  BY <1>3 DEF OwnLoc
<1>8. AtTop(g, bindlist', loclist')
  BY <1>1, <1>2, <1>3, <1>5, <1>7 DEF AtTop, lvars
<1>9. Names(g, bindlist')
  <2>1. ASSUME NEW k \in 1..(Top.bound - 1)
        PROVE  bindlist'[Top.bindl + k] = Top.vars[k]
    <3>1. k \in 1..Top.bound /\ Top.bindl + k \in 1..(Len(bindlist) - 1)
      BY <1>2a
    <3>2. QED
      BY <1>2, <1>5, <3>1 DEF Names
  <2>2. QED
    BY <1>3, <2>1 DEF Names
<1>10. AgreeUpTo(bindlist, bindlist', Top.bindl)
  BY <1>1, <1>2, <1>5 DEF AgreeUpTo
<1>11. FramesKept /\ stack' # <<>> /\ Last(stack') = g
  BY <1>1, <1>3, <1>4, <1>5, <1>6, <1>8, <1>9, <1>10, TopBecomes DEF Replaces
<1>12. OthersKept
  BY <1>1, Others DEF lvars, OthersKept
<1>13. ~inLocal'
  BY <1>1, NotLocal DEF lvars, Works, Unbinds
<1>14. QED
  BY <1>1, <1>3, <1>11, <1>12, <1>13 DEF Kept, ExitPhases, Top, Unbinds

LEMMA UnbindDoneKept ==
  ASSUME EInv, UnbindDone
  PROVE  Kept
<1>1. /\ stack # <<>> /\ Top.phase \in Unbinds /\ Top.bound = 0 /\ UNCHANGED <<bindlist, lvars, exit>>
      /\ stack' = AfterUnbind /\ calls' \in Int
  BY Others DEF UnbindDone, bvars
<1>2. /\ FrameOK(Top) /\ Top.locl + OwnLoc(Top) <= Len(loclist) /\ Top \in Frame
      /\ Top.locl \in Nat /\ Len(loclist) \in Nat
  BY <1>1, TopFacts
<1>3. OthersKept
  BY <1>1, Others DEF lvars, OthersKept
<1>4. ~inLocal'
  BY <1>1, NotLocal DEF lvars, Works, Unbinds
<1>5. CASE Top.kind = "block" \/ (Top.kind = "ev" /\ Top.phase = "unbind")
  <2> DEFINE g == WithPhase(Top, "unlocal")
  <2>1. stack' = SetPhase("unlocal") /\ "unlocal" \in Phases
    BY <1>1, <1>5 DEF AfterUnbind, Phases, Works
  <2>2. /\ g.phase = "unlocal" /\ g.kind = Top.kind /\ g.vars = Top.vars
        /\ g.bound = Top.bound
    BY <1>2, <2>1, WithPhaseFields
  <2> HIDE DEF g
  <2>3. FrameOK(g)
    BY <1>1, <1>2, <1>5, <2>2 DEF FrameOK
  <2>4. OwnLoc(g) = OwnLoc(Top)
    BY <1>1, <1>5, <2>2 DEF OwnLoc, Unbinds
  <2>5. Top.locl + OwnLoc(g) <= Len(loclist')
    BY <1>1, <1>2, <2>4 DEF lvars
  <2>6. QED
    BY <1>1, <1>3, <1>4, <2>1, <2>3, <2>5, PhaseKept DEF g
<1>6. CASE /\ ~(Top.kind = "block" \/ (Top.kind = "ev" /\ Top.phase = "unbind"))
           /\ Top.phase = "retract" /\ exit = "none"
  <2> DEFINE g == WithPhase(Top, "rebind")
  <2>1. stack' = SetPhase("rebind") /\ "rebind" \in Phases
    BY <1>1, <1>6 DEF AfterUnbind, Phases, Works
  <2>2. /\ g.phase = "rebind" /\ g.kind = Top.kind /\ g.vars = Top.vars
        /\ g.bound = Top.bound
    BY <1>2, <2>1, WithPhaseFields
  <2> HIDE DEF g
  <2>3. FrameOK(g)
    BY <1>1, <1>2, <1>6, <2>2 DEF FrameOK
  <2>4. OwnLoc(g) = OwnLoc(Top)
    BY <1>6, <2>2 DEF OwnLoc
  <2>5. Top.locl + OwnLoc(g) <= Len(loclist')
    BY <1>1, <1>2, <2>4 DEF lvars
  <2>6. exit' = "none"
    BY <1>1, <1>6
  <2>7. QED
    BY <1>1, <1>3, <1>4, <2>1, <2>3, <2>5, <2>6, PhaseKept DEF g
<1>7. CASE /\ ~(Top.kind = "block" \/ (Top.kind = "ev" /\ Top.phase = "unbind"))
           /\ ~(Top.phase = "retract" /\ exit = "none")
  <2>1. stack' = Front(stack)
    BY <1>1, <1>7 DEF AfterUnbind
  <2>2. OwnLoc(Top) \in Nat
    BY DEF OwnLoc
  <2>3. Top.locl <= Len(loclist')
    BY <1>1, <1>2, <2>2 DEF lvars
  <2>4. QED
    BY <1>1, <1>3, <1>4, <2>1, <2>3, LeftKept
<1>8. QED
  BY <1>5, <1>6, <1>7

(* Popping what is perhaps empty. *)
LEMMA PopAny ==
  ASSUME NEW S, NEW s \in Seq(S)
  PROVE  Front(s) \in Seq(S)
<1>1. CASE s # <<>>
  BY <1>1, PopProperties
<1>2. CASE s = <<>>
  <2>1. Len(s) = 0
    BY <1>2, EmptySeq
  <2>2. Front(s) = SubSeq(s, 1, 0 - 1)
    BY <2>1 DEF Front
  <2>3. SubSeq(s, 1, 0 - 1) = <<>>
    BY SubSeqEmpty
  <2>4. QED
    BY <2>2, <2>3, EmptySeq
<1>3. QED
  BY <1>1, <1>2

(* One turn of the loop of munlocal leaves as many frames on loclist. *)
LEMMA MunlocalNameKeeps ==
  ASSUME EInv, MunlocalName
  PROVE  /\ prop' \in [Fun -> Props] /\ mproplist' \in Seq(Props)
         /\ loclist' \in Seq(Seq(Fun)) /\ Len(loclist') = Len(loclist)
<1>1. /\ prop' = [prop EXCEPT ![Last(Last(loclist))] = SavedProp]
      /\ mproplist' = Front(mproplist)
      /\ loclist' = [loclist EXCEPT ![Len(loclist)] = Front(@)]
      /\ loclist # <<>> /\ Last(loclist) # <<>>
  BY DEF MunlocalName
<1>2. mproplist' \in Seq(Props)
  BY <1>1, Others, PopAny
<1>3. SavedProp \in Props
  <2>1. CASE mproplist = <<>>
    BY <2>1 DEF SavedProp, Props
  <2>2. CASE mproplist # <<>>
    <3>1. Last(mproplist) \in Props
      BY <2>2, Others, PopProperties
    <3>2. QED
      BY <2>2, <3>1 DEF SavedProp
  <2>3. QED
    BY <2>1, <2>2
<1>4. prop' \in [Fun -> Props]
  BY <1>1, <1>3, Others
<1>5. Len(loclist) \in 1..Len(loclist) /\ loclist[Len(loclist)] \in Seq(Fun)
  BY <1>1, Others, EmptySeq, ElementOfSeq
<1>6. Front(loclist[Len(loclist)]) \in Seq(Fun)
  BY <1>5, PopAny
<1>7. loclist' \in Seq(Seq(Fun)) /\ Len(loclist') = Len(loclist)
  BY <1>1, <1>5, <1>6, Others, ExceptSeq
<1>8. QED
  BY <1>2, <1>4, <1>7

(* The end of munlocal takes one frame off loclist if there is one. *)
LEMMA MunlocalPopKeeps ==
  ASSUME EInv, MunlocalPop
  PROVE  /\ UNCHANGED <<prop, mproplist>> /\ loclist' \in Seq(Seq(Fun))
         /\ \A n \in Nat : n < Len(loclist) => n <= Len(loclist')
<1>1. UNCHANGED <<prop, mproplist>> /\ loclist' = IF loclist = <<>> THEN <<>> ELSE Front(loclist)
  BY DEF MunlocalPop
<1>2. CASE loclist = <<>>
  BY <1>1, <1>2, EmptySeq
<1>3. CASE loclist # <<>>
  <2>1. loclist' \in Seq(Seq(Fun)) /\ Len(loclist') = Len(loclist) - 1 /\ Len(loclist) \in Nat
    BY <1>1, <1>3, Others, PopProperties, LenProperties
  <2>2. QED
    BY <1>1, <2>1
<1>4. QED
  BY <1>2, <1>3

LEMMA UnlocalKept ==
  ASSUME EInv, Unlocal
  PROVE  Kept
<1>1. /\ stack # <<>> /\ Top.phase = "unlocal"
      /\ UNCHANGED <<bindlist, inLocal, saving, calls, exit>>
  BY DEF Unlocal, bvars
<1>2. /\ FrameOK(Top) /\ Top \in Frame /\ Top.locl \in Nat /\ Len(loclist) \in Nat
      /\ Top.locl + OwnLoc(Top) <= Len(loclist)
  BY <1>1, TopFacts
<1>3. /\ Top.kind \in {"block", "call", "ev"} /\ (Top.kind # "call" => Top.bound = 0)
      /\ ~inLocal'
  <2>1. Top.kind \in {"block", "call", "ev"} /\ (Top.kind # "call" => Top.bound = 0)
    BY <1>1, <1>2 DEF FrameOK
  <2>2. ~inLocal'
    BY <1>1, NotLocal DEF Works
  <2>3. QED
    BY <2>1, <2>2
<1>4. OwnLoc(Top) = 1
  BY <1>1, <1>3 DEF OwnLoc
<1>5. CASE MunlocalName /\ UNCHANGED stack
  <2>1. OthersKept /\ Len(loclist') = Len(loclist)
    BY <1>1, <1>5, MunlocalNameKeeps, Others DEF OthersKept
  <2>2. QED
    BY <1>1, <1>3, <1>5, <2>1, SameFramesKept
<1>6. CASE MunlocalPop /\ stack' = IF Top.kind = "call" THEN SetPhase("unbind") ELSE Front(stack)
  <2>1. OthersKept
    BY <1>1, <1>6, MunlocalPopKeeps, Others DEF OthersKept
  <2>2. Top.locl < Len(loclist)
    BY <1>2, <1>4
  <2>3. Top.locl <= Len(loclist')
    BY <1>2, <1>6, <2>2, MunlocalPopKeeps
  <2>4. CASE Top.kind # "call"
    BY <1>1, <1>3, <1>6, <2>1, <2>3, <2>4, LeftKept
  <2>5. CASE Top.kind = "call"
    <3> DEFINE g == WithPhase(Top, "unbind")
    <3>1. "unbind" \in Phases
      BY DEF Phases, Works
    <3>2. /\ g.phase = "unbind" /\ g.kind = Top.kind /\ g.vars = Top.vars
          /\ g.bound = Top.bound
      BY <1>2, <3>1, WithPhaseFields
    <3> HIDE DEF g
    <3>3. FrameOK(g)
      BY <1>2, <2>5, <3>2 DEF FrameOK
    <3>4. OwnLoc(g) = 0
      BY <2>5, <3>2 DEF OwnLoc
    <3>5. Top.locl + OwnLoc(g) <= Len(loclist')
      BY <1>2, <2>3, <3>4
    <3>6. stack' = SetPhase("unbind")
      BY <1>6, <2>5
    <3>7. QED
      BY <1>1, <1>3, <2>1, <3>1, <3>3, <3>5, <3>6, PhaseKept DEF g
  <2>6. QED
    BY <2>4, <2>5
<1>7. QED
  BY <1>5, <1>6 DEF Unlocal

(* An errcatch or a catch finds the bindlist it saved: nothing to unbind. *)
LEMMA Errlfun1Kept ==
  ASSUME EInv, Errlfun1
  PROVE  Kept
<1>1. stack # <<>> /\ Top.phase = "restore" /\ UNCHANGED <<inLocal, saving, calls, exit>>
  BY DEF Errlfun1
<1>2. /\ FrameOK(Top) /\ Top \in Frame /\ Top.locl \in Nat /\ Len(loclist) \in Nat
      /\ Top.locl + OwnLoc(Top) <= Len(loclist)
      /\ Len(bindlist) = Top.bindl + Top.bound /\ Top.bindl \in Nat
      /\ Len(Top.vars) \in Nat /\ Top.bound \in Nat
  BY <1>1, TopFacts
<1>3. Top.bound = 0 /\ Top.kind \in {"errcatch", "catch"}
  <2>1. Top.kind \in {"errcatch", "catch"}
    BY <1>1, <1>2 DEF FrameOK
  <2>2. Len(Top.vars) = 0 /\ Top.bound <= Len(Top.vars)
    BY <1>2, <2>1 DEF FrameOK
  <2>3. QED
    BY <1>2, <2>1, <2>2
<1>4. OwnLoc(Top) = 0
  BY <1>3 DEF OwnLoc
<1>5. Len(bindlist) = Top.bindl /\ UNCHANGED bindlist
  <2>1. Len(bindlist) = Top.bindl
    BY <1>2, <1>3
  <2>2. QED
    BY <2>1 DEF Errlfun1, bvars
<1>6. ~inLocal'
  BY <1>1, NotLocal DEF Works
<1>7. exit' = "none"
  BY <1>1 DEF EInv, ExitPhases, EvalTypeOK
<1>8. Top.locl <= Len(loclist)
  BY <1>2, <1>4
<1>9. CASE Len(loclist) = Top.locl
  <2>1. UNCHANGED <<prop, loclist, mproplist>> /\ stack' = Front(stack)
    BY <1>5, <1>9 DEF Errlfun1
  <2>2. OthersKept
    BY <1>1, <2>1, Others DEF OthersKept
  <2>3. QED
    BY <1>1, <1>3, <1>5, <1>6, <1>8, <2>1, <2>2, LeftKept
<1>10. CASE Len(loclist) # Top.locl
  <2>1. UNCHANGED stack /\ (MunlocalName \/ MunlocalPop)
    BY <1>5, <1>10 DEF Errlfun1
  <2>2. OthersKept
    BY <1>1, <2>1, MunlocalNameKeeps, MunlocalPopKeeps, Others DEF OthersKept
  <2>3. Top.locl < Len(loclist)
    BY <1>2, <1>8, <1>10
  <2>4. Top.locl + OwnLoc(Top) <= Len(loclist')
    <3>1. CASE MunlocalName
      BY <1>2, <3>1, MunlocalNameKeeps
    <3>2. CASE MunlocalPop
      BY <1>2, <1>4, <2>3, <3>2, MunlocalPopKeeps
    <3>3. QED
      BY <2>1, <3>1, <3>2
  <2>5. FramesKept
    BY <1>5, <2>1, <2>2, <2>4, OnlyNamesChange DEF OthersKept
  <2>6. ExitPhases'
    BY <1>6, <1>7 DEF ExitPhases
  <2>7. QED
    BY <2>2, <2>5, <2>6 DEF Kept
<1>11. QED
  BY <1>9, <1>10

(***************************************************************************)
(* An exit under way.                                                      *)
(***************************************************************************)

LEMMA UnwindKept ==
  ASSUME EInv, Unwind
  PROVE  Kept
<1> DEFINE g == WithPhase(Top, CleanupPhase)
<1>1. /\ stack # <<>> /\ UNCHANGED <<bindlist, lvars, exit>> /\ exit # "none"
      /\ Top.phase \in Evaluates
  BY DEF Unwind, Exiting, bvars
<1>2. /\ CleanupPhase \in Phases
      /\ \/ Top.kind = "call" /\ CleanupPhase = "unlocal"
         \/ Top.kind # "call" /\ Top.phase \in {"mlocal", "pre"} /\ CleanupPhase = "retract"
         \/ Top.kind # "call" /\ Top.phase \notin {"mlocal", "pre"} /\ CleanupPhase = "unbind"
  BY DEF CleanupPhase, Phases, Works
<1>3. /\ g.phase = CleanupPhase /\ g.kind = Top.kind /\ g.vars = Top.vars
      /\ g.bound = Top.bound /\ FrameOK(Top)
      /\ Top.locl + OwnLoc(Top) <= Len(loclist)
      /\ Top.locl \in Nat /\ Len(loclist) \in Nat /\ Len(Top.vars) \in Nat /\ Top.bound \in Nat
  BY <1>1, <1>2, TopFacts, WithPhaseFields
<1> HIDE DEF g
<1>4. ~inLocal'
  BY <1>1 DEF EInv, ExitPhases, lvars
<1>5. calls' \in Int
  BY Others DEF Unwind, StartCleanup
<1>6. OthersKept
  BY <1>1, <1>5, Others DEF lvars, OthersKept
<1>7. CASE Top.phase = "args" \/ Top.kind \in {"errcatch", "catch"}
  <2>1. stack' = Front(stack)
    BY <1>7 DEF Unwind
  <2>2. Top.bound = 0
    <3>1. CASE Top.phase = "args"
      BY <1>3, <3>1 DEF FrameOK
    <3>2. CASE Top.kind \in {"errcatch", "catch"}
      <4>1. Len(Top.vars) = 0 /\ Top.bound <= Len(Top.vars)
        BY <1>3, <3>2 DEF FrameOK
      <4>2. QED
        BY <1>3, <4>1
    <3>3. QED
      BY <1>7, <3>1, <3>2
  <2>3. OwnLoc(Top) \in Nat
    BY DEF OwnLoc
  <2>4. Top.locl <= Len(loclist')
    BY <1>1, <1>3, <2>3 DEF lvars
  <2>5. QED
    BY <1>1, <1>4, <1>6, <2>1, <2>2, <2>4, LeftKept
<1>8. CASE ~(Top.phase = "args" \/ Top.kind \in {"errcatch", "catch"})
  <2>1. stack' = SetPhase(CleanupPhase)
    BY <1>8 DEF Unwind, StartCleanup
  <2>2. FrameOK(g)
    BY <1>1, <1>2, <1>3, <1>8 DEF FrameOK, Evaluates
  <2>3. OwnLoc(g) = OwnLoc(Top)
    BY <1>1, <1>2, <1>3, <1>8 DEF OwnLoc, FrameOK, Evaluates
  <2>4. Top.locl + OwnLoc(g) <= Len(loclist')
    BY <1>1, <1>3, <2>3 DEF lvars
  <2>5. CleanupPhase \notin {"bind", "rebind", "restore"}
    BY <1>2
  <2>6. QED
    BY <1>1, <1>2, <1>4, <1>6, <2>1, <2>2, <2>4, <2>5, PhaseKept DEF g
<1>9. QED
  BY <1>7, <1>8

LEMMA CatchReturnKept ==
  ASSUME EInv, CatchReturn
  PROVE  Kept
<1>1. /\ stack # <<>> /\ UNCHANGED <<bindlist, lvars, calls>> /\ exit # "none"
      /\ Top.phase \in Evaluates /\ Catches(exit, Top) /\ exit \in {"return", "go"}
  BY DEF CatchReturn, Exiting, bvars
<1>2. Top.kind \in {"block", "do"} /\ Top.phase = "body"
  BY <1>1 DEF Catches
<1>3. ~inLocal'
  BY <1>1 DEF EInv, ExitPhases, lvars
<1>4. exit' \in Exits \cup {"none"}
  BY DEF CatchReturn, Exits
<1>5. OthersKept
  BY <1>1, <1>4, Others DEF lvars, OthersKept
<1>6. UNCHANGED stack \/ stack' = SetPhase("unbind")
  BY DEF CatchReturn
<1>7. CASE UNCHANGED stack
  <2>1. Len(loclist') = Len(loclist)
    BY <1>1 DEF lvars
  <2>2. QED
    BY <1>1, <1>2, <1>3, <1>5, <1>7, <2>1, SameFramesKept
<1>8. CASE stack' = SetPhase("unbind")
  <2> DEFINE g == WithPhase(Top, "unbind")
  <2>1. "unbind" \in Phases
    BY DEF Phases, Works
  <2>2. /\ g.phase = "unbind" /\ g.kind = Top.kind /\ g.vars = Top.vars
        /\ g.bound = Top.bound /\ FrameOK(Top)
        /\ Top.locl + OwnLoc(Top) <= Len(loclist)
    BY <1>1, <2>1, TopFacts, WithPhaseFields
  <2> HIDE DEF g
  <2>3. FrameOK(g)
    BY <1>2, <2>2 DEF FrameOK
  <2>4. OwnLoc(g) = OwnLoc(Top)
    BY <1>2, <2>2 DEF OwnLoc
  <2>5. Top.locl + OwnLoc(g) <= Len(loclist')
    BY <1>1, <2>2, <2>4 DEF lvars
  <2>6. QED
    BY <1>1, <1>3, <1>5, <1>8, <2>1, <2>3, <2>5, PhaseKept DEF g
<1>9. QED
  BY <1>6, <1>7, <1>8

LEMMA CatchExitKept ==
  ASSUME EInv, CatchExit
  PROVE  Kept
<1> DEFINE g == WithPhase(Top, "restore")
<1>1. /\ stack # <<>> /\ UNCHANGED <<bindlist, lvars, calls>> /\ exit # "none" /\ exit' = "none"
      /\ Catches(exit, Top) /\ exit \in {"error", "throw"} /\ stack' = SetPhase("restore")
  BY DEF CatchExit, Exiting, bvars
<1>2. Top.kind \in {"errcatch", "catch"}
  BY <1>1 DEF Catches
<1>3. "restore" \in Phases
  BY DEF Phases, Works
<1>4. /\ g.phase = "restore" /\ g.kind = Top.kind /\ g.vars = Top.vars
      /\ g.bound = Top.bound /\ FrameOK(Top)
      /\ Top.locl + OwnLoc(Top) <= Len(loclist)
  BY <1>1, <1>3, TopFacts, WithPhaseFields
<1> HIDE DEF g
<1>5. FrameOK(g)
  BY <1>2, <1>4 DEF FrameOK
<1>6. OwnLoc(g) = OwnLoc(Top)
  BY <1>2, <1>4 DEF OwnLoc
<1>7. Top.locl + OwnLoc(g) <= Len(loclist')
  BY <1>1, <1>4, <1>6 DEF lvars
<1>8. OthersKept
  BY <1>1, Others DEF lvars, OthersKept
<1>9. ~inLocal'
  BY <1>1 DEF EInv, ExitPhases, lvars
<1>10. QED
  BY <1>1, <1>3, <1>5, <1>7, <1>8, <1>9, PhaseKept DEF g

LEMMA MacsymaQuitKept ==
  ASSUME EInv, MacsymaQuit
  PROVE  Kept
<1>1. stack = <<>> /\ UNCHANGED <<bindlist, lvars, calls, stack>> /\ exit # "none" /\ exit' = "none"
  BY DEF MacsymaQuit, bvars
<1>2. OthersKept
  BY <1>1, Others DEF lvars, OthersKept
<1>3. ~inLocal'
  BY <1>1 DEF EInv, ExitPhases, lvars
<1>4. QED
  BY <1>1, <1>2, <1>3, SameFramesKept DEF lvars

(***************************************************************************)
(* The invariant.                                                          *)
(***************************************************************************)

LEMMA EvalInitInv == EvalInit => EInv
<1> SUFFICES ASSUME EvalInit
             PROVE  EInv
  OBVIOUS
<1>1. BindTypeOK /\ ValuesListExact
  BY BindInitTypeOK DEF EvalInit
<1>2. stack = <<>> /\ bindlist = <<>> /\ exit = "none" /\ ~inLocal
  BY DEF EvalInit, BindInit
<1>3. Len(stack) = 0 /\ stack \in Seq(Frame)
  BY <1>2, EmptySeq
<1>4. EvalTypeOK
  <2>1. prop \in [Fun -> Props] /\ loclist = <<>> /\ mproplist = <<>> /\ saving = <<>>
        /\ calls \in Int /\ exit \in Exits \cup {"none"}
    BY DEF EvalInit
  <2>2. inLocal \in BOOLEAN
    <3>1. inLocal = FALSE
      BY DEF EvalInit
    <3>2. QED
      BY <3>1
  <2>3. loclist \in Seq(Seq(Fun)) /\ mproplist \in Seq(Props) /\ saving \in Seq(Fun)
    BY <2>1, EmptySeq
  <2>4. QED
    BY <1>1, <1>3, <2>1, <2>2, <2>3 DEF EvalTypeOK
<1>5. Fits(stack, bindlist, loclist)
  BY <1>2, <1>3 DEF Fits, Ordered
<1>6. QED
  BY <1>1, <1>2, <1>4, <1>5 DEF EInv, ExitPhases

(* Each step keeps the frames fitting and everything well typed. *)
LEMMA StepKept ==
  ASSUME EInv, EvalNext
  PROVE  Kept
<1>1. CASE \E vs \in VarLists : MprogEnter(vs) \/ MlambdaEnter(vs) \/ EvEnter(vs)
  BY <1>1, EnterKept
<1>2. CASE \E v \in Var : MdoEnter(v)
  BY <1>2, MdoEnterKept
<1>3. CASE ErrcatchEnter \/ CatchEnter
  BY <1>3, HandlerEnterKept
<1>4. CASE AssignVar \/ (\E f \in Fun, d \in Def : Define(f, d)) \/ LocalBegin
             \/ (\E e \in Exits : Raise(e))
  BY <1>4, EvaluatingKept
<1>5. CASE (\E f \in Fun : LocalOne(f)) \/ LocalFail \/ LocalDone
  BY <1>5, LocalOneKept, LocalFailKept, LocalDoneKept
<1>6. CASE ArgsDone \/ BodyDone \/ TestDone \/ DoBodyDone \/ NextDone \/ HandlerDone
             \/ MdoinEmpty \/ BindFail
  BY <1>6, ArgsDoneKept, BodyDoneKept, TestDoneKept, DoBodyDoneKept, NextDoneKept,
     HandlerDoneKept, MdoinEmptyKept, BindFailKept
<1>7. CASE (\E x \in Val : BindOne(x)) \/ BindDone \/ Mlocal \/ UnbindOne \/ UnbindDone
  BY <1>7, BindOneKept, BindDoneKept, MlocalKept, UnbindOneKept, UnbindDoneKept
<1>8. CASE Unlocal \/ Errlfun1 \/ Unwind \/ CatchReturn \/ CatchExit \/ MacsymaQuit
  BY <1>8, UnlocalKept, Errlfun1Kept, UnwindKept, CatchReturnKept, CatchExitKept,
     MacsymaQuitKept
<1>9. QED
  BY <1>1, <1>2, <1>3, <1>4, <1>5, <1>6, <1>7, <1>8 DEF EvalNext, EvalSteps, OwnSteps

LEMMA EvalNextInv ==
  ASSUME EInv, [EvalNext]_vars
  PROVE  EInv'
<1>1. CASE EvalNext
  <2>1. BindTypeOK' /\ ValuesListExact'
    BY EvalStepBinds, BindNextTypeOK DEF EInv, EvalTypeOK
  <2>2. Kept
    BY <1>1, StepKept
  <2>3. QED
    BY <2>1, <2>2 DEF Kept, FramesKept, OthersKept, EInv, EvalTypeOK
<1>2. CASE UNCHANGED vars
  <2>1. UNCHANGED <<value, infoValues, bindlist, mspeclist, prop, loclist, mproplist, inLocal,
                    saving, calls, stack, exit>>
    BY <1>2 DEF vars, bvars, lvars
  <2>2. QED
    BY <2>1 DEF EInv, EvalTypeOK, BindTypeOK, ValuesListExact, ExitPhases, Top
<1>3. QED
  BY <1>1, <1>2

(* Throughout, the state of the evaluator is well typed and the frames fit   *)
(* the lists (EvalTypeOK, and the strengthening it needs).                   *)
THEOREM EvalInvariant == EvalSpec => [](EInv /\ EvalTypeOK)
<1>1. EInv => EvalTypeOK
  BY DEF EInv
<1>2. QED
  BY <1>1, EvalInitInv, EvalNextInv, PTL DEF EvalSpec

-----------------------------------------------------------------------------
(***************************************************************************)
(* What follows from it.                                                   *)
(***************************************************************************)

(* What is between a live frame and the one above it, or the ends of the    *)
(* lists if it is the innermost.                                            *)
LEMMA FrameEnds ==
  ASSUME EInv, NEW i \in Live
  PROVE  /\ BindEnd(i) = stack[i].bindl + stack[i].bound
         /\ stack[i].locl + OwnLoc(stack[i]) <= LocEnd(i)
<1>1. stack # <<>> /\ Len(stack) \in Nat
  BY Others, EmptySeq, LenProperties DEF Live
<1>2. CASE i = Len(stack)
  <2>1. AtTop(stack[i], bindlist, loclist)
    BY <1>1, <1>2 DEF EInv, Fits
  <2>2. QED
    BY <1>2, <2>1 DEF AtTop, BindEnd, LocEnd
<1>3. CASE i # Len(stack)
  <2>1. Below(stack[i], stack[i + 1])
    BY <1>1, <1>3 DEF EInv, Fits, Live
  <2>2. QED
    BY <1>3, <2>1 DEF Below, BindEnd, LocEnd
<1>4. QED
  BY <1>2, <1>3

(* Every entry of bindlist belongs to exactly one live frame and names the   *)
(* variable that frame will hand to munbind, however many forms are nested   *)
(* and whatever exits have passed through them (mlisp.lisp: mbind, munbind). *)
THEOREM FramesOwnTheirBindings == EvalSpec => []FramesOwnBindings
<1>1. EInv => FramesOwnBindings
  <2> SUFFICES ASSUME EInv
               PROVE  FramesOwnBindings
    OBVIOUS
  <2>1. /\ stack = <<>> => bindlist = <<>>
        /\ stack # <<>> => stack[1].bindl = 0
    BY DEF EInv, Fits
  <2>2. ASSUME NEW i \in Live
        PROVE  /\ BindEnd(i) = stack[i].bindl + stack[i].bound
               /\ \A k \in 1..stack[i].bound :
                     bindlist[stack[i].bindl + k] = stack[i].vars[k]
    <3>1. Names(stack[i], bindlist)
      BY DEF EInv, Fits, Live
    <3>2. QED
      BY <3>1, FrameEnds DEF Names
  <2>3. QED
    BY <2>1, <2>2 DEF FramesOwnBindings
<1>2. QED
  BY <1>1, EvalInvariant, PTL

(* loclist never falls below what a live frame, in particular an errcatch or *)
(* a catch, saw when it was entered: errlfun1 finds the list it waits for    *)
(* (suprv1.lisp: errlfun1).                                                  *)
THEOREM LoclistStaysAboveMarks == EvalSpec => []LoclistAboveMarks
<1>1. EInv => LoclistAboveMarks
  BY FrameEnds DEF LoclistAboveMarks
<1>2. QED
  BY <1>1, EvalInvariant, PTL

(* A return or go never finds a bindlist other than the one the body of its  *)
(* block or loop began with: "illegal return" is unreachable without the     *)
(* debugger (mlisp.lisp: mprog, mdo, mdoin).                                 *)
THEOREM ReturnsAreLegal == EvalSpec => []NoIllegalReturn
<1>1. EInv => NoIllegalReturn
  <2> SUFFICES ASSUME EInv, Exiting, exit \in {"return", "go"}, Catches(exit, Top)
               PROVE  Len(bindlist) = BodyBindl
    BY DEF NoIllegalReturn
  <2>1. stack # <<>> /\ Top.phase = "body"
    BY DEF Exiting, Catches
  <2>2. FrameOK(Top) /\ Len(bindlist) = Top.bindl + Top.bound
    BY <2>1, TopFacts
  <2>3. Top.bound = Len(Top.vars)
    BY <2>1, <2>2 DEF FrameOK
  <2>4. QED
    BY <2>2, <2>3 DEF BodyBindl
<1>2. QED
  BY <1>1, EvalInvariant, PTL

(* Every step of the evaluator is a step of the binding lists alone, so what *)
(* is proved of them holds in every program.                                 *)
THEOREM FramesImplementShallowBinding == EvalSpec => ImplementsShallowBinding
<1>1. EvalInit => BindInit
  BY DEF EvalInit
<1>2. QED
  BY <1>1, EvalStepBinds, EvalInvariant, PTL DEF EvalSpec, ImplementsShallowBinding, BindSpec

(* The variables of blocks, functions, loops and ev are scoped as the manual *)
(* says, through every nesting and every non-local exit.                     *)
THEOREM EvaluatorIsDynamicallyScoped == EvalSpec => ImplementsDynamicScope
BY FramesImplementShallowBinding, ShallowBindingIsDynamicScope, PTL
   DEF ImplementsShallowBinding

(* A step of the binding lists adds or removes at their ends. *)
LEMMA BindStepEnds ==
  ASSUME BindTypeOK, [BindNext]_bvars, NEW k \in Nat \ {0},
         k <= Len(bindlist), k <= Len(bindlist')
  PROVE  bindlist'[k] = bindlist[k] /\ mspeclist'[k] = mspeclist[k]
<1>1. /\ bindlist \in Seq(Var) /\ mspeclist \in Seq(Saved) /\ value \in [Var -> Saved]
      /\ Len(mspeclist) = Len(bindlist) /\ Len(bindlist) \in Nat
  BY LenProperties DEF BindTypeOK
<1>2. ASSUME NEW v \in Var, NEW x \in Val, MbindOne(v, x)
      PROVE  bindlist'[k] = bindlist[k] /\ mspeclist'[k] = mspeclist[k]
  <2>1. /\ bindlist' = Append(bindlist, v) /\ mspeclist' = Append(mspeclist, value[v])
        /\ value[v] \in Saved /\ k \in 1..Len(bindlist)
    BY <1>1, <1>2 DEF MbindOne
  <2>2. QED
    BY <1>1, <2>1, AppendProperties
<1>3. CASE MunbindLast
  <2>1. /\ bindlist' = Front(bindlist) /\ mspeclist' = Front(mspeclist)
        /\ bindlist # <<>> /\ mspeclist # <<>>
    BY <1>1, <1>3, EmptySeq DEF MunbindLast, Munbind
  <2>2. Len(bindlist') = Len(bindlist) - 1
    BY <1>1, <2>1, PopProperties
  <2>3. k \in 1..(Len(bindlist) - 1)
    BY <1>1, <2>2
  <2>4. QED
    BY <1>1, <2>1, <2>3, PopProperties
<1>4. CASE UNCHANGED <<bindlist, mspeclist>>
  BY <1>4
<1>5. QED
  BY <1>2, <1>3, <1>4 DEF BindNext, Remvalue, Mset, bvars

(* A step leaves the frames that stay where they were entered. *)
MarksStay == \A i \in Live : i <= Len(stack') => stack'[i].bindl = stack[i].bindl

LEMMA MarksKept ==
  ASSUME EInv, [EvalNext]_vars
  PROVE  MarksStay
<1>1. stack \in Seq(Frame) /\ Len(stack) \in Nat /\ \A i \in Live : stack[i] \in Frame
  BY Others, LenProperties, ElementOfSeq DEF Live
<1>2. CASE UNCHANGED stack
  BY <1>2 DEF MarksStay
<1>3. ASSUME NEW k, NEW ph, NEW vs, Push(k, ph, vs)
      PROVE  MarksStay
  <2>1. PICK g : stack' = Append(stack, g)
    BY <1>3 DEF Push
  <2>2. QED
    BY <1>1, <2>1 DEF MarksStay, Live
<1>4. ASSUME NEW ph, stack' = SetPhase(ph)
      PROVE  MarksStay
  <2>1. ASSUME NEW i \in Live
        PROVE  stack'[i] = stack[i] \/ stack'[i] = [stack[i] EXCEPT !.phase = ph]
    BY <1>1, <1>4 DEF SetPhase, Live
  <2>2. ASSUME NEW i \in Live
        PROVE  [stack[i] EXCEPT !.phase = ph].bindl = stack[i].bindl
    BY <1>1 DEF Frame
  <2>3. QED
    BY <2>1, <2>2 DEF MarksStay
<1>5. ASSUME stack # <<>>, stack' = Front(stack)
      PROVE  MarksStay
  <2>1. Len(stack') = Len(stack) - 1 /\ \A i \in 1..(Len(stack) - 1) : stack'[i] = stack[i]
    BY <1>1, <1>5, PopProperties
  <2>2. QED
    BY <1>1, <2>1 DEF MarksStay, Live
<1>6. ASSUME NEW b, stack' = [stack EXCEPT ![Len(stack)].bound = b]
      PROVE  MarksStay
  <2>1. ASSUME NEW i \in Live
        PROVE  stack'[i] = stack[i] \/ stack'[i] = [stack[i] EXCEPT !.bound = b]
    BY <1>1, <1>6 DEF Live
  <2>2. ASSUME NEW i \in Live
        PROVE  [stack[i] EXCEPT !.bound = b].bindl = stack[i].bindl
    BY <1>1 DEF Frame
  <2>3. QED
    BY <2>1, <2>2 DEF MarksStay
<1>7. CASE stack' = [i \in Live |-> IF Binder(i) THEN [stack[i] EXCEPT !.mlocp = FALSE]
                                                ELSE stack[i]]
  <2>1. ASSUME NEW i \in Live
        PROVE  stack'[i] = stack[i] \/ stack'[i] = [stack[i] EXCEPT !.mlocp = FALSE]
    BY <1>7
  <2>2. ASSUME NEW i \in Live
        PROVE  [stack[i] EXCEPT !.mlocp = FALSE].bindl = stack[i].bindl
    BY <1>1 DEF Frame
  <2>3. QED
    BY <2>1, <2>2 DEF MarksStay
<1>8. CASE EvalSteps
  <2>1. CASE \/ \E vs \in VarLists : MprogEnter(vs) \/ MlambdaEnter(vs) \/ EvEnter(vs)
             \/ \E v \in Var : MdoEnter(v)
             \/ ErrcatchEnter \/ CatchEnter
    BY <1>3, <2>1 DEF MprogEnter, MlambdaEnter, EvEnter, MdoEnter, ErrcatchEnter, CatchEnter
  <2>2. CASE \/ AssignVar \/ LocalBegin \/ LocalFail
             \/ \E f \in Fun, d \in Def : Define(f, d)
             \/ \E f \in Fun : LocalOne(f)
             \/ \E e \in Exits : Raise(e)
    BY <1>2, <2>2 DEF AssignVar, Define, LocalBegin, LocalOne, LocalFail, Raise
  <2>3. CASE ArgsDone \/ BodyDone \/ TestDone \/ DoBodyDone \/ NextDone \/ HandlerDone
               \/ MdoinEmpty \/ BindFail
    BY <1>4, <1>5, <2>3 DEF ArgsDone, BodyDone, StartCleanup, TestDone, DoBodyDone, NextDone,
       HandlerDone, MdoinEmpty, BindFail
  <2>4. QED
    BY <1>8, <2>1, <2>2, <2>3 DEF EvalSteps
<1>9. CASE LocalDone
  BY <1>2, <1>4, <1>7, <1>9 DEF LocalDone
<1>10. CASE OwnSteps
  <2>1. CASE \E x \in Val : BindOne(x)
    BY <1>6, <2>1 DEF BindOne
  <2>2. CASE UnbindOne
    BY <1>6, <2>2 DEF UnbindOne
  <2>3. CASE UnbindDone
    BY <1>4, <1>5, <2>3 DEF UnbindDone, AfterUnbind
  <2>4. CASE BindDone \/ Mlocal
    BY <1>4, <2>4 DEF BindDone, Mlocal
  <2>5. CASE Unlocal \/ Errlfun1
    BY <1>2, <1>4, <1>5, <2>5 DEF Unlocal, Errlfun1
  <2>6. CASE Unwind \/ CatchReturn \/ CatchExit \/ MacsymaQuit
    BY <1>2, <1>4, <1>5, <2>6 DEF Unwind, StartCleanup, CatchReturn, CatchExit, MacsymaQuit,
       Exiting
  <2>7. QED
    BY <1>10, <2>1, <2>2, <2>3, <2>4, <2>5, <2>6 DEF OwnSteps
<1>11. QED
  BY <1>2, <1>8, <1>9, <1>10 DEF EvalNext, vars

(* The part of bindlist a live frame was entered with is still there. *)
LEMMA MarksInside ==
  ASSUME NEW stk \in Seq(Frame), NEW bl \in Seq(Var), NEW ll, Fits(stk, bl, ll),
         NEW i \in 1..Len(stk)
  PROVE  stk[i].bindl \in Nat /\ stk[i].bindl <= Len(bl)
<1> DEFINE n == Len(stk)
<1>1. stk # <<>> /\ n \in Nat /\ n \in 1..n /\ Len(bl) \in Nat
  BY EmptySeq, LenProperties
<1>2. ASSUME NEW j \in 1..n
      PROVE  stk[j].bindl \in Nat /\ stk[j].bound \in Nat
  <2>1. stk[j] \in Frame
    BY ElementOfSeq
  <2>2. QED
    BY <2>1 DEF Frame
<1>3. Len(bl) = stk[n].bindl + stk[n].bound
  BY <1>1 DEF Fits, AtTop
<1>4. stk[n].bindl <= Len(bl)
  BY <1>1, <1>2, <1>3
<1>5. CASE i = n
  BY <1>1, <1>2, <1>4, <1>5
<1>6. CASE i < n
  <2>1. stk[i].bindl + stk[i].bound <= stk[n].bindl
    BY <1>1, <1>6 DEF Fits, Ordered
  <2>2. QED
    BY <1>1, <1>2, <1>4, <2>1
<1>7. QED
  BY <1>1, <1>5, <1>6

(* No step, an exit's cleanup included, touches what was saved before a live *)
(* frame was entered (mlisp.lisp: mbind, munbind; suprv1.lisp: errlfun1).     *)
THEOREM OuterValuesAreSafe == EvalSpec => SavedValuesUntouched
<1> DEFINE Untouched ==
      \A i \in 1..Min({Len(stack), Len(stack')}) :
        \A k \in 1..stack[i].bindl : /\ k <= Len(bindlist') /\ k <= Len(bindlist)
                                     /\ bindlist'[k] = bindlist[k]
                                     /\ mspeclist'[k] = mspeclist[k]
<1>1. ASSUME EInv, EInv', [EvalNext]_vars
      PROVE  Untouched
  <2>1. Len(stack) \in Nat /\ Len(stack') \in Nat
    BY LenProperties DEF EInv, EvalTypeOK
  <2>2. Min({Len(stack), Len(stack')}) \in Int
        /\ Min({Len(stack), Len(stack')}) <= Len(stack)
        /\ Min({Len(stack), Len(stack')}) <= Len(stack')
    BY <2>1 DEF Min
  <2>3. ASSUME NEW i \in 1..Min({Len(stack), Len(stack')}), NEW k \in 1..stack[i].bindl
        PROVE  /\ k <= Len(bindlist') /\ k <= Len(bindlist)
               /\ bindlist'[k] = bindlist[k]
               /\ mspeclist'[k] = mspeclist[k]
    <3>1. i \in Live /\ i \in Live' /\ i <= Len(stack')
      BY <2>1, <2>2 DEF Live
    <3>2. stack'[i].bindl = stack[i].bindl
      BY <3>1, MarksKept, <1>1 DEF MarksStay
    <3>3. stack[i].bindl \in Nat /\ stack[i].bindl <= Len(bindlist)
      BY <1>1, <3>1, MarksInside DEF EInv, EvalTypeOK, BindTypeOK, Live
    <3>4. stack'[i].bindl <= Len(bindlist')
      BY <1>1, <3>1, MarksInside DEF EInv, EvalTypeOK, BindTypeOK, Live
    <3>5. Len(bindlist) \in Nat /\ Len(bindlist') \in Nat
      BY <1>1, LenProperties DEF EInv, EvalTypeOK, BindTypeOK
    <3>6. k \in Nat \ {0} /\ k <= Len(bindlist) /\ k <= Len(bindlist')
      BY <3>2, <3>3, <3>4, <3>5
    <3>7. QED
      BY <1>1, <3>6, BindStepEnds, EvalStepBinds DEF EInv, EvalTypeOK
  <2>4. QED
    BY <2>3
<1>2. QED
  BY <1>1, EvalInvariant, PTL DEF EvalSpec, SavedValuesUntouched

-----------------------------------------------------------------------------
(***************************************************************************)
(* *mlambda-call-stack* is exact for every nesting of forms and every exit: *)
(* one record per call that has bound or is binding its parameters.         *)
(***************************************************************************)

(* The phases of a call in which it has a record on the call stack. *)
RecPhases == {"bind", "undo", "body"}

HasRec(f) == f.kind = "call" /\ f.phase \in RecPhases

Recs(stk) == {i \in 1..Len(stk) : HasRec(stk[i])}

LEMMA CallStackState ==
  /\ CallStackExact <=> calls = Cardinality(Recs(stack))
  /\ CallStackExact' <=> calls' = Cardinality(Recs(stack'))
<1>1. {i \in Live : stack[i].kind = "call" /\ stack[i].phase \in {"bind", "undo", "body"}}
        = Recs(stack)
  BY DEF Recs, HasRec, RecPhases, Live
<1>2. {i \in Live : stack[i].kind = "call" /\ stack[i].phase \in {"bind", "undo", "body"}}'
        = Recs(stack')
  BY DEF Recs, HasRec, RecPhases, Live
<1>3. QED
  BY <1>1, <1>2 DEF CallStackExact

LEMMA RecsFinite ==
  ASSUME NEW stk \in Seq(Frame)
  PROVE  IsFiniteSet(Recs(stk)) /\ Cardinality(Recs(stk)) \in Nat
<1>1. Len(stk) \in Nat
  BY LenProperties
<1>2. IsFiniteSet(1..Len(stk))
  BY <1>1, FS_Interval
<1>3. Recs(stk) \in SUBSET (1..Len(stk))
  BY DEF Recs
<1>4. IsFiniteSet(Recs(stk))
  BY <1>2, <1>3, FS_Subset
<1>5. QED
  BY <1>4, FS_CardinalityType

(* One frame gains, loses or keeps its record. *)
LEMMA OneRec ==
  ASSUME NEW stk \in Seq(Frame), NEW stk2, NEW n, NEW c, NEW c2, c = Cardinality(Recs(stk)),
         \/ c2 = c /\ Recs(stk2) = Recs(stk)
         \/ c2 = c + 1 /\ n \notin Recs(stk) /\ Recs(stk2) = Recs(stk) \cup {n}
         \/ c2 = c - 1 /\ n \in Recs(stk) /\ Recs(stk2) = Recs(stk) \ {n}
  PROVE  c2 = Cardinality(Recs(stk2))
<1>1. IsFiniteSet(Recs(stk))
  BY RecsFinite
<1>2. CASE c2 = c /\ Recs(stk2) = Recs(stk)
  BY <1>2
<1>3. CASE c2 = c + 1 /\ n \notin Recs(stk) /\ Recs(stk2) = Recs(stk) \cup {n}
  BY <1>1, <1>3, FS_AddElement
<1>4. CASE c2 = c - 1 /\ n \in Recs(stk) /\ Recs(stk2) = Recs(stk) \ {n}
  BY <1>1, <1>4, FS_RemoveElement
<1>5. QED
  BY <1>2, <1>3, <1>4

(* The innermost frame goes to another phase. *)
LEMMA PhaseCounts ==
  ASSUME EInv, CallStackExact, stack # <<>>, NEW ph \in Phases, stack' = SetPhase(ph),
         \/ calls' = calls /\ (Top.kind = "call" => (ph \in RecPhases <=> Top.phase \in RecPhases))
         \/ /\ calls' = calls + 1 /\ Top.kind = "call"
            /\ ph \in RecPhases /\ Top.phase \notin RecPhases
         \/ /\ calls' = calls - 1 /\ Top.kind = "call"
            /\ ph \notin RecPhases /\ Top.phase \in RecPhases
  PROVE  CallStackExact'
<1> DEFINE n == Len(stack)
           g == WithPhase(Top, ph)
<1>1. n \in Nat \ {0} /\ Top = stack[n] /\ Top \in Frame /\ stack \in Seq(Frame)
  BY TopFacts, Others
<1>2. g \in Frame /\ g.kind = Top.kind /\ g.phase = ph
  BY <1>1, WithPhaseFields
<1>3. stack' = [stack EXCEPT ![n] = g]
  BY <1>1 DEF SetPhase, WithPhase
<1> HIDE DEF g
<1>4. Len(stack') = n /\ n \in 1..n /\ \A i \in 1..n : stack'[i] = IF i = n THEN g ELSE stack[i]
  BY <1>1, <1>2, <1>3, ExceptSeq
<1>5. HasRec(g) <=> Top.kind = "call" /\ ph \in RecPhases
  BY <1>2 DEF HasRec
<1>6. n \in Recs(stack) <=> Top.kind = "call" /\ Top.phase \in RecPhases
  BY <1>1, <1>4 DEF Recs, HasRec
<1>7. CASE calls' = calls /\ (Top.kind = "call" => (ph \in RecPhases <=> Top.phase \in RecPhases))
  <2>1. HasRec(g) <=> n \in Recs(stack)
    BY <1>5, <1>6, <1>7
  <2>2. Recs(stack') = Recs(stack)
    BY <1>4, <2>1 DEF Recs
  <2>3. QED
    BY <1>1, <1>7, <2>2, OneRec, CallStackState
<1>8. CASE /\ calls' = calls + 1 /\ Top.kind = "call"
           /\ ph \in RecPhases /\ Top.phase \notin RecPhases
  <2>1. HasRec(g) /\ n \notin Recs(stack)
    BY <1>5, <1>6, <1>8
  <2>2. Recs(stack') = Recs(stack) \cup {n}
    BY <1>4, <2>1 DEF Recs
  <2>3. QED
    BY <1>1, <1>8, <2>1, <2>2, OneRec, CallStackState
<1>9. CASE /\ calls' = calls - 1 /\ Top.kind = "call"
           /\ ph \notin RecPhases /\ Top.phase \in RecPhases
  <2>1. ~HasRec(g) /\ n \in Recs(stack)
    BY <1>5, <1>6, <1>9
  <2>2. Recs(stack') = Recs(stack) \ {n}
    BY <1>4, <2>1 DEF Recs
  <2>3. QED
    BY <1>1, <1>9, <2>1, <2>2, OneRec, CallStackState
<1>10. QED
  BY <1>7, <1>8, <1>9

(* The innermost frame is left. *)
LEMMA LeftCounts ==
  ASSUME EInv, CallStackExact, stack # <<>>, stack' = Front(stack),
         \/ calls' = calls /\ ~HasRec(Top)
         \/ calls' = calls - 1 /\ HasRec(Top)
  PROVE  CallStackExact'
<1> DEFINE n == Len(stack)
<1>1. n \in Nat \ {0} /\ Top = stack[n] /\ stack \in Seq(Frame) /\ n \in 1..n
  BY TopFacts, Others
<1>2. Len(stack') = n - 1 /\ \A i \in 1..(n - 1) : stack'[i] = stack[i]
  BY <1>1, PopProperties
<1>3. n \in Recs(stack) <=> HasRec(Top)
  BY <1>1 DEF Recs
<1>4. Recs(stack') = Recs(stack) \ {n}
  BY <1>1, <1>2 DEF Recs
<1>5. ~HasRec(Top) => Recs(stack') = Recs(stack)
  BY <1>3, <1>4
<1>6. QED
  BY <1>1, <1>3, <1>4, <1>5, OneRec, CallStackState

(* A form is entered: no record yet. *)
LEMMA PushCounts ==
  ASSUME EInv, CallStackExact, NEW k, NEW ph, NEW vs, Push(k, ph, vs),
         k # "call" \/ ph \notin RecPhases
  PROVE  CallStackExact'
<1> DEFINE n == Len(stack)
<1>1. PICK g : stack' = Append(stack, g) /\ g.kind = k /\ g.phase = ph
  BY DEF Push
<1>2. n \in Nat /\ stack \in Seq(Frame) /\ calls' = calls
  BY Others, LenProperties DEF Push
<1>3. /\ Len(stack') = n + 1 /\ stack'[n + 1] = g
      /\ \A i \in 1..n : stack'[i] = stack[i]
  BY <1>1, <1>2
<1>4. ~HasRec(g)
  BY <1>1 DEF HasRec
<1>5. Recs(stack') = Recs(stack)
  BY <1>2, <1>3, <1>4 DEF Recs
<1>6. QED
  BY <1>2, <1>5, OneRec, CallStackState

(* The frames keep their kinds and phases. *)
LEMMA SameCounts ==
  ASSUME EInv, CallStackExact, calls' = calls, Len(stack') = Len(stack),
         \A i \in Live : stack'[i].kind = stack[i].kind /\ stack'[i].phase = stack[i].phase
  PROVE  CallStackExact'
<1>1. Recs(stack') = Recs(stack)
  BY DEF Recs, HasRec, Live
<1>2. QED
  BY <1>1, CallStackState

-----------------------------------------------------------------------------
(***************************************************************************)
(* The actions.                                                            *)
(***************************************************************************)

(* What the actions that move the innermost frame know about it. *)
LEMMA TopShape ==
  ASSUME EInv, stack # <<>>
  PROVE  /\ Top.phase = "undo" => Top.kind \notin {"errcatch", "catch"}
         /\ Top.phase \in {"test", "next"} => Top.kind = "do"
         /\ Top.phase \in {"mlocal", "pre", "retract", "rebind"} => Top.kind = "ev"
         /\ Top.phase = "restore" => Top.kind \in {"errcatch", "catch"}
<1>1. FrameOK(Top)
  BY TopFacts
<1>2. QED
  BY <1>1 DEF FrameOK

LEMMA BindingCounts ==
  ASSUME EInv, CallStackExact,
         (\E x \in Val : BindOne(x)) \/ UnbindOne \/ BindDone \/ Mlocal \/ BindFail
  PROVE  CallStackExact'
<1>1. stack # <<>> /\ calls' = calls
  BY DEF BindOne, UnbindOne, BindDone, Mlocal, BindFail
<1>2. ASSUME NEW b, stack' = [stack EXCEPT ![Len(stack)].bound = b]
      PROVE  CallStackExact'
  <2>1. Len(stack) \in 1..Len(stack) /\ stack \in Seq(Frame) /\ Len(stack') = Len(stack)
    BY <1>1, <1>2, TopFacts, Others
  <2>2. ASSUME NEW i \in Live
        PROVE  stack'[i].kind = stack[i].kind /\ stack'[i].phase = stack[i].phase
    <3>1. stack[i] \in Frame
      BY <2>1, ElementOfSeq DEF Live
    <3>2. stack'[i] = stack[i] \/ stack'[i] = [stack[i] EXCEPT !.bound = b]
      BY <1>2, <2>1 DEF Live
    <3>3. [stack[i] EXCEPT !.bound = b].kind = stack[i].kind
          /\ [stack[i] EXCEPT !.bound = b].phase = stack[i].phase
      BY <3>1 DEF Frame
    <3>4. QED
      BY <3>2, <3>3
  <2>3. QED
    BY <1>1, <2>1, <2>2, SameCounts
<1>3. CASE (\E x \in Val : BindOne(x)) \/ UnbindOne
  BY <1>2, <1>3 DEF BindOne, UnbindOne
<1>4. CASE BindDone
  <2>1. PICK ph \in {"test", "body"} :
          /\ stack' = SetPhase(ph)
          /\ Top.kind = "call" => ph = "body"
          /\ Top.phase = "rebind" \/ Top.phase = "bind"
    <3>1. \/ Top.kind = "do" /\ stack' = SetPhase("test")
          \/ Top.kind # "do" /\ stack' = SetPhase("body")
      BY <1>4 DEF BindDone
    <3>2. Top.phase = "rebind" \/ Top.phase = "bind"
      BY <1>4 DEF BindDone
    <3>3. QED
      BY <3>1, <3>2
  <2>2. ph \in Phases
    BY <2>1 DEF Phases, Evaluates
  <2>3. Top.kind = "call" => (ph \in RecPhases <=> Top.phase \in RecPhases)
    BY <1>1, <2>1, TopShape DEF RecPhases
  <2>4. QED
    BY <1>1, <2>1, <2>2, <2>3, PhaseCounts
<1>5. CASE Mlocal
  <2>1. stack' = SetPhase("mlocal") /\ Top.kind = "ev" /\ "mlocal" \in Phases
    BY <1>5 DEF Mlocal, Phases, Evaluates
  <2>2. QED
    BY <1>1, <2>1, PhaseCounts
<1>6. CASE BindFail
  <2>1. \/ Top.phase = "bind" /\ stack' = SetPhase("undo")
        \/ Top.phase = "rebind" /\ stack' = SetPhase("unbind")
    BY <1>6 DEF BindFail
  <2>2. "undo" \in Phases /\ "unbind" \in Phases
    BY DEF Phases, Works
  <2>3. QED
    BY <1>1, <2>1, <2>2, TopShape, PhaseCounts DEF RecPhases
<1>7. QED
  BY <1>3, <1>4, <1>5, <1>6

(* A call gets its record when its arguments are there. *)
LEMMA ArgsDoneCounts ==
  ASSUME EInv, CallStackExact, ArgsDone
  PROVE  CallStackExact'
<1>1. /\ stack # <<>> /\ Top.phase = "args" /\ stack' = SetPhase("bind")
      /\ calls' = IF Top.kind = "call" THEN calls + 1 ELSE calls
      /\ "bind" \in Phases
  BY DEF ArgsDone, Phases, Works
<1>2. "args" \notin RecPhases /\ "bind" \in RecPhases
  BY DEF RecPhases
<1>3. QED
  BY <1>1, <1>2, PhaseCounts

(* The cleanup of a call begins by taking the record off. *)
LEMMA CleanupCounts ==
  ASSUME EInv, CallStackExact, stack # <<>>, StartCleanup, Top.phase \in Evaluates,
         Top.phase # "args"
  PROVE  CallStackExact'
<1>1. /\ stack' = SetPhase(CleanupPhase)
      /\ calls' = IF Top.kind = "call" THEN calls - 1 ELSE calls
  BY DEF StartCleanup
<1>2. CleanupPhase \in Phases /\ CleanupPhase \in {"unlocal", "retract", "unbind"}
  BY DEF CleanupPhase, Phases, Works
<1>3. Top.kind = "call" => Top.phase = "body"
  BY TopShape DEF Evaluates
<1>4. CleanupPhase \notin RecPhases
  BY <1>2 DEF RecPhases
<1>5. "body" \in RecPhases
  BY DEF RecPhases
<1>6. QED
  BY <1>1, <1>2, <1>3, <1>4, <1>5, PhaseCounts

LEMMA BodyCounts ==
  ASSUME EInv, CallStackExact,
         BodyDone \/ TestDone \/ DoBodyDone \/ NextDone \/ HandlerDone \/ MdoinEmpty
  PROVE  CallStackExact'
<1>1. CASE BodyDone
  <2>1. stack # <<>> /\ StartCleanup /\ Top.phase \in {"body", "test", "pre"}
    BY <1>1 DEF BodyDone
  <2>2. QED
    BY <2>1, CleanupCounts DEF Evaluates
<1>2. CASE TestDone \/ DoBodyDone \/ NextDone
  <2>1. PICK ph \in {"body", "next", "test", "unbind"} : stack' = SetPhase(ph)
    BY <1>2 DEF TestDone, DoBodyDone, NextDone
  <2>2. stack # <<>> /\ calls' = calls /\ Top.kind = "do"
    BY <1>2, TopShape DEF TestDone, DoBodyDone, NextDone
  <2>3. ph \in Phases
    BY <2>1 DEF Phases, Evaluates, Works
  <2>4. QED
    BY <2>1, <2>2, <2>3, PhaseCounts
<1>3. CASE HandlerDone \/ MdoinEmpty
  <2>1. /\ stack # <<>> /\ calls' = calls /\ Top.kind # "call"
        /\ stack' = Front(stack) \/ stack' = SetPhase("restore")
    BY <1>3 DEF HandlerDone, MdoinEmpty
  <2>2. "restore" \in Phases
    BY DEF Phases, Works
  <2>3. QED
    BY <2>1, <2>2, PhaseCounts, LeftCounts DEF HasRec
<1>4. QED
  BY <1>1, <1>2, <1>3

(* A call whose mbind failed loses its record with its frame. *)
LEMMA UnbindDoneCounts ==
  ASSUME EInv, CallStackExact, UnbindDone
  PROVE  CallStackExact'
<1>1. /\ stack # <<>> /\ Top.phase \in {"undo", "retract", "unbind"} /\ stack' = AfterUnbind
      /\ calls' = IF Top.kind = "call" /\ Top.phase = "undo" THEN calls - 1 ELSE calls
  BY DEF UnbindDone, Unbinds
<1>2. \/ Top.kind \in {"block", "ev"} /\ stack' = SetPhase("unlocal")
      \/ Top.phase = "retract" /\ stack' = SetPhase("rebind")
      \/ stack' = Front(stack)
  BY <1>1 DEF AfterUnbind
<1>3. CASE Top.kind \in {"block", "ev"} /\ stack' = SetPhase("unlocal")
  <2>1. "unlocal" \in Phases
    BY DEF Phases, Works
  <2>2. QED
    BY <1>1, <1>3, <2>1, PhaseCounts
<1>4. CASE Top.phase = "retract" /\ stack' = SetPhase("rebind")
  <2>1. "rebind" \in Phases /\ Top.kind = "ev"
    BY <1>1, <1>4, TopShape DEF Phases, Works
  <2>2. QED
    BY <1>1, <1>4, <2>1, PhaseCounts
<1>5. CASE stack' = Front(stack)
  <2>1. HasRec(Top) <=> Top.kind = "call" /\ Top.phase = "undo"
    BY <1>1 DEF HasRec, RecPhases
  <2>2. QED
    BY <1>1, <1>5, <2>1, LeftCounts
<1>6. QED
  BY <1>2, <1>3, <1>4, <1>5

LEMMA CleaningCounts ==
  ASSUME EInv, CallStackExact, Unlocal \/ Errlfun1
  PROVE  CallStackExact'
<1>1. /\ stack # <<>> /\ calls' = calls /\ Top.phase \in {"unlocal", "restore"}
      /\ \/ UNCHANGED stack
         \/ Top.phase = "unlocal" /\ stack' = SetPhase("unbind")
         \/ stack' = Front(stack)
  BY DEF Unlocal, Errlfun1
<1>2. "unbind" \in Phases
  BY DEF Phases, Works
<1>3. Top.phase \notin RecPhases /\ "unbind" \notin RecPhases
  BY <1>1 DEF RecPhases
<1>4. QED
  BY <1>1, <1>2, <1>3, PhaseCounts, LeftCounts, SameCounts DEF HasRec

LEMMA ExitCounts ==
  ASSUME EInv, CallStackExact, Unwind \/ CatchReturn \/ CatchExit \/ MacsymaQuit
  PROVE  CallStackExact'
<1>1. CASE Unwind
  <2>1. stack # <<>> /\ Top.phase \in Evaluates
    BY <1>1 DEF Unwind, Exiting
  <2>2. CASE Top.phase = "args" \/ Top.kind \in {"errcatch", "catch"}
    <3>1. stack' = Front(stack) /\ calls' = calls
      BY <1>1, <2>2 DEF Unwind
    <3>2. ~HasRec(Top)
      BY <2>2 DEF HasRec, RecPhases
    <3>3. QED
      BY <2>1, <3>1, <3>2, LeftCounts
  <2>3. CASE ~(Top.phase = "args" \/ Top.kind \in {"errcatch", "catch"})
    <3>1. StartCleanup /\ Top.phase # "args"
      BY <1>1, <2>3 DEF Unwind
    <3>2. QED
      BY <2>1, <3>1, CleanupCounts
  <2>4. QED
    BY <2>2, <2>3
<1>2. CASE CatchReturn
  <2>1. /\ stack # <<>> /\ calls' = calls /\ Top.kind \in {"block", "do"}
        /\ UNCHANGED stack \/ stack' = SetPhase("unbind")
    BY <1>2 DEF CatchReturn, Exiting, Catches
  <2>2. "unbind" \in Phases
    BY DEF Phases, Works
  <2>3. QED
    BY <2>1, <2>2, PhaseCounts, SameCounts
<1>3. CASE CatchExit
  <2>1. /\ stack # <<>> /\ calls' = calls /\ Top.kind \in {"errcatch", "catch"}
        /\ stack' = SetPhase("restore") /\ "restore" \in Phases
    BY <1>3 DEF CatchExit, Exiting, Catches, Phases, Works
  <2>2. QED
    BY <2>1, PhaseCounts
<1>4. CASE MacsymaQuit
  BY <1>4, SameCounts DEF MacsymaQuit
<1>5. QED
  BY <1>1, <1>2, <1>3, <1>4

LEMMA EnterCounts ==
  ASSUME EInv, CallStackExact,
         \/ \E vs \in VarLists : MprogEnter(vs) \/ MlambdaEnter(vs) \/ EvEnter(vs)
         \/ \E v \in Var : MdoEnter(v)
         \/ ErrcatchEnter \/ CatchEnter
  PROVE  CallStackExact'
<1>1. "args" \notin RecPhases
  BY DEF RecPhases
<1>2. QED
  BY <1>1, PushCounts DEF MprogEnter, MlambdaEnter, EvEnter, MdoEnter, ErrcatchEnter, CatchEnter

LEMMA EvaluatingCounts ==
  ASSUME EInv, CallStackExact,
         \/ AssignVar \/ LocalBegin \/ LocalFail
         \/ \E f \in Fun, d \in Def : Define(f, d)
         \/ \E f \in Fun : LocalOne(f)
         \/ \E e \in Exits : Raise(e)
  PROVE  CallStackExact'
<1>1. UNCHANGED <<stack, calls>>
  BY DEF AssignVar, Define, LocalBegin, LocalOne, LocalFail, Raise
<1>2. QED
  BY <1>1, SameCounts

LEMMA LocalDoneCounts ==
  ASSUME EInv, CallStackExact, LocalDone
  PROVE  CallStackExact'
<1>1. calls' = calls /\ stack # <<>>
  BY DEF LocalDone, EInv, ExitPhases
<1>2. \/ UNCHANGED stack
      \/ Top.phase = "mlocal" /\ stack' = SetPhase("pre")
      \/ stack' = [i \in Live |-> IF Binder(i) THEN [stack[i] EXCEPT !.mlocp = FALSE]
                                             ELSE stack[i]]
  BY DEF LocalDone
<1>3. CASE UNCHANGED stack
  BY <1>1, <1>3, SameCounts
<1>4. CASE Top.phase = "mlocal" /\ stack' = SetPhase("pre")
  <2>1. "pre" \in Phases /\ Top.kind = "ev"
    BY <1>1, <1>4, TopShape DEF Phases, Evaluates
  <2>2. QED
    BY <1>1, <1>4, <2>1, PhaseCounts
<1>5. CASE stack' = [i \in Live |-> IF Binder(i) THEN [stack[i] EXCEPT !.mlocp = FALSE]
                                               ELSE stack[i]]
  <2>1. Len(stack) \in Nat /\ \A i \in Live : stack[i] \in Frame
    BY Others, LenProperties, ElementOfSeq DEF Live
  <2>2. Len(stack') = Len(stack)
    BY <1>5, <2>1 DEF Live
  <2>3. ASSUME NEW i \in Live
        PROVE  stack'[i].kind = stack[i].kind /\ stack'[i].phase = stack[i].phase
    <3>1. stack'[i] = stack[i] \/ stack'[i] = [stack[i] EXCEPT !.mlocp = FALSE]
      BY <1>5
    <3>2. [stack[i] EXCEPT !.mlocp = FALSE].kind = stack[i].kind
          /\ [stack[i] EXCEPT !.mlocp = FALSE].phase = stack[i].phase
      BY <2>1 DEF Frame
    <3>3. QED
      BY <3>1, <3>2
  <2>4. QED
    BY <1>1, <2>2, <2>3, SameCounts
<1>6. QED
  BY <1>2, <1>3, <1>4, <1>5

LEMMA StepCounts ==
  ASSUME EInv, CallStackExact, [EvalNext]_vars
  PROVE  CallStackExact'
<1>1. CASE EvalSteps
  BY <1>1, EnterCounts, EvaluatingCounts, ArgsDoneCounts, BodyCounts, BindingCounts
     DEF EvalSteps
<1>2. CASE LocalDone
  BY <1>2, LocalDoneCounts
<1>3. CASE OwnSteps
  BY <1>3, BindingCounts, UnbindDoneCounts, CleaningCounts, ExitCounts DEF OwnSteps
<1>4. CASE UNCHANGED vars
  BY <1>4, SameCounts DEF vars
<1>5. QED
  BY <1>1, <1>2, <1>3, <1>4 DEF EvalNext

(* *mlambda-call-stack* has exactly the records of the calls that bind their *)
(* parameters or run their bodies, however calls were left (mlisp.lisp:      *)
(* mlambda, mbind).                                                         *)
THEOREM CallStackIsExact == EvalSpec => []CallStackExact
<1>1. EvalInit => CallStackExact
  <2> SUFFICES ASSUME EvalInit
               PROVE  CallStackExact
    OBVIOUS
  <2>1. stack = <<>> /\ calls = 0
    BY DEF EvalInit
  <2>2. Recs(stack) = {}
    BY <2>1, EmptySeq DEF Recs
  <2>3. QED
    BY <2>1, <2>2, FS_EmptySet, CallStackState
<1>2. EInv /\ CallStackExact /\ [EvalNext]_vars => CallStackExact'
  BY StepCounts
<1>3. QED
  BY <1>1, <1>2, EvalInvariant, PTL DEF EvalSpec


-----------------------------------------------------------------------------
(***************************************************************************)
(* Local properties: while programs stay clear of the irregular inputs of   *)
(* EvalFrames (Irregular = {}), local() makes properties local as block     *)
(* makes variables local, and nothing stays saved at top level.             *)
(*                                                                         *)
(* The invariant is LInv: which frames have how much of loclist, and that   *)
(* an exit is caught before it reaches a frame that could not clean up.     *)
(* What a step may do to the saved properties is LocalMove; the refinement  *)
(* is proved from it with the lemmas of ShallowBinding_proof, instantiated  *)
(* with names and properties for variables and values.                      *)
(***************************************************************************)
L == INSTANCE ShallowBinding_proof WITH
       Var <- Fun, Val <- Def, Unbound <- Undefined,
       value <- prop, infoValues <- {f \in Fun : prop[f] # Undefined},
       bindlist <- LocalNames, mspeclist <- mproplist

(* f has made its names local already, or its part of loclist is empty. *)
Own(f, ll) == f.mlocp => /\ f.kind \in {"block", "call"}
                         /\ OwnLoc(f) = 1 => ll[f.locl + 1] = <<>>

(* loclist is made of what the frames have pushed and not popped, no more.  *)
Shares(stk, ll) ==
  /\ stk = <<>> => ll = <<>>
  /\ stk # <<>> => stk[1].locl = 0 /\ Len(ll) = stk[Len(stk)].locl + OwnLoc(stk[Len(stk)])
  /\ \A i \in 1..(Len(stk) - 1) : stk[i + 1].locl = stk[i].locl + OwnLoc(stk[i])
  /\ \A i \in 1..Len(stk) : Own(stk[i], ll)
  /\ \A i, j \in 1..Len(stk) : i < j => stk[i].locl + OwnLoc(stk[i]) <= stk[j].locl

(* Of the first n frames none is reached by the exit e that could not clean *)
(* up after itself.                                                        *)
Caught(stk, n, e) == \A i \in 1..n : Leaky(stk[i]) =>
                        e # "go" /\ \E j \in (i + 1)..n : Catches(e, stk[j])

(* The i-th frame is the one for which local() works; the head of loclist   *)
(* is its own, and empty.                                                  *)
LocalOf(i, stk, ll) ==
  /\ OwnLoc(stk[i]) = 1 /\ stk[i].locl + 1 = Len(ll) /\ ll[Len(ll)] = <<>>
  /\ IF stk[Len(stk)].phase = "mlocal"
       THEN i = Len(stk)
       ELSE /\ stk[i].kind \in {"block", "call"}
            /\ \A j \in (i + 1)..Len(stk) : stk[j].kind \notin {"block", "call"}

LocalTurn == IF inLocal THEN \E i \in 1..Len(stack) : LocalOf(i, stack, loclist)
                        ELSE saving = <<>>

RegularPhases == /\ \A i \in Live : stack[i].phase = "mlocal" => i = Len(stack) /\ inLocal
                 /\ stack # <<>> => /\ Top.kind = "call" => Top.phase # "undo"
                                    /\ Top.phase = "retract" => exit = "none"

(* The names on loclist and the saved properties are as many. *)
Parallel == Len(LocalNames) = Len(mproplist)

LInv == /\ Shares(stack, loclist)
        /\ exit # "none" => Caught(stack, Len(stack), exit)
        /\ LocalTurn /\ RegularPhases /\ Parallel

(* What a step does to the properties: nothing, an assignment, one more     *)
(* name made local, or the last of them given back.                         *)
LocalMove ==
  \/ UNCHANGED <<prop, mproplist>> /\ LocalNames' = LocalNames
  \/ /\ UNCHANGED mproplist /\ LocalNames' = LocalNames
     /\ \E f \in Fun : \A u \in Fun : u # f => prop'[u] = prop[u]
  \/ \E f \in Fun : /\ LocalNames' = Append(LocalNames, f)
                    /\ mproplist' = Append(mproplist, prop[f])
                    /\ prop' = [prop EXCEPT ![f] = Undefined]
  \/ /\ LocalNames # <<>> /\ mproplist # <<>>
     /\ LocalNames' = Front(LocalNames) /\ mproplist' = Front(mproplist)
     /\ prop' = [prop EXCEPT ![Last(LocalNames)] = Last(mproplist)]

-----------------------------------------------------------------------------
(***************************************************************************)
(* The names on loclist: FlattenSeq.                                       *)
(***************************************************************************)

(* f is what FlattenSeq computes of the first n sequences of s. *)
IsFlat(f, s, n) ==
  f = [i \in 1..n |-> IF i = 1 THEN s[i] ELSE f[i - 1] \o s[i]]

LEMMA FlatElements ==
  ASSUME NEW f, NEW s, NEW n \in Nat, IsFlat(f, s, n)
  PROVE  \A i \in 1..n : f[i] = IF i = 1 THEN s[i] ELSE f[i - 1] \o s[i]
BY DEF IsFlat

LEMMA FlatExists ==
  ASSUME NEW s, NEW n \in Nat
  PROVE  \E f : IsFlat(f, s, n)
<1> DEFINE T == {k \in Nat : ~ \E f : IsFlat(f, s, k)}
<1>1. SUFFICES ASSUME T # {}
               PROVE  FALSE
  OBVIOUS
<1>2. PICK m \in T : \A k \in T : m <= k
  <2>1. T \subseteq Nat
    OBVIOUS
  <2> HIDE DEF T
  <2>2. QED
    BY <1>1, <2>1, LeastNatural
<1>3. m \in Nat /\ ~ \E f : IsFlat(f, s, m)
  OBVIOUS
<1>4. CASE m = 0
  <2>1. IsFlat([i \in 1..0 |-> 0], s, 0)
    BY DEF IsFlat
  <2>2. QED
    BY <1>3, <1>4, <2>1
<1>5. CASE m > 0
  <2>1. m - 1 \in Nat /\ m - 1 \notin T
    BY <1>2, <1>3, <1>5
  <2>2. PICK f : IsFlat(f, s, m - 1)
    BY <2>1
  <2> DEFINE g == [i \in 1..m |-> IF i < m THEN f[i] ELSE IF i = 1 THEN s[i] ELSE f[i - 1] \o s[i]]
             h == [i \in 1..m |-> IF i = 1 THEN s[i] ELSE g[i - 1] \o s[i]]
  <2>3. \A i \in 1..(m - 1) : f[i] = IF i = 1 THEN s[i] ELSE f[i - 1] \o s[i]
    BY <2>1, <2>2, FlatElements
  <2>4. \A i \in 1..m : g[i] = IF i < m THEN f[i] ELSE IF i = 1 THEN s[i] ELSE f[i - 1] \o s[i]
    OBVIOUS
  <2>5. \A i \in 1..m : g[i] = h[i]
    <3>1. ASSUME NEW i \in 1..m
          PROVE  g[i] = IF i = 1 THEN s[i] ELSE g[i - 1] \o s[i]
      <4>1. CASE i = 1
        <5>1. i < m => i \in 1..(m - 1)
          BY <1>3
        <5> HIDE DEF g
        <5>2. QED
          BY <2>3, <2>4, <4>1, <5>1
      <4>2. CASE i # 1
        <5>1. i - 1 \in 1..m /\ i - 1 < m /\ (i < m => i \in 1..(m - 1))
          BY <1>3, <4>2
        <5> HIDE DEF g
        <5>2. g[i - 1] = f[i - 1]
          BY <2>4, <5>1
        <5>3. QED
          BY <2>3, <2>4, <4>2, <5>1, <5>2
      <4>3. QED
        BY <4>1, <4>2
    <3> HIDE DEF g
    <3>2. QED
      BY <3>1
  <2>6. g = h
    <3>1. DOMAIN g = 1..m /\ DOMAIN h = 1..m
      OBVIOUS
    <3>2. g = [i \in 1..m |-> g[i]] /\ h = [i \in 1..m |-> h[i]]
      OBVIOUS
    <3> HIDE DEF g, h
    <3>3. QED
      BY <2>5, <3>2
  <2>7. IsFlat(g, s, m)
    <3> HIDE DEF g
    <3>1. QED
      BY <2>6 DEF IsFlat
  <2>8. QED
    BY <1>3, <2>7
<1>6. QED
  BY <1>3, <1>4, <1>5

(* What FlattenSeq computes is its last element. *)
LEMMA FlattenIs ==
  ASSUME NEW S, NEW s \in Seq(Seq(S)), s # <<>>
  PROVE  \E f : IsFlat(f, s, Len(s)) /\ FlattenSeq(s) = f[Len(s)]
<1> DEFINE n == Len(s)
           fl == CHOOSE f : f = [i \in 1..n |-> IF i = 1 THEN s[i] ELSE f[i - 1] \o s[i]]
<1>1. n \in Nat /\ n # 0
  BY LenProperties, EmptySeq
<1>2. PICK f : f = [i \in 1..n |-> IF i = 1 THEN s[i] ELSE f[i - 1] \o s[i]]
  <2>1. PICK f : IsFlat(f, s, n)
    BY <1>1, FlatExists
  <2>2. QED
    BY <2>1, Zenon DEF IsFlat
<1>3. fl = [i \in 1..n |-> IF i = 1 THEN s[i] ELSE fl[i - 1] \o s[i]]
  BY <1>2, Zenon
<1>4. FlattenSeq(s) = fl[n]
  BY <1>1, Zenon DEF FlattenSeq
<1> HIDE DEF fl
<1>5. QED
  BY <1>3, <1>4 DEF IsFlat

(* s and t have the same first m elements. *)
SameFirst(s, t, m) == \A i \in 1..m : s[i] = t[i]

(* It depends on those sequences only. *)
LEMMA FlatAgree ==
  ASSUME NEW s, NEW t, NEW m \in Nat, NEW n \in Nat, m <= n,
         SameFirst(s, t, m),
         NEW f, IsFlat(f, s, m), NEW g, IsFlat(g, t, n)
  PROVE  \A i \in 1..m : f[i] = g[i]
<1>1. \A i \in 1..m : f[i] = IF i = 1 THEN s[i] ELSE f[i - 1] \o s[i]
  BY FlatElements
<1>2. \A i \in 1..m : g[i] = IF i = 1 THEN s[i] ELSE g[i - 1] \o s[i]
  <2>1. \A i \in 1..n : g[i] = IF i = 1 THEN t[i] ELSE g[i - 1] \o t[i]
    BY FlatElements
  <2>2. QED
    BY <2>1 DEF SameFirst
<1> DEFINE T == {k \in 1..m : f[k] # g[k]}
<1>3. SUFFICES ASSUME T # {}
               PROVE  FALSE
  OBVIOUS
<1>4. PICK k \in T : \A j \in T : k <= j
  <2>1. T \subseteq Nat
    OBVIOUS
  <2> HIDE DEF T
  <2>2. QED
    BY <1>3, <2>1, LeastNatural
<1>5. k \in 1..m /\ f[k] # g[k]
  OBVIOUS
<1>6. k # 1
  BY <1>1, <1>2, <1>5
<1>7. k - 1 \in 1..m /\ k - 1 \notin T
  BY <1>4, <1>5, <1>6
<1>8. f[k - 1] = g[k - 1]
  BY <1>7
<1>9. QED
  BY <1>1, <1>2, <1>5, <1>6, <1>8

(* It is made of the elements of the sequences. *)
LEMMA FlatType ==
  ASSUME NEW S, NEW s \in Seq(Seq(S)), NEW f, IsFlat(f, s, Len(s))
  PROVE  \A i \in 1..Len(s) : f[i] \in Seq(S)
<1> DEFINE n == Len(s)
           T == {k \in 1..n : f[k] \notin Seq(S)}
<1>1. n \in Nat /\ \A i \in 1..n : s[i] \in Seq(S)
  BY LenProperties, ElementOfSeq
<1>2. \A i \in 1..n : f[i] = IF i = 1 THEN s[i] ELSE f[i - 1] \o s[i]
  BY <1>1, FlatElements
<1>3. SUFFICES ASSUME T # {}
               PROVE  FALSE
  OBVIOUS
<1> HIDE DEF n
<1>4. PICK k \in T : \A j \in T : k <= j
  <2>1. T \subseteq Nat
    BY <1>1
  <2> HIDE DEF T
  <2>2. QED
    BY <1>3, <2>1, LeastNatural
<1>5. k \in 1..n /\ f[k] \notin Seq(S)
  OBVIOUS
<1>6. k # 1
  BY <1>1, <1>2, <1>5
<1>7. k - 1 \in 1..n /\ k - 1 \notin T
  BY <1>1, <1>4, <1>5, <1>6
<1>8. f[k - 1] \in Seq(S) /\ s[k] \in Seq(S)
  BY <1>1, <1>5, <1>7
<1>9. f[k - 1] \o s[k] \in Seq(S)
  BY <1>8, ConcatProperties
<1>10. QED
  BY <1>2, <1>5, <1>6, <1>9

(* The names on loclist, one sequence after the other. *)
LEMMA FlattenEmpty == FlattenSeq(<<>>) = <<>>
BY DEF FlattenSeq

LEMMA FlattenType ==
  ASSUME NEW S, NEW s \in Seq(Seq(S))
  PROVE  FlattenSeq(s) \in Seq(S)
<1>1. CASE s = <<>>
  BY <1>1, FlattenEmpty, EmptySeq
<1>2. CASE s # <<>>
  <2>1. PICK f : IsFlat(f, s, Len(s)) /\ FlattenSeq(s) = f[Len(s)]
    BY <1>2, FlattenIs
  <2>2. Len(s) \in 1..Len(s)
    BY <1>2, LenProperties, EmptySeq
  <2>3. QED
    BY <2>1, <2>2, FlatType
<1>3. QED
  BY <1>1, <1>2

LEMMA FlattenAppend ==
  ASSUME NEW S, NEW s \in Seq(Seq(S)), NEW t \in Seq(S)
  PROVE  FlattenSeq(Append(s, t)) = FlattenSeq(s) \o t
<1> DEFINE n == Len(s)
           a == Append(s, t)
<1>1. /\ n \in Nat /\ a \in Seq(Seq(S)) /\ Len(a) = n + 1 /\ a[n + 1] = t /\ a # <<>>
      /\ \A i \in 1..n : s[i] = a[i]
  BY AppendProperties, LenProperties, EmptySeq
<1> HIDE DEF a, n
<1>0. n + 1 \in Nat
  BY <1>1
<1>2. PICK g : IsFlat(g, a, n + 1) /\ FlattenSeq(a) = g[n + 1]
  BY <1>1, FlattenIs
<1>3. g[n + 1] = IF n + 1 = 1 THEN t ELSE g[n + 1 - 1] \o t
  <2>1. \A i \in 1..(n + 1) : g[i] = IF i = 1 THEN a[i] ELSE g[i - 1] \o a[i]
    BY <1>0, <1>2, FlatElements
  <2>2. QED
    BY <1>1, <2>1
<1>4. CASE s = <<>>
  <2>1. n = 0
    BY <1>4, EmptySeq DEF n
  <2>2. FlattenSeq(s) \o t = t
    BY <1>4, FlattenEmpty, ConcatEmptySeq
  <2>3. QED
    BY <1>2, <1>3, <2>1, <2>2 DEF a
<1>5. CASE s # <<>>
  <2>1. PICK f : IsFlat(f, s, n) /\ FlattenSeq(s) = f[n]
    BY <1>5, FlattenIs DEF n
  <2>2. n \in 1..n /\ n + 1 # 1 /\ n + 1 - 1 = n /\ n <= n + 1 /\ n + 1 \in Nat
    BY <1>1, <1>5, EmptySeq DEF n
  <2>3. f[n] = g[n]
    <3>1. IsFlat(f, s, n) /\ IsFlat(g, a, n + 1) /\ n \in Nat /\ n + 1 \in Nat /\ n <= n + 1
          /\ SameFirst(s, a, n)
      BY <1>0, <1>1, <1>2, <2>1, <2>2 DEF SameFirst
    <3>2. \A i \in 1..n : f[i] = g[i]
      BY ONLY <3>1, FlatAgree
    <3>3. QED
      BY <2>2, <3>2
  <2>4. QED
    BY <1>2, <1>3, <2>1, <2>2, <2>3 DEF a
<1>6. QED
  BY <1>4, <1>5

(* The names of the lists, in the order in which they were made local.      *)
NamesOf(ll, sv) == FlattenSeq(ll) \o sv

LEMMA LocalNamesOf == /\ LocalNames = NamesOf(loclist, saving)
                      /\ LocalNames' = NamesOf(loclist', saving')
BY DEF LocalNames, NamesOf

LEMMA NamesOfType ==
  ASSUME NEW S, NEW ll \in Seq(Seq(S)), NEW sv \in Seq(S)
  PROVE  NamesOf(ll, sv) \in Seq(S)
BY FlattenType, ConcatProperties DEF NamesOf

(* A sequence with elements is its front and its last element. *)
LEMMA FrontAndLast ==
  ASSUME NEW S, NEW s \in Seq(S), s # <<>>
  PROVE  Front(s) \in Seq(S) /\ Last(s) \in S /\ s = Append(Front(s), Last(s))
<1>1. PICK t \in Seq(S), e \in S : s = Append(t, e)
  BY SequenceEmptyOrAppend
<1>2. Front(s) = t
  BY <1>1, PopAppend
<1>3. Last(s) = e
  BY <1>1, AppendProperties, LenProperties DEF Last
<1>4. QED
  BY <1>1, <1>2, <1>3

(* Another last element. *)
LEMMA ReplaceLast ==
  ASSUME NEW S, NEW s \in Seq(S), s # <<>>, NEW e \in S
  PROVE  [s EXCEPT ![Len(s)] = e] = Append(Front(s), e)
<1> DEFINE n == Len(s)
           t == Front(s)
           r == [s EXCEPT ![Len(s)] = e]
           a == Append(t, e)
<1>1. n \in Nat \ {0} /\ n \in 1..n
  BY EmptySeq, LenProperties
<1>2. t \in Seq(S) /\ Len(t) = n - 1 /\ \A i \in 1..(n - 1) : t[i] = s[i]
  BY PopProperties
<1>3. r \in Seq(S) /\ Len(r) = n /\ \A i \in 1..n : r[i] = IF i = n THEN e ELSE s[i]
  BY <1>1, ExceptSeq
<1> HIDE DEF t, r, n
<1>4. /\ a \in Seq(S) /\ Len(a) = Len(t) + 1 /\ a[Len(t) + 1] = e
      /\ \A i \in 1..Len(t) : a[i] = t[i]
  BY <1>2, AppendProperties
<1> HIDE DEF a
<1>5. Len(a) = n /\ \A i \in 1..n : r[i] = a[i]
  BY <1>1, <1>2, <1>3, <1>4
<1>6. r = a
  BY <1>3, <1>4, <1>5, SeqEqual
<1>7. QED
  BY <1>6 DEF r, a, t, n

(* A frame without names comes or goes. *)
LEMMA NamesPush ==
  ASSUME NEW S, NEW ll \in Seq(Seq(S)), NEW sv \in Seq(S)
  PROVE  NamesOf(Append(ll, <<>>), sv) = NamesOf(ll, sv)
<1>1. <<>> \in Seq(S) /\ FlattenSeq(ll) \in Seq(S)
  BY EmptySeq, FlattenType
<1>2. FlattenSeq(Append(ll, <<>>)) = FlattenSeq(ll)
  BY <1>1, FlattenAppend, ConcatEmptySeq
<1>3. QED
  BY <1>2 DEF NamesOf

LEMMA NamesPop ==
  ASSUME NEW S, NEW ll \in Seq(Seq(S)), NEW sv \in Seq(S), ll # <<>>, Last(ll) = <<>>
  PROVE  NamesOf(Front(ll), sv) = NamesOf(ll, sv)
<1>1. Front(ll) \in Seq(Seq(S)) /\ ll = Append(Front(ll), <<>>)
  BY FrontAndLast
<1>2. QED
  BY <1>1, NamesPush

(* One more symbol is saved. *)
LEMMA NamesSave ==
  ASSUME NEW S, NEW ll \in Seq(Seq(S)), NEW sv \in Seq(S), NEW f \in S
  PROVE  NamesOf(ll, Append(sv, f)) = Append(NamesOf(ll, sv), f)
<1>1. FlattenSeq(ll) \in Seq(S) /\ <<f>> \in Seq(S) /\ NamesOf(ll, sv) \in Seq(S)
  BY FlattenType, NamesOfType
<1>2. Append(sv, f) = sv \o <<f>>
  BY AppendIsConcat
<1>3. Append(NamesOf(ll, sv), f) = NamesOf(ll, sv) \o <<f>>
  BY <1>1, AppendIsConcat
<1>4. FlattenSeq(ll) \o (sv \o <<f>>) = (FlattenSeq(ll) \o sv) \o <<f>>
  BY <1>1, ConcatAssociative
<1>5. QED
  BY <1>2, <1>3, <1>4 DEF NamesOf

(* The saved symbols become the head of loclist. *)
LEMMA NamesDone ==
  ASSUME NEW S, NEW ll \in Seq(Seq(S)), NEW sv \in Seq(S), ll # <<>>, Last(ll) = <<>>
  PROVE  NamesOf([ll EXCEPT ![Len(ll)] = sv], <<>>) = NamesOf(ll, sv)
<1> DEFINE fl == Front(ll)
<1>1. fl \in Seq(Seq(S)) /\ ll = Append(fl, <<>>)
  BY FrontAndLast
<1>2. [ll EXCEPT ![Len(ll)] = sv] = Append(fl, sv)
  BY ReplaceLast
<1> HIDE DEF fl
<1>3. FlattenSeq(fl) \in Seq(S) /\ <<>> \in Seq(S)
  BY <1>1, FlattenType, EmptySeq
<1>4. FlattenSeq(Append(fl, sv)) = FlattenSeq(fl) \o sv
  BY <1>1, FlattenAppend
<1>5. NamesOf(ll, sv) = FlattenSeq(fl) \o sv
  BY <1>1, NamesPush DEF NamesOf
<1>6. FlattenSeq(fl) \o sv \in Seq(S)
  BY <1>3, ConcatProperties
<1>7. NamesOf(Append(fl, sv), <<>>) = FlattenSeq(fl) \o sv
  BY <1>4, <1>6, ConcatEmptySeq DEF NamesOf
<1>8. QED
  BY <1>2, <1>5, <1>7

(* munlocal takes the last name of the head of loclist. *)
LEMMA NamesDrop ==
  ASSUME NEW S, NEW ll \in Seq(Seq(S)), ll # <<>>, Last(ll) # <<>>
  PROVE  /\ NamesOf(ll, <<>>) # <<>>
         /\ Last(NamesOf(ll, <<>>)) = Last(Last(ll))
         /\ NamesOf([ll EXCEPT ![Len(ll)] = Front(@)], <<>>) = Front(NamesOf(ll, <<>>))
         /\ Last(Last(ll)) \in S
<1> DEFINE fl == Front(ll)
           hd == Last(ll)
           t == Front(hd)
           e == Last(hd)
<1>1. fl \in Seq(Seq(S)) /\ hd \in Seq(S) /\ ll = Append(fl, hd)
  BY FrontAndLast
<1>2. t \in Seq(S) /\ e \in S /\ hd = Append(t, e)
  <2> HIDE DEF hd
  <2>1. hd # <<>>
    BY DEF hd
  <2>2. QED
    BY <1>1, <2>1, FrontAndLast
<1>3. [ll EXCEPT ![Len(ll)] = Front(@)] = Append(fl, t)
  <2>1. [ll EXCEPT ![Len(ll)] = Front(@)] = [ll EXCEPT ![Len(ll)] = Front(ll[Len(ll)])]
    OBVIOUS
  <2>2. ll[Len(ll)] = hd
    BY DEF Last
  <2> HIDE DEF fl, hd
  <2>3. [ll EXCEPT ![Len(ll)] = t] = Append(Front(ll), t)
    BY <1>2, ReplaceLast
  <2>4. QED
    BY <2>1, <2>2, <2>3 DEF fl
<1> HIDE DEF fl, hd, t, e
<1>4. FlattenSeq(fl) \in Seq(S) /\ <<>> \in Seq(S) /\ <<e>> \in Seq(S)
  BY <1>1, <1>2, FlattenType, EmptySeq
<1> DEFINE nt == FlattenSeq(fl) \o t
<1>5. nt \in Seq(S)
  BY <1>2, <1>4, ConcatProperties
<1>6. NamesOf(Append(fl, t), <<>>) = nt
  BY <1>1, <1>2, <1>5, FlattenAppend, ConcatEmptySeq DEF NamesOf
<1>7. FlattenSeq(fl) \o hd = Append(nt, e)
  <2>1. hd = t \o <<e>>
    BY <1>2, AppendIsConcat
  <2>2. FlattenSeq(fl) \o (t \o <<e>>) = nt \o <<e>>
    BY <1>2, <1>4, ConcatAssociative
  <2> HIDE DEF nt
  <2>3. Append(nt, e) = nt \o <<e>>
    BY <1>2, <1>5, AppendIsConcat
  <2>4. QED
    BY <2>1, <2>2, <2>3
<1> HIDE DEF nt
<1>8. Append(nt, e) \in Seq(S)
  BY <1>2, <1>5, AppendProperties
<1>9. NamesOf(ll, <<>>) = Append(nt, e)
  <2>1. FlattenSeq(Append(fl, hd)) = FlattenSeq(fl) \o hd
    BY <1>1, FlattenAppend
  <2>2. FlattenSeq(ll) = Append(nt, e)
    BY <1>1, <1>7, <2>1
  <2>3. Append(nt, e) \o <<>> = Append(nt, e)
    BY <1>8, ConcatEmptySeq
  <2>4. QED
    BY <2>2, <2>3 DEF NamesOf
<1>10. Front(Append(nt, e)) = nt /\ Append(nt, e) # <<>>
  BY <1>2, <1>5, PopAppend, AppendProperties
<1>11. Last(Append(nt, e)) = e
  BY <1>2, <1>5, AppendProperties, LenProperties DEF Last
<1>12. QED
  BY <1>2, <1>3, <1>6, <1>9, <1>10, <1>11 DEF e, hd

-----------------------------------------------------------------------------
(***************************************************************************)
(* How the frames share loclist.                                           *)
(***************************************************************************)

LEMMA OwnLocIs ==
  ASSUME NEW f
  PROVE  OwnLoc(f) = 0 \/ OwnLoc(f) = 1
BY DEF OwnLoc

LEMMA MarkIsNat ==
  ASSUME NEW f \in Frame
  PROVE  f.locl \in Nat
BY DEF Frame

(* What a frame below the mark n has of loclist stays its own.              *)
LEMMA OwnStays ==
  ASSUME NEW f \in Frame, NEW n \in Nat, NEW ll, NEW ll2, SameFirst(ll, ll2, n),
         f.locl + OwnLoc(f) <= n, Own(f, ll)
  PROVE  Own(f, ll2)
<1>1. f.locl \in Nat
  BY DEF Frame
<1>2. OwnLoc(f) = 1 => f.locl + 1 \in 1..n
  BY <1>1
<1>3. QED
  BY <1>2 DEF Own, SameFirst

(* The innermost frame becomes g, with the same mark. *)
LEMMA SharesTop ==
  ASSUME NEW stk \in Seq(Frame), stk # <<>>, NEW g \in Frame, NEW ll, NEW ll2,
         Shares(stk, ll), g.locl = stk[Len(stk)].locl, SameFirst(ll, ll2, g.locl),
         Len(ll2) = g.locl + OwnLoc(g), Own(g, ll2)
  PROVE  Shares([stk EXCEPT ![Len(stk)] = g], ll2)
<1> DEFINE n == Len(stk)
           s == [stk EXCEPT ![Len(stk)] = g]
<1>1. n \in Nat \ {0} /\ n \in 1..n /\ \A i \in 1..n : stk[i] \in Frame /\ stk[i].locl \in Nat
  <2>1. n \in Nat \ {0} /\ n \in 1..n
    BY EmptySeq, LenProperties
  <2>2. \A i \in 1..n : stk[i] \in Frame
    BY ElementOfSeq
  <2>3. QED
    BY <2>1, <2>2, MarkIsNat
<1>2. /\ s \in Seq(Frame) /\ Len(s) = n /\ s # <<>>
      /\ \A i \in 1..n : s[i] = IF i = n THEN g ELSE stk[i]
  BY <1>1, ExceptSeq, EmptySeq
<1>3. /\ stk[1].locl = 0 /\ g.locl = stk[n].locl /\ g.locl \in Nat
      /\ \A i \in 1..(n - 1) : stk[i + 1].locl = stk[i].locl + OwnLoc(stk[i])
      /\ \A i \in 1..n : Own(stk[i], ll)
      /\ \A i, j \in 1..n : i < j => stk[i].locl + OwnLoc(stk[i]) <= stk[j].locl
  BY <1>1 DEF Shares
<1> HIDE DEF s, n
<1>4. \A i \in 1..n : s[i].locl = stk[i].locl
  BY <1>2, <1>3
<1>5. s[1].locl = 0 /\ Len(ll2) = s[n].locl + OwnLoc(s[n])
  BY <1>1, <1>2, <1>3, <1>4
<1>6. ASSUME NEW i \in 1..(n - 1)
      PROVE  s[i + 1].locl = s[i].locl + OwnLoc(s[i])
  <2>1. i \in 1..n /\ i + 1 \in 1..n /\ i # n
    BY <1>1
  <2>2. s[i] = stk[i]
    BY <1>2, <2>1
  <2>3. QED
    BY <1>3, <1>4, <2>1, <2>2
<1>7. ASSUME NEW i \in 1..n
      PROVE  Own(s[i], ll2)
  <2>1. CASE i = n
    BY <1>2, <2>1
  <2>2. CASE i # n
    <3>1. stk[i].locl + OwnLoc(stk[i]) <= g.locl /\ Own(stk[i], ll) /\ s[i] = stk[i]
      BY <1>1, <1>2, <1>3, <2>2
    <3>2. QED
      BY <1>1, <1>3, <3>1, OwnStays
  <2>3. QED
    BY <2>1, <2>2
<1>8. ASSUME NEW i \in 1..n, NEW j \in 1..n, i < j
      PROVE  s[i].locl + OwnLoc(s[i]) <= s[j].locl
  <2>1. i # n
    BY <1>1, <1>8
  <2>2. s[i] = stk[i]
    BY <1>2, <2>1
  <2>3. QED
    BY <1>3, <1>4, <1>8, <2>2
<1>9. Shares(s, ll2)
  BY <1>2, <1>5, <1>6, <1>7, <1>8 DEF Shares
<1>10. QED
  BY <1>9 DEF s

(* A frame is entered, and pushes or does not push a frame on loclist.      *)
LEMMA SharesPush ==
  ASSUME NEW stk \in Seq(Frame), NEW g \in Frame, NEW ll, NEW ll2,
         Shares(stk, ll), Len(ll) \in Nat, g.locl = Len(ll), SameFirst(ll, ll2, g.locl),
         ll = <<>> => Len(ll) = 0, Len(ll2) = g.locl + OwnLoc(g), Own(g, ll2)
  PROVE  Shares(Append(stk, g), ll2)
<1> DEFINE n == Len(stk)
           s == Append(stk, g)
<1>1. n \in Nat /\ \A i \in 1..n : stk[i] \in Frame /\ stk[i].locl \in Nat
  <2>1. n \in Nat
    BY LenProperties
  <2>2. \A i \in 1..n : stk[i] \in Frame
    BY ElementOfSeq
  <2>3. QED
    BY <2>1, <2>2, MarkIsNat
<1>2. /\ s \in Seq(Frame) /\ Len(s) = n + 1 /\ s # <<>> /\ s[n + 1] = g
      /\ \A i \in 1..n : s[i] = stk[i]
  BY <1>1, AppendProperties
<1>3. /\ stk = <<>> <=> n = 0
      /\ n = 0 => Len(ll) = 0
      /\ n # 0 => stk[1].locl = 0 /\ Len(ll) = stk[n].locl + OwnLoc(stk[n])
      /\ \A i \in 1..(n - 1) : stk[i + 1].locl = stk[i].locl + OwnLoc(stk[i])
      /\ \A i \in 1..n : Own(stk[i], ll)
      /\ \A i, j \in 1..n : i < j => stk[i].locl + OwnLoc(stk[i]) <= stk[j].locl
  BY <1>1, EmptySeq DEF Shares
<1> HIDE DEF s, n
<1>4. \A i \in 1..n : stk[i].locl + OwnLoc(stk[i]) <= Len(ll)
  <2>1. SUFFICES ASSUME NEW i \in 1..n
                 PROVE  stk[i].locl + OwnLoc(stk[i]) <= Len(ll)
    OBVIOUS
  <2>2. CASE i = n
    BY <1>1, <1>3, <2>2
  <2>3. CASE i # n
    <3>1. i < n /\ n \in 1..n
      BY <1>1, <2>3
    <3>2. stk[i].locl + OwnLoc(stk[i]) <= stk[n].locl
      BY <1>3, <3>1
    <3>3. stk[n].locl <= Len(ll) /\ stk[n].locl \in Nat /\ stk[i].locl \in Nat
      <4>1. Len(ll) = stk[n].locl + OwnLoc(stk[n]) /\ stk[n].locl \in Nat /\ stk[i].locl \in Nat
        BY <1>1, <1>3, <3>1
      <4>2. OwnLoc(stk[n]) = 0 \/ OwnLoc(stk[n]) = 1
        BY OwnLocIs
      <4>3. QED
        BY <4>1, <4>2
    <3>4. OwnLoc(stk[i]) = 0 \/ OwnLoc(stk[i]) = 1
      BY OwnLocIs
    <3>5. QED
      BY <3>2, <3>3, <3>4
  <2>4. QED
    BY <2>2, <2>3
<1>5. s[1].locl = 0
  BY <1>1, <1>2, <1>3
<1>6. ASSUME NEW i \in 1..(n + 1 - 1)
      PROVE  s[i + 1].locl = s[i].locl + OwnLoc(s[i])
  <2>0. i \in 1..n /\ s[i] = stk[i] /\ n # 0
    BY <1>1, <1>2
  <2>1. CASE i = n
    BY <1>1, <1>2, <1>3, <2>0, <2>1
  <2>2. CASE i # n
    <3>1. i \in 1..(n - 1) /\ i + 1 \in 1..n
      BY <1>1, <2>0, <2>2
    <3>2. s[i + 1] = stk[i + 1]
      BY <1>2, <3>1
    <3>3. QED
      BY <1>3, <2>0, <3>1, <3>2
  <2>3. QED
    BY <2>1, <2>2
<1>7. ASSUME NEW i \in 1..(n + 1)
      PROVE  Own(s[i], ll2)
  <2>1. CASE i = n + 1
    BY <1>2, <2>1
  <2>2. CASE i # n + 1
    <3>1. i \in 1..n
      BY <1>1, <2>2
    <3>2. stk[i].locl + OwnLoc(stk[i]) <= g.locl /\ Own(stk[i], ll) /\ s[i] = stk[i]
      BY <1>2, <1>3, <1>4, <3>1
    <3>3. QED
      BY <1>1, <3>1, <3>2, OwnStays
  <2>3. QED
    BY <2>1, <2>2
<1>8. ASSUME NEW i \in 1..(n + 1), NEW j \in 1..(n + 1), i < j
      PROVE  s[i].locl + OwnLoc(s[i]) <= s[j].locl
  <2>1. i \in 1..n /\ s[i] = stk[i]
    BY <1>1, <1>2, <1>8
  <2>2. CASE j = n + 1
    BY <1>2, <1>4, <2>1, <2>2
  <2>3. CASE j # n + 1
    <3>1. j \in 1..n
      BY <1>1, <2>3
    <3>2. QED
      BY <1>2, <1>3, <1>8, <2>1, <3>1
  <2>4. QED
    BY <2>2, <2>3
<1>9. s[1].locl = 0 /\ Len(ll2) = s[n + 1].locl + OwnLoc(s[n + 1])
  BY <1>2, <1>5
<1>10. Shares(s, ll2)
  <2>1. Len(s) = n + 1 /\ s # <<>>
    BY <1>2
  <2>2. \A i \in 1..(Len(s) - 1) : s[i + 1].locl = s[i].locl + OwnLoc(s[i])
    BY <1>1, <1>6, <2>1
  <2>3. \A i \in 1..Len(s) : Own(s[i], ll2)
    BY <1>7, <2>1
  <2>4. \A i, j \in 1..Len(s) : i < j => s[i].locl + OwnLoc(s[i]) <= s[j].locl
    BY <1>8, <2>1
  <2>5. s[1].locl = 0 /\ Len(ll2) = s[Len(s)].locl + OwnLoc(s[Len(s)])
    BY <1>9, <2>1
  <2>6. QED
    BY <2>1, <2>2, <2>3, <2>4, <2>5 DEF Shares
<1>11. QED
  BY <1>10 DEF s

(* The innermost frame is left with nothing of its own on loclist.          *)
LEMMA SharesPop ==
  ASSUME NEW stk \in Seq(Frame), stk # <<>>, NEW ll, NEW ll2 \in Seq(Seq(Fun)),
         Shares(stk, ll), SameFirst(ll, ll2, stk[Len(stk)].locl),
         Len(ll2) = stk[Len(stk)].locl
  PROVE  Shares(Front(stk), ll2)
<1> DEFINE n == Len(stk)
           s == Front(stk)
<1>1. n \in Nat \ {0} /\ n \in 1..n /\ \A i \in 1..n : stk[i] \in Frame /\ stk[i].locl \in Nat
  <2>1. n \in Nat \ {0} /\ n \in 1..n
    BY EmptySeq, LenProperties
  <2>2. \A i \in 1..n : stk[i] \in Frame
    BY ElementOfSeq
  <2>3. QED
    BY <2>1, <2>2, MarkIsNat
<1>2. /\ s \in Seq(Frame) /\ Len(s) = n - 1 /\ (s = <<>> <=> n = 1)
      /\ \A i \in 1..(n - 1) : s[i] = stk[i]
  <2>1. s \in Seq(Frame) /\ Len(s) = n - 1 /\ \A i \in 1..(n - 1) : s[i] = stk[i]
    BY <1>1, PopProperties
  <2>2. s = <<>> <=> Len(s) = 0
    BY <2>1, EmptySeq
  <2>3. QED
    BY <1>1, <2>1, <2>2
<1>3. /\ stk[1].locl = 0
      /\ \A i \in 1..(n - 1) : stk[i + 1].locl = stk[i].locl + OwnLoc(stk[i])
      /\ \A i \in 1..n : Own(stk[i], ll)
      /\ \A i, j \in 1..n : i < j => stk[i].locl + OwnLoc(stk[i]) <= stk[j].locl
  BY <1>1 DEF Shares
<1>4. Len(ll2) = stk[n].locl /\ (Len(ll2) = 0 => ll2 = <<>>) /\ SameFirst(ll, ll2, stk[n].locl)
  BY EmptySeq
<1> HIDE DEF s, n
<1>5. s = <<>> => ll2 = <<>>
  BY <1>2, <1>3, <1>4
<1>6. s # <<>> => s[1].locl = 0 /\ Len(ll2) = s[n - 1].locl + OwnLoc(s[n - 1])
  <2>1. SUFFICES ASSUME s # <<>>
                 PROVE  s[1].locl = 0 /\ Len(ll2) = s[n - 1].locl + OwnLoc(s[n - 1])
    OBVIOUS
  <2>2. 1 \in 1..(n - 1) /\ n - 1 \in 1..(n - 1) /\ n - 1 + 1 = n
    BY <1>1, <1>2, <2>1
  <2>3. QED
    BY <1>2, <1>3, <1>4, <2>2
<1>7. ASSUME NEW i \in 1..(n - 1 - 1)
      PROVE  s[i + 1].locl = s[i].locl + OwnLoc(s[i])
  <2>1. i \in 1..(n - 1) /\ i + 1 \in 1..(n - 1)
    BY <1>1
  <2>2. QED
    BY <1>2, <1>3, <2>1
<1>8. ASSUME NEW i \in 1..(n - 1)
      PROVE  Own(s[i], ll2)
  <2>1. i \in 1..n /\ i < n
    BY <1>1
  <2>2. stk[i].locl + OwnLoc(stk[i]) <= stk[n].locl /\ Own(stk[i], ll) /\ s[i] = stk[i]
    BY <1>1, <1>2, <1>3, <2>1
  <2>3. QED
    BY <1>1, <1>4, <2>1, <2>2, OwnStays
<1>9. ASSUME NEW i \in 1..(n - 1), NEW j \in 1..(n - 1), i < j
      PROVE  s[i].locl + OwnLoc(s[i]) <= s[j].locl
  <2>1. i \in 1..n /\ j \in 1..n /\ s[i] = stk[i] /\ s[j] = stk[j]
    BY <1>1, <1>2
  <2>2. QED
    BY <1>3, <1>9, <2>1
<1>10. Shares(s, ll2)
  BY <1>2, <1>5, <1>6, <1>7, <1>8, <1>9 DEF Shares
<1>11. QED
  BY <1>10 DEF s

-----------------------------------------------------------------------------
(***************************************************************************)
(* Steps, by what they do to the frames.                                   *)
(***************************************************************************)

LFrames == /\ Shares(stack, loclist)
           /\ exit # "none" => Caught(stack, Len(stack), exit)
           /\ LocalTurn /\ RegularPhases

LStep == LFrames' /\ LocalMove

(* What is known after a step that has left the saved properties parallel.  *)
LEMMA MoveParallel ==
  ASSUME EInv, EInv', Parallel, LocalMove
  PROVE  Parallel'
<1>1. /\ LocalNames \in Seq(Fun) /\ mproplist \in Seq(Props)
      /\ LocalNames' \in Seq(Fun) /\ mproplist' \in Seq(Props)
  <2>1. /\ loclist \in Seq(Seq(Fun)) /\ saving \in Seq(Fun) /\ mproplist \in Seq(Props)
        /\ loclist' \in Seq(Seq(Fun)) /\ saving' \in Seq(Fun) /\ mproplist' \in Seq(Props)
    BY DEF EInv, EvalTypeOK
  <2>2. QED
    BY <2>1, LocalNamesOf, NamesOfType
<1>2. prop \in [Fun -> Props]
  BY DEF EInv, EvalTypeOK
<1>3. CASE LocalNames' = LocalNames /\ mproplist' = mproplist
  BY <1>3 DEF Parallel
<1>4. CASE \E f \in Fun : /\ LocalNames' = Append(LocalNames, f)
                          /\ mproplist' = Append(mproplist, prop[f])
  BY <1>1, <1>2, <1>4, AppendProperties DEF Parallel
<1>5. CASE /\ LocalNames # <<>> /\ mproplist # <<>>
           /\ LocalNames' = Front(LocalNames) /\ mproplist' = Front(mproplist)
  <2>1. Len(LocalNames') = Len(LocalNames) - 1 /\ Len(mproplist') = Len(mproplist) - 1
    BY <1>1, <1>5, PopProperties
  <2>2. QED
    BY <2>1 DEF Parallel
<1>6. QED
  BY <1>3, <1>4, <1>5 DEF LocalMove

LEMMA CaughtBelowTop ==
  ASSUME NEW stk \in Seq(Frame), stk # <<>>, NEW e, Caught(stk, Len(stk), e),
         ~Catches(e, stk[Len(stk)])
  PROVE  Caught(stk, Len(stk) - 1, e)
<1> DEFINE n == Len(stk)
<1>1. n \in Nat
  BY LenProperties
<1>2. Caught(stk, n, e) /\ ~Catches(e, stk[n])
  OBVIOUS
<1> HIDE DEF n
<1>3. ASSUME NEW i \in 1..(n - 1), Leaky(stk[i])
      PROVE  e # "go" /\ \E j \in (i + 1)..(n - 1) : Catches(e, stk[j])
  <2>1. i \in 1..n
    BY <1>1
  <2>2. e # "go" /\ \E j \in (i + 1)..n : Catches(e, stk[j])
    BY <1>2, <1>3, <2>1 DEF Caught
  <2>3. PICK j \in (i + 1)..n : Catches(e, stk[j])
    BY <2>2
  <2>4. j # n
    BY <1>2, <2>3
  <2>5. j \in (i + 1)..(n - 1)
    BY <1>1, <2>4
  <2>6. QED
    BY <2>2, <2>3, <2>5
<1>4. QED
  BY <1>3 DEF Caught, n

LEMMA CaughtTop ==
  ASSUME NEW stk \in Seq(Frame), stk # <<>>, NEW g \in Frame, NEW e,
         Caught(stk, Len(stk) - 1, e), ~Leaky(g)
  PROVE  Caught([stk EXCEPT ![Len(stk)] = g], Len(stk), e)
<1> DEFINE n == Len(stk)
           s == [stk EXCEPT ![Len(stk)] = g]
<1>1. n \in Nat /\ n \in 1..n
  BY LenProperties, EmptySeq
<1>2. \A i \in 1..n : s[i] = IF i = n THEN g ELSE stk[i]
  BY <1>1, ExceptSeq
<1>3. Caught(stk, n - 1, e)
  OBVIOUS
<1> HIDE DEF n, s
<1>4. ASSUME NEW i \in 1..n, Leaky(s[i])
      PROVE  e # "go" /\ \E j \in (i + 1)..n : Catches(e, s[j])
  <2>1. i # n
    BY <1>2, <1>4
  <2>2. i \in 1..(n - 1) /\ Leaky(stk[i])
    BY <1>1, <1>2, <1>4, <2>1
  <2>3. e # "go" /\ \E j \in (i + 1)..(n - 1) : Catches(e, stk[j])
    BY <1>3, <2>2 DEF Caught
  <2>4. PICK j \in (i + 1)..(n - 1) : Catches(e, stk[j])
    BY <2>3
  <2>5. j \in (i + 1)..n /\ s[j] = stk[j]
    BY <1>1, <1>2
  <2>6. QED
    BY <2>3, <2>4, <2>5
<1>5. QED
  BY <1>4 DEF Caught, n, s

LEMMA CaughtPop ==
  ASSUME NEW stk \in Seq(Frame), stk # <<>>, NEW e, Caught(stk, Len(stk) - 1, e)
  PROVE  Caught(Front(stk), Len(Front(stk)), e)
<1> DEFINE n == Len(stk)
           s == Front(stk)
<1>1. n \in Nat /\ Len(s) = n - 1 /\ \A i \in 1..(n - 1) : s[i] = stk[i]
  BY PopProperties, LenProperties
<1>2. Caught(stk, n - 1, e)
  OBVIOUS
<1> HIDE DEF n, s
<1>3. ASSUME NEW i \in 1..(n - 1), Leaky(s[i])
      PROVE  e # "go" /\ \E j \in (i + 1)..(n - 1) : Catches(e, s[j])
  <2>1. Leaky(stk[i])
    BY <1>1, <1>3
  <2>2. e # "go" /\ \E j \in (i + 1)..(n - 1) : Catches(e, stk[j])
    BY <1>2, <2>1 DEF Caught
  <2>3. PICK j \in (i + 1)..(n - 1) : Catches(e, stk[j])
    BY <2>2
  <2>4. s[j] = stk[j]
    BY <1>1
  <2>5. QED
    BY <2>2, <2>3, <2>4
<1>4. QED
  BY <1>1, <1>3 DEF Caught, s

(* A step with no frame of names on loclist more than b; a are there.       *)
LocMoves(a, b) ==
  \/ loclist' = loclist /\ a = b
  \/ loclist' = Append(loclist, <<>>) /\ a = 0 /\ b = 1
  \/ loclist # <<>> /\ Last(loclist) = <<>> /\ loclist' = Front(loclist) /\ a = 1 /\ b = 0

LEMMA LocMoved ==
  ASSUME EInv, NEW a \in {0, 1}, NEW b, LocMoves(a, b), NEW m \in Nat, Len(loclist) = m + a,
         UNCHANGED saving
  PROVE  /\ LocalNames' = LocalNames
         /\ SameFirst(loclist, loclist', m) /\ Len(loclist') = m + b
         /\ b = 1 => loclist' = loclist \/ loclist'[m + 1] = <<>>
<1>1. loclist \in Seq(Seq(Fun)) /\ saving \in Seq(Fun) /\ <<>> \in Seq(Fun)
  BY EmptySeq DEF EInv, EvalTypeOK
<1>2. CASE loclist' = loclist /\ a = b
  BY <1>2, LocalNamesOf DEF SameFirst
<1>3. CASE loclist' = Append(loclist, <<>>) /\ a = 0 /\ b = 1
  <2>1. LocalNames' = LocalNames
    BY <1>1, <1>3, LocalNamesOf, NamesPush
  <2>2. /\ Len(loclist') = Len(loclist) + 1 /\ loclist'[Len(loclist) + 1] = <<>>
        /\ \A i \in 1..Len(loclist) : loclist'[i] = loclist[i]
    BY <1>1, <1>3, AppendProperties
  <2>3. QED
    BY <1>3, <2>1, <2>2 DEF SameFirst
<1>4. CASE loclist # <<>> /\ Last(loclist) = <<>> /\ loclist' = Front(loclist) /\ a = 1 /\ b = 0
  <2>1. LocalNames' = LocalNames
    BY <1>1, <1>4, LocalNamesOf, NamesPop
  <2>2. /\ Len(loclist') = Len(loclist) - 1
        /\ \A i \in 1..(Len(loclist) - 1) : loclist'[i] = loclist[i]
    BY <1>1, <1>4, PopProperties
  <2>3. QED
    BY <1>4, <2>1, <2>2 DEF SameFirst
<1>5. QED
  BY <1>2, <1>3, <1>4 DEF LocMoves

LEMMA LTop ==
  ASSUME EInv, LInv, stack # <<>>
  PROVE  /\ stack \in Seq(Frame) /\ Len(stack) \in Nat \ {0} /\ Top = stack[Len(stack)]
         /\ Top \in Frame /\ Top.locl \in Nat /\ Len(loclist) = Top.locl + OwnLoc(Top)
         /\ Own(Top, loclist) /\ OwnLoc(Top) \in {0, 1}
<1>1. /\ stack \in Seq(Frame) /\ Len(stack) \in Nat \ {0} /\ Top = stack[Len(stack)]
      /\ Top \in Frame /\ Top.locl \in Nat
  BY TopFacts, Others
<1>2. Shares(stack, loclist) /\ Len(stack) \in 1..Len(stack)
  BY <1>1 DEF LInv
<1>3. Len(loclist) = Top.locl + OwnLoc(Top) /\ Own(Top, loclist)
  BY <1>1, <1>2 DEF Shares
<1>4. QED
  BY <1>1, <1>3, OwnLocIs

(* What a step leaves alone that has nothing to do with local properties.   *)
Aloof == UNCHANGED <<prop, mproplist, saving, inLocal>> /\ ~inLocal

LEMMA AloofTurn ==
  ASSUME LInv, Aloof
  PROVE  LocalTurn' /\ ~inLocal'
BY DEF LInv, LocalTurn, Aloof

(* No frame of ev is about to make names local. *)
LEMMA NoMlocal ==
  ASSUME LInv, ~inLocal, NEW i \in 1..Len(stack)
  PROVE  stack[i].phase # "mlocal"
BY DEF LInv, RegularPhases, Live

(* The innermost frame becomes g. *)
LEMMA TopLocal ==
  ASSUME EInv, EInv', LInv, Aloof, stack # <<>>, NEW g \in Frame,
         stack' = [stack EXCEPT ![Len(stack)] = g],
         g.locl = Top.locl, g.kind = Top.kind, g.mlocp = Top.mlocp,
         LocMoves(OwnLoc(Top), OwnLoc(g)),
         g.phase # "mlocal", g.kind = "call" => g.phase # "undo",
         g.phase = "retract" => exit' = "none",
         exit' # "none" => ~Leaky(g) /\ Caught(stack, Len(stack) - 1, exit')
  PROVE  LStep
<1> DEFINE n == Len(stack)
<1>1. /\ stack \in Seq(Frame) /\ n \in Nat \ {0} /\ Top = stack[n] /\ Top.locl \in Nat
      /\ Len(loclist) = Top.locl + OwnLoc(Top) /\ Own(Top, loclist) /\ OwnLoc(Top) \in {0, 1}
      /\ Shares(stack, loclist) /\ n \in 1..n
  BY LTop DEF LInv
<1>2. Len(stack') = n /\ \A i \in 1..n : stack'[i] = IF i = n THEN g ELSE stack[i]
  BY <1>1, ExceptSeq
<1>3. /\ LocalNames' = LocalNames
      /\ SameFirst(loclist, loclist', g.locl) /\ Len(loclist') = g.locl + OwnLoc(g)
      /\ OwnLoc(g) = 1 => loclist' = loclist \/ loclist'[g.locl + 1] = <<>>
  BY <1>1, LocMoved DEF Aloof
<1> HIDE DEF n
<1>4. Own(g, loclist')
  <2>1. loclist' = loclist => OwnLoc(g) = OwnLoc(Top)
    <3>1. SUFFICES ASSUME loclist' = loclist, OwnLoc(g) # OwnLoc(Top)
                   PROVE  FALSE
      OBVIOUS
    <3>2. Len(loclist') = Top.locl + OwnLoc(Top) /\ Len(loclist') = Top.locl + OwnLoc(g)
      BY <1>1, <1>3, <3>1
    <3>3. OwnLoc(g) \in {0, 1}
      BY OwnLocIs
    <3>4. QED
      BY <1>1, <3>1, <3>2, <3>3
  <2>2. QED
    BY <1>1, <1>3, <2>1 DEF Own
<1>5. Shares(stack', loclist')
  BY <1>1, <1>3, <1>4, SharesTop DEF n
<1>6. exit' # "none" => Caught(stack', Len(stack'), exit')
  <2>1. SUFFICES ASSUME exit' # "none"
                 PROVE  Caught(stack', Len(stack'), exit')
    OBVIOUS
  <2>2. ~Leaky(g) /\ Caught(stack, Len(stack) - 1, exit')
    BY <2>1
  <2>3. Caught([stack EXCEPT ![Len(stack)] = g], Len(stack), exit')
    BY <1>1, <2>2, CaughtTop
  <2>4. QED
    BY <1>2, <2>3 DEF n
<1>7. RegularPhases'
  <2>1. \A i \in 1..n : stack'[i].phase # "mlocal"
    BY <1>2, NoMlocal DEF Aloof, n
  <2>2. Last(stack') = g
    BY <1>1, <1>2 DEF Last
  <2>3. QED
    BY <1>2, <2>1, <2>2 DEF RegularPhases, Live, Top
<1>8. QED
  BY <1>3, <1>5, <1>6, <1>7, AloofTurn DEF LStep, LFrames, LocalMove, Aloof

(* The innermost frame goes to another phase. *)
LEMMA PhaseLocal ==
  ASSUME EInv, EInv', LInv, Aloof, stack # <<>>, NEW ph \in Phases, stack' = SetPhase(ph),
         LocMoves(OwnLoc(Top), OwnLoc(WithPhase(Top, ph))),
         ph # "mlocal", Top.kind = "call" => ph # "undo", ph = "retract" => exit' = "none",
         exit' # "none" => ~Leaky(WithPhase(Top, ph)) /\ Caught(stack, Len(stack) - 1, exit')
  PROVE  LStep
<1> DEFINE g == WithPhase(Top, ph)
<1>1. g \in Frame /\ g.phase = ph /\ g.kind = Top.kind /\ g.locl = Top.locl
  BY TopFacts, WithPhaseFields
<1>2. g.mlocp = Top.mlocp
  BY TopFacts DEF WithPhase, Frame
<1>3. stack' = [stack EXCEPT ![Len(stack)] = g]
  BY TopFacts DEF SetPhase, WithPhase
<1> HIDE DEF g
<1>4. /\ LocMoves(OwnLoc(Top), OwnLoc(g))
      /\ exit' # "none" => ~Leaky(g) /\ Caught(stack, Len(stack) - 1, exit')
  BY DEF g
<1>5. QED
  BY <1>1, <1>2, <1>3, <1>4, TopLocal

(* The innermost frame is left. *)
LEMMA LeftLocal ==
  ASSUME EInv, EInv', LInv, Aloof, stack # <<>>, stack' = Front(stack),
         LocMoves(OwnLoc(Top), 0),
         exit' # "none" => Caught(stack, Len(stack) - 1, exit')
  PROVE  LStep
<1> DEFINE n == Len(stack)
<1>1. /\ stack \in Seq(Frame) /\ n \in Nat \ {0} /\ Top = stack[n] /\ Top.locl \in Nat
      /\ Len(loclist) = Top.locl + OwnLoc(Top) /\ OwnLoc(Top) \in {0, 1}
      /\ Shares(stack, loclist) /\ loclist' \in Seq(Seq(Fun))
  BY LTop DEF LInv, EInv, EvalTypeOK
<1>2. Len(stack') = n - 1 /\ \A i \in 1..(n - 1) : stack'[i] = stack[i]
  BY <1>1, PopProperties
<1>3. /\ LocalNames' = LocalNames
      /\ SameFirst(loclist, loclist', Top.locl) /\ Len(loclist') = Top.locl
  <2>1. /\ LocalNames' = LocalNames
        /\ SameFirst(loclist, loclist', Top.locl) /\ Len(loclist') = Top.locl + 0
    BY <1>1, LocMoved DEF Aloof
  <2>2. QED
    BY <1>1, <2>1
<1>4. Shares(stack', loclist')
  BY <1>1, <1>3, SharesPop
<1>5. exit' # "none" => Caught(stack', Len(stack'), exit')
  BY <1>1, CaughtPop
<1> HIDE DEF n
<1>6. RegularPhases'
  <2>1. \A i \in 1..(n - 1) : stack'[i].phase # "mlocal"
    <3>1. SUFFICES ASSUME NEW i \in 1..(n - 1)
                   PROVE  stack'[i].phase # "mlocal"
      OBVIOUS
    <3>2. i \in 1..Len(stack) /\ stack'[i] = stack[i]
      BY <1>1, <1>2 DEF n
    <3>3. QED
      BY <3>2, NoMlocal DEF Aloof
  <2>2. stack' # <<>> => Last(stack').phase \in Evaluates
    <3>1. SUFFICES ASSUME stack' # <<>>
                   PROVE  Last(stack').phase \in Evaluates
      OBVIOUS
    <3>2. stack' \in Seq(Frame)
      BY DEF EInv, EvalTypeOK
    <3>3. n - 1 \in 1..(n - 1) /\ n - 1 + 1 = n
      BY <1>1, <1>2, <3>1, <3>2, EmptySeq
    <3>4. Below(stack[n - 1], stack[n - 1 + 1])
      BY <3>3 DEF EInv, Fits, n
    <3>5. QED
      BY <1>2, <3>3, <3>4 DEF Below, Last
  <2>3. QED
    BY <1>2, <2>1, <2>2 DEF RegularPhases, Live, Top, Evaluates
<1>7. QED
  BY <1>3, <1>4, <1>5, <1>6, AloofTurn DEF LStep, LFrames, LocalMove, Aloof

(* The frames and the names stay as they are. *)
LEMMA SameLocal ==
  ASSUME EInv, EInv', LInv, UNCHANGED <<stack, loclist, saving, inLocal>>, ~inLocal,
         exit' # "none" => Caught(stack, Len(stack), exit'),
         stack # <<>> /\ Top.phase = "retract" => exit' = "none",
         UNCHANGED mproplist,
         UNCHANGED prop \/ \E f \in Fun : \A u \in Fun : u # f => prop'[u] = prop[u]
  PROVE  LStep
<1>1. LocalNames' = LocalNames
  BY DEF LocalNames
<1>2. LocalMove
  BY <1>1 DEF LocalMove
<1>3. LocalTurn'
  BY DEF LInv, LocalTurn
<1>4. RegularPhases'
  BY DEF LInv, RegularPhases, Live, Top
<1>5. QED
  BY <1>2, <1>3, <1>4 DEF LInv, LFrames, LStep

(* A form is entered. *)
LEMMA PushLocal ==
  ASSUME EInv, EInv', LInv, NEW k \in Kinds, NEW ph \in {"args", "body"}, NEW vs \in Seq(Var),
         Push(k, ph, vs),
         \/ loclist' = Append(loclist, <<>>) /\ k = "call" /\ ph = "args"
         \/ loclist' = loclist /\ k # "call" /\ (k \in {"block", "ev"} => ph = "args")
  PROVE  LStep
<1> DEFINE g == [kind |-> k, phase |-> ph, vars |-> vs, bound |-> 0,
                 bindl |-> Len(bindlist), locl |-> Len(loclist),
                 mlocp |-> k \in {"block", "call"}]
           n == Len(stack)
<1>1. /\ Evaluating /\ stack' = Append(stack, g)
      /\ UNCHANGED <<prop, mproplist, inLocal, saving, exit>>
  BY DEF Push
<1>2. Aloof /\ exit' = "none"
  BY <1>1 DEF Evaluating, Aloof
<1>3. /\ Len(bindlist) \in Nat /\ Len(loclist) \in Nat /\ n \in Nat /\ stack \in Seq(Frame)
      /\ loclist = <<>> => Len(loclist) = 0
  BY Others, LenProperties, EmptySeq
<1>4. /\ g.kind = k /\ g.phase = ph /\ g.locl = Len(loclist)
      /\ g.mlocp => k \in {"block", "call"}
  BY Zenon
<1>5. g \in Frame
  BY <1>3 DEF Frame, Evaluates
<1> HIDE DEF g
<1>6. OwnLoc(g) = IF k = "call" THEN 1 ELSE 0
  BY <1>4 DEF OwnLoc
<1>7. LocMoves(0, OwnLoc(g))
  BY <1>6 DEF LocMoves
<1>8. Len(loclist) = Len(loclist) + 0
  BY <1>3
<1>9. /\ LocalNames' = LocalNames
      /\ SameFirst(loclist, loclist', Len(loclist)) /\ Len(loclist') = Len(loclist) + OwnLoc(g)
  BY <1>2, <1>3, <1>7, <1>8, LocMoved DEF Aloof
<1>10. Own(g, loclist')
  <2>1. CASE k = "call"
    <3>1. loclist' = Append(loclist, <<>>) /\ loclist \in Seq(Seq(Fun)) /\ <<>> \in Seq(Fun)
      BY <2>1, Others, EmptySeq
    <3>2. loclist'[Len(loclist) + 1] = <<>>
      BY <3>1, AppendProperties
    <3>3. QED
      BY <1>4, <2>1, <3>2 DEF Own
  <2>2. CASE k # "call"
    BY <1>4, <1>6, <2>2 DEF Own
  <2>3. QED
    BY <2>1, <2>2
<1>11. Shares(stack', loclist')
  <2>1. Shares(stack, loclist)
    BY DEF LInv
  <2>2. QED
    BY <1>1, <1>3, <1>4, <1>5, <1>9, <1>10, <2>1, SharesPush
<1>12. RegularPhases'
  <2>1. /\ Len(stack') = n + 1 /\ stack'[n + 1] = g /\ stack' # <<>>
        /\ \A i \in 1..n : stack'[i] = stack[i]
    BY <1>1, <1>3, <1>5, AppendProperties
  <2>2. \A i \in 1..(n + 1) : stack'[i].phase # "mlocal"
    <3>1. SUFFICES ASSUME NEW i \in 1..(n + 1)
                   PROVE  stack'[i].phase # "mlocal"
      OBVIOUS
    <3>2. CASE i = n + 1
      BY <1>4, <2>1, <3>2
    <3>3. CASE i # n + 1
      BY <1>2, <1>3, <2>1, <3>3, NoMlocal DEF Aloof
    <3>4. QED
      BY <3>2, <3>3
  <2>3. Last(stack') = g
    BY <2>1 DEF Last
  <2> HIDE DEF n
  <2>4. QED
    BY <1>4, <2>1, <2>2, <2>3 DEF RegularPhases, Live, Top
<1>13. QED
  BY <1>2, <1>9, <1>11, <1>12, AloofTurn DEF LStep, LFrames, LocalMove, Aloof

-----------------------------------------------------------------------------
(***************************************************************************)
(* The actions.                                                            *)
(***************************************************************************)

(* What a frame of a kind in a phase has of loclist, and whether it could   *)
(* not clean that up.                                                      *)
PhaseOwn(k, ph) == IF \/ k = "call" /\ ph # "unbind"
                      \/ k = "block" /\ ph # "args"
                      \/ k = "ev" /\ ph \notin {"args", "bind", "undo"}
                   THEN 1 ELSE 0

PhaseLeaky(k, ph) == \/ k = "call" /\ ph = "args"
                     \/ k = "ev" /\ ph \in {"mlocal", "pre"}

LEMMA PhaseOwnIs ==
  ASSUME NEW f \in Frame, NEW ph \in Phases
  PROVE  /\ OwnLoc(f) = PhaseOwn(f.kind, f.phase)
         /\ OwnLoc(WithPhase(f, ph)) = PhaseOwn(f.kind, ph)
         /\ Leaky(f) <=> PhaseLeaky(f.kind, f.phase)
         /\ Leaky(WithPhase(f, ph)) <=> PhaseLeaky(f.kind, ph)
<1>1. WithPhase(f, ph).phase = ph /\ WithPhase(f, ph).kind = f.kind
  BY WithPhaseFields
<1>2. OwnLoc(f) = PhaseOwn(f.kind, f.phase)
  BY DEF OwnLoc, PhaseOwn
<1>3. OwnLoc(WithPhase(f, ph)) = PhaseOwn(f.kind, ph)
  BY <1>1 DEF OwnLoc, PhaseOwn
<1>4. QED
  BY <1>1, <1>2, <1>3 DEF Leaky, PhaseLeaky

LEMMA PhaseMove ==
  ASSUME EInv, EInv', LInv, Aloof, stack # <<>>, NEW ph \in Phases, stack' = SetPhase(ph),
         LocMoves(PhaseOwn(Top.kind, Top.phase), PhaseOwn(Top.kind, ph)),
         ph # "mlocal", Top.kind = "call" => ph # "undo", ph = "retract" => exit' = "none",
         exit' # "none" => ~PhaseLeaky(Top.kind, ph) /\ Caught(stack, Len(stack) - 1, exit')
  PROVE  LStep
<1>1. Top \in Frame
  BY TopFacts
<1>2. LocMoves(OwnLoc(Top), OwnLoc(WithPhase(Top, ph)))
  BY <1>1, PhaseOwnIs
<1>3. exit' # "none" => ~Leaky(WithPhase(Top, ph)) /\ Caught(stack, Len(stack) - 1, exit')
  BY <1>1, PhaseOwnIs
<1>4. QED
  BY <1>2, <1>3, PhaseLocal

(* The innermost frame goes to another phase and has what it had of loclist. *)
LEMMA PhaseOnly ==
  ASSUME EInv, EInv', LInv, Aloof, stack # <<>>, NEW ph \in Phases, stack' = SetPhase(ph),
         UNCHANGED loclist, PhaseOwn(Top.kind, Top.phase) = PhaseOwn(Top.kind, ph),
         ph # "mlocal", Top.kind = "call" => ph # "undo", ph = "retract" => exit' = "none",
         exit' # "none" => ~PhaseLeaky(Top.kind, ph) /\ Caught(stack, Len(stack) - 1, exit')
  PROVE  LStep
<1>1. LocMoves(PhaseOwn(Top.kind, Top.phase), PhaseOwn(Top.kind, ph))
  BY DEF LocMoves
<1>2. QED
  BY <1>1, PhaseMove

(* The innermost frame is left and had nothing of loclist. *)
LEMMA LeftOnly ==
  ASSUME EInv, EInv', LInv, Aloof, stack # <<>>, stack' = Front(stack),
         UNCHANGED loclist, PhaseOwn(Top.kind, Top.phase) = 0,
         exit' # "none" => Caught(stack, Len(stack) - 1, exit')
  PROVE  LStep
<1>1. Top \in Frame /\ Top.phase \in Phases
  BY TopFacts
<1>2. LocMoves(OwnLoc(Top), 0)
  BY <1>1, PhaseOwnIs DEF LocMoves
<1>3. QED
  BY <1>2, LeftLocal

(* What is known of the innermost frame. *)
LEMMA TopForm ==
  ASSUME EInv, LInv, stack # <<>>
  PROVE  /\ Top.kind \in Kinds /\ Top.phase \in Phases
         /\ Top.kind \in {"errcatch", "catch"} => Top.phase \in {"body", "restore"}
         /\ Top.phase \in {"test", "next"} => Top.kind = "do"
         /\ Top.phase \in {"mlocal", "pre", "retract", "rebind"} => Top.kind = "ev"
         /\ Top.phase = "restore" => Top.kind \in {"errcatch", "catch"}
         /\ Top.phase = "unlocal" => Top.kind \in {"block", "call", "ev"}
         /\ Top.kind = "call" => Top.phase # "undo"
         /\ Top.phase = "retract" => exit = "none"
<1>1. Top.kind \in Kinds /\ Top.phase \in Phases /\ FrameOK(Top)
  BY TopFacts
<1>2. /\ Top.kind = "call" => Top.phase # "undo"
      /\ Top.phase = "retract" => exit = "none"
  BY DEF LInv, RegularPhases
<1>3. QED
  BY <1>1, <1>2 DEF FrameOK

(* Exits under way are caught below a frame that does not catch them. *)
LEMMA StillCaught ==
  ASSUME EInv, LInv, stack # <<>>, exit # "none", ~Catches(exit, Top)
  PROVE  Caught(stack, Len(stack) - 1, exit)
<1>1. stack \in Seq(Frame) /\ Top = stack[Len(stack)]
  BY TopFacts, Others
<1>2. Caught(stack, Len(stack), exit)
  BY DEF LInv
<1>3. QED
  BY <1>1, <1>2, CaughtBelowTop

(* A frame that cleans up catches nothing. *)
LEMMA CleaningUp ==
  ASSUME EInv, LInv, stack # <<>>,
         Top.phase \in {"undo", "retract", "unbind", "unlocal"}
  PROVE  /\ exit # "none" => Caught(stack, Len(stack) - 1, exit)
         /\ ~inLocal
<1>1. ~Catches(exit, Top)
  BY TopForm DEF Catches
<1>2. ~inLocal
  BY NotLocal DEF Works
<1>3. QED
  BY <1>1, <1>2, StillCaught

LEMMA EnterLocal ==
  ASSUME EInv, EInv', LInv,
         \/ \E vs \in VarLists : MprogEnter(vs) \/ MlambdaEnter(vs) \/ EvEnter(vs)
         \/ \E v \in Var : MdoEnter(v)
         \/ ErrcatchEnter \/ CatchEnter
  PROVE  LStep
<1>1. ASSUME NEW vs \in VarLists, MprogEnter(vs) \/ MlambdaEnter(vs) \/ EvEnter(vs)
      PROVE  LStep
  <2>1. vs \in Seq(Var)
    BY EvalAssumption
  <2>2. QED
    BY <1>1, <2>1, PushLocal DEF MprogEnter, MlambdaEnter, EvEnter, Kinds
<1>2. ASSUME NEW v \in Var, MdoEnter(v)
      PROVE  LStep
  <2>1. <<v>> \in Seq(Var)
    OBVIOUS
  <2>2. QED
    BY <1>2, <2>1, PushLocal DEF MdoEnter, Kinds
<1>3. CASE ErrcatchEnter \/ CatchEnter
  <2>1. <<>> \in Seq(Var)
    BY EmptySeq
  <2>2. QED
    BY <1>3, <2>1, PushLocal DEF ErrcatchEnter, CatchEnter, Kinds
<1>4. QED
  BY <1>1, <1>2, <1>3

(* While expressions are evaluated no exit is under way and nothing is saved. *)
LEMMA EvaluatingAloof ==
  ASSUME Evaluating, UNCHANGED <<prop, mproplist, saving, inLocal>>
  PROVE  Aloof /\ exit = "none"
BY DEF Evaluating, Aloof

LEMMA AssignLocal ==
  ASSUME EInv, EInv', LInv, AssignVar \/ \E f \in Fun, d \in Def : Define(f, d)
  PROVE  LStep
<1>1. CASE AssignVar
  BY <1>1, SameLocal DEF AssignVar, lvars, Evaluating
<1>2. ASSUME NEW f \in Fun, NEW d \in Def, Define(f, d)
      PROVE  LStep
  <2>1. prop \in [Fun -> Props]
    BY Others
  <2>2. \A u \in Fun : u # f => prop'[u] = prop[u]
    BY <1>2, <2>1 DEF Define
  <2>3. /\ UNCHANGED <<stack, loclist, saving, inLocal, mproplist>> /\ ~inLocal
        /\ exit' = "none"
    BY <1>2 DEF Define, Evaluating
  <2>4. QED
    BY <2>2, <2>3, SameLocal
<1>3. QED
  BY <1>1, <1>2

(* An exit that may be raised leaves no frame that could not clean up.      *)
LEMMA RegularCaught ==
  ASSUME Irregular = {}, NEW e, Regular(e)
  PROVE  Caught(stack, Len(stack), e)
BY DEF Regular, Caught, Live

LEMMA RaiseLocal ==
  ASSUME EInv, EInv', LInv, Irregular = {}, \E e \in Exits : Raise(e)
  PROVE  LStep
<1>1. PICK e \in Exits : Raise(e)
  OBVIOUS
<1>2. /\ UNCHANGED <<stack, prop, loclist, saving, inLocal, mproplist>> /\ ~inLocal
      /\ exit' = e /\ Regular(e) /\ Top.phase \in Evaluates
  BY <1>1 DEF Raise, Evaluating, lvars
<1>3. Top.phase # "retract"
  BY <1>2 DEF Evaluates
<1>4. QED
  BY <1>2, <1>3, RegularCaught, SameLocal

LEMMA ArgsDoneLocal ==
  ASSUME EInv, EInv', LInv, ArgsDone
  PROVE  LStep
<1>1. /\ Evaluating /\ stack # <<>> /\ Top.phase = "args" /\ stack' = SetPhase("bind")
      /\ loclist' = IF Top.kind = "block" THEN Append(loclist, <<>>) ELSE loclist
      /\ UNCHANGED <<prop, mproplist, inLocal, saving, exit>>
  BY DEF ArgsDone
<1>2. Aloof /\ exit' = "none" /\ "bind" \in Phases
  BY <1>1, EvaluatingAloof DEF Phases, Works
<1>3. LocMoves(PhaseOwn(Top.kind, Top.phase), PhaseOwn(Top.kind, "bind"))
  BY <1>1 DEF LocMoves, PhaseOwn
<1>4. QED
  BY <1>1, <1>2, <1>3, PhaseMove

LEMMA BoundLocal ==
  ASSUME EInv, EInv', LInv, UnbindOne \/ \E x \in Val : BindOne(x)
  PROVE  LStep
<1> DEFINE b == Top.bound
<1>1. stack # <<>> /\ UNCHANGED <<prop, loclist, mproplist, inLocal, saving, exit>>
  BY DEF UnbindOne, BindOne, lvars
<1>2. Top \in Frame /\ b \in Nat
  BY <1>1, TopFacts
<1>3. PICK d \in Nat : stack' = [stack EXCEPT ![Len(stack)] = WithBound(Top, d)]
  <2>1. \/ stack' = [stack EXCEPT ![Len(stack)] = WithBound(Top, b + 1)]
        \/ b > 0 /\ stack' = [stack EXCEPT ![Len(stack)] = WithBound(Top, b - 1)]
    BY <1>1, TopFacts DEF UnbindOne, BindOne, WithBound
  <2> HIDE DEF b
  <2>2. b + 1 \in Nat /\ (b > 0 => b - 1 \in Nat)
    BY <1>2
  <2>3. QED
    BY <2>1, <2>2
<1> DEFINE g == WithBound(Top, d)
<1>4. /\ g \in Frame /\ g.kind = Top.kind /\ g.phase = Top.phase /\ g.locl = Top.locl
      /\ g.mlocp = Top.mlocp
  BY <1>2, WithBoundFields DEF WithBound, Frame
<1>5. ~inLocal /\ (exit # "none" => Caught(stack, Len(stack) - 1, exit))
      /\ Top.phase \in {"bind", "rebind", "undo", "retract", "unbind"}
  <2>1. CASE UnbindOne
    BY <2>1, CleaningUp DEF UnbindOne, Unbinds
  <2>2. CASE \E x \in Val : BindOne(x)
    <3>1. Top.phase \in {"bind", "rebind"}
      BY <2>2 DEF BindOne
    <3>2. ~inLocal /\ exit = "none"
      BY <1>1, <3>1, NotLocal DEF EInv, ExitPhases, Works
    <3>3. QED
      BY <3>1, <3>2
  <2>3. QED
    BY <2>1, <2>2
<1> HIDE DEF g
<1>6. OwnLoc(g) = OwnLoc(Top) /\ ~Leaky(g)
  BY <1>4, <1>5 DEF OwnLoc, Leaky
<1>7. Aloof /\ LocMoves(OwnLoc(Top), OwnLoc(g))
  BY <1>1, <1>5, <1>6 DEF Aloof, LocMoves
<1>8. /\ g.phase # "mlocal" /\ (g.kind = "call" => g.phase # "undo")
      /\ g.phase = "retract" => exit' = "none"
  BY <1>1, <1>4, <1>5, TopForm
<1>9. QED
  BY <1>1, <1>3, <1>4, <1>5, <1>6, <1>7, <1>8, TopLocal DEF g

LEMMA BindDoneLocal ==
  ASSUME EInv, EInv', LInv, BindDone
  PROVE  LStep
<1>1. /\ stack # <<>> /\ Top.phase \in {"bind", "rebind"} /\ (Top.phase = "bind" => Top.kind # "ev")
      /\ stack' = SetPhase(IF Top.kind = "do" THEN "test" ELSE "body")
      /\ UNCHANGED <<prop, loclist, mproplist, inLocal, saving, exit>>
  BY DEF BindDone, lvars
<1>2. ~inLocal /\ exit = "none"
  BY <1>1, NotLocal DEF EInv, ExitPhases, Works
<1>3. Aloof /\ exit' = "none"
  BY <1>1, <1>2 DEF Aloof
<1>4. Top.kind \in Kinds /\ (Top.phase = "rebind" => Top.kind = "ev")
  BY <1>1, TopForm
<1>5. CASE Top.kind = "do"
  <2>1. PhaseOwn(Top.kind, Top.phase) = PhaseOwn(Top.kind, "test") /\ "test" \in Phases
    BY <1>5 DEF PhaseOwn, Phases, Evaluates
  <2>2. stack' = SetPhase("test")
    BY <1>1, <1>5
  <2>3. QED
    BY <1>1, <1>3, <2>1, <2>2, PhaseOnly
<1>6. CASE Top.kind # "do"
  <2>1. PhaseOwn(Top.kind, Top.phase) = PhaseOwn(Top.kind, "body") /\ "body" \in Phases
    BY <1>1, <1>4, <1>6 DEF PhaseOwn, Phases, Evaluates
  <2>2. stack' = SetPhase("body")
    BY <1>1, <1>6
  <2>3. QED
    BY <1>1, <1>3, <2>1, <2>2, PhaseOnly
<1>7. QED
  BY <1>5, <1>6

LEMMA BindFailLocal ==
  ASSUME EInv, EInv', LInv, Irregular = {}, BindFail
  PROVE  LStep
<1>1. /\ stack # <<>> /\ Top.phase \in {"bind", "rebind"} /\ Top.kind # "call"
      /\ Regular("error") /\ exit' = "error"
      /\ stack' = SetPhase(IF Top.phase = "bind" THEN "undo" ELSE "unbind")
      /\ UNCHANGED <<prop, loclist, mproplist, inLocal, saving>>
  BY DEF BindFail, lvars
<1>2. ~inLocal
  BY <1>1, NotLocal DEF Works
<1>3. Aloof
  BY <1>1, <1>2 DEF Aloof
<1>4. /\ Top.kind \in Kinds /\ (Top.phase = "rebind" => Top.kind = "ev")
      /\ Top.kind \in {"errcatch", "catch"} => Top.phase \in {"body", "restore"}
  BY <1>1, TopForm
<1>5. Caught(stack, Len(stack) - 1, "error")
  <2>1. Caught(stack, Len(stack), "error")
    BY <1>1, RegularCaught
  <2>2. stack \in Seq(Frame) /\ Top = stack[Len(stack)]
    BY <1>1, TopFacts, Others
  <2>3. ~Catches("error", Top)
    BY <1>1, <1>4 DEF Catches
  <2>4. QED
    BY <1>1, <2>1, <2>2, <2>3, CaughtBelowTop
<1>6. CASE Top.phase = "bind"
  <2>1. /\ PhaseOwn(Top.kind, Top.phase) = PhaseOwn(Top.kind, "undo") /\ "undo" \in Phases
        /\ ~PhaseLeaky(Top.kind, "undo")
    BY <1>1, <1>4, <1>6 DEF PhaseOwn, PhaseLeaky, Phases, Works
  <2>2. stack' = SetPhase("undo")
    BY <1>1, <1>6
  <2>3. QED
    BY <1>1, <1>3, <1>5, <2>1, <2>2, PhaseOnly
<1>7. CASE Top.phase = "rebind"
  <2>1. /\ PhaseOwn(Top.kind, Top.phase) = PhaseOwn(Top.kind, "unbind") /\ "unbind" \in Phases
        /\ ~PhaseLeaky(Top.kind, "unbind")
    BY <1>1, <1>4, <1>7 DEF PhaseOwn, PhaseLeaky, Phases, Works
  <2>2. stack' = SetPhase("unbind")
    BY <1>1, <1>7
  <2>3. QED
    BY <1>1, <1>3, <1>5, <2>1, <2>2, PhaseOnly
<1>8. QED
  BY <1>1, <1>6, <1>7

LEMMA BodyDoneLocal ==
  ASSUME EInv, EInv', LInv, BodyDone
  PROVE  LStep
<1>1. /\ Evaluating /\ stack # <<>>
      /\ \/ Top.phase = "body" /\ Top.kind \in {"block", "call", "ev"}
         \/ Top.phase \in {"test", "pre"}
      /\ stack' = SetPhase(CleanupPhase)
      /\ UNCHANGED <<prop, loclist, mproplist, inLocal, saving, exit>>
  BY DEF BodyDone, StartCleanup, lvars
<1>2. Aloof /\ exit' = "none"
  BY <1>1, EvaluatingAloof
<1>3. /\ Top.phase = "test" => Top.kind = "do"
      /\ Top.phase = "pre" => Top.kind = "ev"
  BY <1>1, TopForm
<1>4. CASE Top.kind = "call"
  <2>1. /\ stack' = SetPhase("unlocal") /\ "unlocal" \in Phases
        /\ PhaseOwn(Top.kind, Top.phase) = PhaseOwn(Top.kind, "unlocal")
    BY <1>1, <1>3, <1>4 DEF CleanupPhase, PhaseOwn, Phases, Works
  <2>2. QED
    BY <1>1, <1>2, <2>1, PhaseOnly
<1>5. CASE Top.kind # "call" /\ Top.phase = "pre"
  <2>1. /\ stack' = SetPhase("retract") /\ "retract" \in Phases
        /\ PhaseOwn(Top.kind, Top.phase) = PhaseOwn(Top.kind, "retract")
    BY <1>1, <1>3, <1>5 DEF CleanupPhase, PhaseOwn, Phases, Works
  <2>2. QED
    BY <1>1, <1>2, <2>1, PhaseOnly
<1>6. CASE Top.kind # "call" /\ Top.phase # "pre"
  <2>1. /\ stack' = SetPhase("unbind") /\ "unbind" \in Phases
        /\ PhaseOwn(Top.kind, Top.phase) = PhaseOwn(Top.kind, "unbind")
    BY <1>1, <1>3, <1>6 DEF CleanupPhase, PhaseOwn, Phases, Works
  <2>2. QED
    BY <1>1, <1>2, <2>1, PhaseOnly
<1>7. QED
  BY <1>4, <1>5, <1>6

LEMMA LoopLocal ==
  ASSUME EInv, EInv', LInv, TestDone \/ DoBodyDone \/ NextDone
  PROVE  LStep
<1>1. /\ Evaluating /\ stack # <<>>
      /\ Top.phase \in {"test", "next"} \/ Top.kind = "do"
      /\ \E ph \in {"body", "next", "test", "unbind"} : stack' = SetPhase(ph)
      /\ UNCHANGED <<prop, loclist, mproplist, inLocal, saving, exit>>
  BY DEF TestDone, DoBodyDone, NextDone, lvars
<1>2. Aloof /\ exit' = "none" /\ Top.kind = "do"
  BY <1>1, EvaluatingAloof, TopForm
<1>3. PICK ph \in {"body", "next", "test", "unbind"} : stack' = SetPhase(ph)
  BY <1>1
<1>4. ph \in Phases /\ PhaseOwn(Top.kind, Top.phase) = PhaseOwn(Top.kind, ph)
  BY <1>2 DEF PhaseOwn, Phases, Evaluates, Works
<1>5. QED
  BY <1>1, <1>2, <1>3, <1>4, PhaseOnly

LEMMA HandlerDoneLocal ==
  ASSUME EInv, EInv', LInv, HandlerDone \/ MdoinEmpty
  PROVE  LStep
<1>1. /\ Evaluating /\ stack # <<>> /\ Top.kind \in {"errcatch", "catch", "do"}
      /\ stack' = SetPhase("restore") \/ stack' = Front(stack)
      /\ UNCHANGED <<prop, loclist, mproplist, inLocal, saving, exit>>
  BY DEF HandlerDone, MdoinEmpty, lvars
<1>2. Aloof /\ exit' = "none"
  BY <1>1, EvaluatingAloof
<1>3. /\ "restore" \in Phases /\ PhaseOwn(Top.kind, Top.phase) = 0
      /\ PhaseOwn(Top.kind, "restore") = 0
  BY <1>1 DEF PhaseOwn, Phases, Works
<1>4. CASE stack' = SetPhase("restore")
  BY <1>1, <1>2, <1>3, <1>4, PhaseOnly
<1>5. CASE stack' = Front(stack)
  BY <1>1, <1>2, <1>3, <1>5, LeftOnly
<1>6. QED
  BY <1>1, <1>4, <1>5

LEMMA UnbindDoneLocal ==
  ASSUME EInv, EInv', LInv, UnbindDone
  PROVE  LStep
<1>1. /\ stack # <<>> /\ Top.phase \in {"undo", "retract", "unbind"} /\ stack' = AfterUnbind
      /\ UNCHANGED <<prop, loclist, mproplist, inLocal, saving, exit>>
  BY DEF UnbindDone, Unbinds, lvars
<1>2. Aloof /\ (exit' # "none" => Caught(stack, Len(stack) - 1, exit'))
  BY <1>1, CleaningUp DEF Aloof
<1>3. /\ Top.kind \in Kinds /\ (Top.kind = "call" => Top.phase # "undo")
      /\ Top.phase = "retract" => exit = "none" /\ Top.kind = "ev"
  BY <1>1, TopForm
<1>4. CASE Top.kind = "block" \/ (Top.kind = "ev" /\ Top.phase = "unbind")
  <2>1. /\ stack' = SetPhase("unlocal") /\ "unlocal" \in Phases
        /\ PhaseOwn(Top.kind, Top.phase) = PhaseOwn(Top.kind, "unlocal")
        /\ ~PhaseLeaky(Top.kind, "unlocal")
    BY <1>1, <1>4 DEF AfterUnbind, PhaseOwn, PhaseLeaky, Phases, Works
  <2>2. QED
    BY <1>1, <1>2, <2>1, PhaseOnly
<1>5. CASE Top.phase = "retract"
  <2>1. /\ stack' = SetPhase("rebind") /\ "rebind" \in Phases
        /\ PhaseOwn(Top.kind, Top.phase) = PhaseOwn(Top.kind, "rebind")
        /\ ~PhaseLeaky(Top.kind, "rebind")
    BY <1>1, <1>3, <1>5 DEF AfterUnbind, PhaseOwn, PhaseLeaky, Phases, Works
  <2>2. QED
    BY <1>1, <1>2, <1>3, <1>5, <2>1, PhaseOnly
<1>6. CASE Top.kind # "block" /\ ~(Top.kind = "ev" /\ Top.phase = "unbind") /\ Top.phase # "retract"
  <2>1. stack' = Front(stack) /\ PhaseOwn(Top.kind, Top.phase) = 0
    BY <1>1, <1>3, <1>6 DEF AfterUnbind, PhaseOwn
  <2>2. QED
    BY <1>1, <1>2, <2>1, LeftOnly
<1>7. QED
  BY <1>4, <1>5, <1>6

(* Nothing is left on loclist for errlfun1 to undo. *)
LEMMA Errlfun1Local ==
  ASSUME EInv, EInv', LInv, Errlfun1
  PROVE  LStep
<1>1. stack # <<>> /\ Top.phase = "restore" /\ UNCHANGED <<inLocal, saving, exit>>
  BY DEF Errlfun1
<1>2. ~inLocal /\ exit = "none"
  BY <1>1, NotLocal DEF EInv, ExitPhases, Works
<1>3. /\ Top.kind \in {"errcatch", "catch"} /\ Top.bound \in Nat /\ Top.bound <= Len(Top.vars)
      /\ Len(Top.vars) = 0
  <2>1. FrameOK(Top) /\ Top.bound \in Nat
    BY <1>1, TopFacts
  <2>2. Top.kind \in {"errcatch", "catch"}
    BY <1>1, <2>1 DEF FrameOK
  <2>3. Len(Top.vars) = 0 /\ Top.bound <= Len(Top.vars)
    BY <2>1, <2>2, Zenon DEF FrameOK
  <2>4. QED
    BY <2>1, <2>2, <2>3
<1>4. PhaseOwn(Top.kind, Top.phase) = 0 /\ OwnLoc(Top) = 0
  BY <1>3 DEF PhaseOwn, OwnLoc
<1>5. Len(bindlist) = Top.bindl /\ Len(loclist) = Top.locl
  <2>1. Len(bindlist) = Top.bindl + Top.bound /\ Top.bindl \in Nat
    BY <1>1, TopFacts
  <2>2. Len(loclist) = Top.locl + OwnLoc(Top) /\ Top.locl \in Nat
    BY <1>1, LTop
  <2>3. Top.bound = 0
    BY <1>3
  <2>4. QED
    BY <1>4, <2>1, <2>2, <2>3
<1>6. stack' = Front(stack) /\ UNCHANGED <<prop, loclist, mproplist>>
  BY <1>5 DEF Errlfun1
<1>7. QED
  BY <1>1, <1>2, <1>4, <1>6, LeftOnly DEF Aloof

LEMMA CatchReturnLocal ==
  ASSUME EInv, EInv', LInv, CatchReturn
  PROVE  LStep
<1>1. /\ stack # <<>> /\ exit \in {"return", "go"} /\ Catches(exit, Top)
      /\ UNCHANGED <<prop, loclist, mproplist, inLocal, saving>>
  BY DEF CatchReturn, Exiting, lvars
<1>2. ~inLocal /\ Top.kind \in {"block", "do"} /\ Top.phase = "body"
  BY <1>1 DEF Catches, EInv, ExitPhases
<1>3. CASE stack' = SetPhase("unbind") /\ exit' = "none"
  <2>1. /\ "unbind" \in Phases
        /\ PhaseOwn(Top.kind, Top.phase) = PhaseOwn(Top.kind, "unbind")
    BY <1>2 DEF PhaseOwn, Phases, Works
  <2>2. QED
    BY <1>1, <1>2, <1>3, <2>1, PhaseOnly DEF Aloof
<1>4. CASE UNCHANGED stack /\ exit' = "none"
  BY <1>1, <1>2, <1>4, SameLocal
<1>5. CASE UNCHANGED stack /\ exit' = "error" /\ exit = "go"
  <2>1. Caught(stack, Len(stack), "go")
    BY <1>5 DEF LInv
  <2>2. Caught(stack, Len(stack), "error")
    BY <2>1 DEF Caught
  <2>3. QED
    BY <1>1, <1>2, <1>5, <2>2, SameLocal
<1>6. Len(bindlist) = BodyBindl
  <2>1. FrameOK(Top) /\ Len(bindlist) = Top.bindl + Top.bound
    BY <1>1, TopFacts
  <2>2. Top.bound = Len(Top.vars)
    BY <1>2, <2>1, Zenon DEF FrameOK
  <2>3. QED
    BY <2>1, <2>2 DEF BodyBindl
<1>7. \/ stack' = SetPhase("unbind") /\ exit' = "none"
      \/ UNCHANGED stack /\ exit' = "none"
      \/ UNCHANGED stack /\ exit' = "error" /\ exit = "go"
  BY <1>6 DEF CatchReturn
<1>8. QED
  BY <1>3, <1>4, <1>5, <1>7

LEMMA CatchExitLocal ==
  ASSUME EInv, EInv', LInv, CatchExit
  PROVE  LStep
<1>1. /\ stack # <<>> /\ exit \in {"error", "throw"} /\ Catches(exit, Top)
      /\ exit' = "none" /\ stack' = SetPhase("restore")
      /\ UNCHANGED <<prop, loclist, mproplist, inLocal, saving>>
  BY DEF CatchExit, Exiting, lvars
<1>2. ~inLocal /\ Top.kind \in {"catch", "errcatch"}
  BY <1>1 DEF Catches, EInv, ExitPhases
<1>3. /\ "restore" \in Phases
      /\ PhaseOwn(Top.kind, Top.phase) = PhaseOwn(Top.kind, "restore")
  BY <1>2 DEF PhaseOwn, Phases, Works
<1>4. QED
  BY <1>1, <1>2, <1>3, PhaseOnly DEF Aloof

LEMMA MacsymaQuitLocal ==
  ASSUME EInv, EInv', LInv, MacsymaQuit
  PROVE  LStep
<1>1. /\ exit # "none" /\ exit' = "none"
      /\ UNCHANGED <<stack, prop, loclist, mproplist, inLocal, saving>>
  BY DEF MacsymaQuit, lvars
<1>2. ~inLocal
  BY <1>1 DEF EInv, ExitPhases
<1>3. QED
  BY <1>1, <1>2, SameLocal

(* A frame an exit goes through can clean up, or has nothing to.             *)
LEMMA UnwindLocal ==
  ASSUME EInv, EInv', LInv, Unwind
  PROVE  LStep
<1>1. /\ stack # <<>> /\ exit # "none" /\ Top.phase \in Evaluates /\ ~Catches(exit, Top)
      /\ IF Top.phase = "args" \/ Top.kind \in {"errcatch", "catch"}
           THEN stack' = Front(stack)
           ELSE stack' = SetPhase(CleanupPhase)
      /\ UNCHANGED <<prop, loclist, mproplist, inLocal, saving, exit>>
  BY DEF Unwind, Exiting, StartCleanup, lvars
<1>2. Aloof /\ Caught(stack, Len(stack) - 1, exit')
  <2>1. ~inLocal
    BY <1>1 DEF EInv, ExitPhases
  <2>2. QED
    BY <1>1, <2>1, StillCaught DEF Aloof
<1>3. ~PhaseLeaky(Top.kind, Top.phase)
  <2>1. stack \in Seq(Frame) /\ Top = stack[Len(stack)] /\ Len(stack) \in Nat \ {0} /\ Top \in Frame
    BY <1>1, TopFacts, Others
  <2>2. Caught(stack, Len(stack), exit)
    BY <1>1 DEF LInv
  <2>3. Leaky(Top) => \E j \in (Len(stack) + 1)..Len(stack) : Catches(exit, stack[j])
    BY <2>1, <2>2 DEF Caught
  <2>4. ~Leaky(Top)
    BY <2>1, <2>3
  <2>5. QED
    BY <2>4 DEF PhaseLeaky, Leaky
<1>4. /\ Top.kind \in Kinds
      /\ Top.kind \in {"errcatch", "catch"} => Top.phase \in {"body", "restore"}
      /\ Top.phase \in {"test", "next"} => Top.kind = "do"
      /\ Top.phase \in {"mlocal", "pre"} => Top.kind = "ev"
  BY <1>1, TopForm
<1>5. CASE Top.phase = "args" \/ Top.kind \in {"errcatch", "catch"}
  <2>1. stack' = Front(stack) /\ PhaseOwn(Top.kind, Top.phase) = 0
    BY <1>1, <1>3, <1>4, <1>5 DEF PhaseOwn, PhaseLeaky, Kinds
  <2>2. QED
    BY <1>1, <1>2, <2>1, LeftOnly
<1>6. CASE Top.phase # "args" /\ Top.kind \notin {"errcatch", "catch"} /\ Top.kind = "call"
  <2>1. /\ stack' = SetPhase("unlocal") /\ "unlocal" \in Phases
        /\ PhaseOwn(Top.kind, Top.phase) = PhaseOwn(Top.kind, "unlocal")
        /\ ~PhaseLeaky(Top.kind, "unlocal")
    BY <1>1, <1>4, <1>6 DEF CleanupPhase, PhaseOwn, PhaseLeaky, Phases, Works, Evaluates
  <2>2. QED
    BY <1>1, <1>2, <2>1, PhaseOnly
<1>7. CASE Top.phase # "args" /\ Top.kind \notin {"errcatch", "catch"} /\ Top.kind # "call"
  <2>1. Top.phase \notin {"mlocal", "pre"}
    BY <1>3, <1>4 DEF PhaseLeaky
  <2>2. /\ stack' = SetPhase("unbind") /\ "unbind" \in Phases
        /\ PhaseOwn(Top.kind, Top.phase) = PhaseOwn(Top.kind, "unbind")
        /\ ~PhaseLeaky(Top.kind, "unbind")
    BY <1>1, <1>4, <1>7, <2>1 DEF CleanupPhase, PhaseOwn, PhaseLeaky, Phases, Works, Evaluates
  <2>3. QED
    BY <1>1, <1>2, <1>7, <2>2, PhaseOnly
<1>8. QED
  BY <1>5, <1>6, <1>7

-----------------------------------------------------------------------------
(***************************************************************************)
(* local() and munlocal.                                                   *)
(***************************************************************************)

(* The head of loclist is another sequence; what is below stays. *)
LEMMA HeadReplaced ==
  ASSUME NEW ll \in Seq(Seq(Fun)), ll # <<>>, NEW t \in Seq(Fun)
  PROVE  /\ Len([ll EXCEPT ![Len(ll)] = t]) = Len(ll)
         /\ \A m \in Nat : m < Len(ll) => SameFirst(ll, [ll EXCEPT ![Len(ll)] = t], m)
<1> DEFINE n == Len(ll)
           r == [ll EXCEPT ![Len(ll)] = t]
<1>1. n \in Nat \ {0} /\ n \in 1..n
  BY LenProperties, EmptySeq
<1>2. Len(r) = n /\ \A i \in 1..n : r[i] = IF i = n THEN t ELSE ll[i]
  BY <1>1, ExceptSeq
<1> HIDE DEF r, n
<1>4. ASSUME NEW m \in Nat, m < n
      PROVE  SameFirst(ll, r, m)
  <2>1. \A i \in 1..m : i \in 1..n /\ i # n
    BY <1>1, <1>4
  <2>2. QED
    BY <1>2, <2>1 DEF SameFirst
<1>5. QED
  BY <1>2, <1>4 DEF r, n

(* The frame that unlocals has a frame of loclist, the head.                *)
LEMMA UnlocalTop ==
  ASSUME EInv, LInv, stack # <<>>, Top.phase = "unlocal"
  PROVE  /\ Top.kind \in {"block", "call", "ev"} /\ OwnLoc(Top) = 1
         /\ loclist \in Seq(Seq(Fun)) /\ loclist # <<>> /\ Len(loclist) = Top.locl + 1
         /\ Last(loclist) = loclist[Top.locl + 1]
         /\ saving = <<>> /\ ~inLocal
<1>1. Top.kind \in {"block", "call", "ev"}
  BY TopForm
<1>2. OwnLoc(Top) = 1
  BY <1>1 DEF OwnLoc
<1>3. Len(loclist) = Top.locl + 1 /\ Top.locl \in Nat
  BY <1>2, LTop
<1>4. loclist \in Seq(Seq(Fun)) /\ loclist # <<>>
  <2>1. loclist \in Seq(Seq(Fun)) /\ Len(loclist) # 0
    BY <1>3, Others
  <2>2. QED
    BY <2>1, EmptySeq
<1>5. ~inLocal
  BY CleaningUp
<1>6. saving = <<>>
  BY <1>5 DEF LInv, LocalTurn
<1>7. QED
  BY <1>1, <1>2, <1>3, <1>4, <1>5, <1>6 DEF Last

LEMMA UnlocalLocal ==
  ASSUME EInv, EInv', LInv, Unlocal
  PROVE  LStep
<1>1. /\ stack # <<>> /\ Top.phase = "unlocal"
      /\ UNCHANGED <<inLocal, saving, exit>>
  BY DEF Unlocal
<1>2. /\ Top.kind \in {"block", "call", "ev"} /\ OwnLoc(Top) = 1
      /\ loclist \in Seq(Seq(Fun)) /\ loclist # <<>> /\ Len(loclist) = Top.locl + 1
      /\ Last(loclist) = loclist[Top.locl + 1]
      /\ saving = <<>> /\ ~inLocal
  BY <1>1, UnlocalTop
<1>3. exit' # "none" => Caught(stack, Len(stack) - 1, exit')
  BY <1>1, CleaningUp
<1>4. CASE MunlocalName /\ UNCHANGED stack
  <2>1. /\ Last(loclist) # <<>>
        /\ prop' = [prop EXCEPT ![Last(Last(loclist))] = SavedProp]
        /\ mproplist' = Front(mproplist)
        /\ loclist' = [loclist EXCEPT ![Len(loclist)] = Front(@)]
    BY <1>4 DEF MunlocalName
  <2>2. /\ LocalNames # <<>> /\ Last(LocalNames) = Last(Last(loclist))
        /\ LocalNames' = Front(LocalNames)
    <3>1. LocalNames = NamesOf(loclist, <<>>) /\ LocalNames' = NamesOf(loclist', <<>>)
      BY <1>1, <1>2, LocalNamesOf
    <3>2. QED
      BY <1>2, <2>1, <3>1, NamesDrop
  <2>3. mproplist # <<>>
    <3>1. LocalNames \in Seq(Fun) /\ mproplist \in Seq(Props)
      BY <1>2, Others, LocalNamesOf, NamesOfType
    <3>2. Len(LocalNames) = Len(mproplist)
      BY DEF LInv, Parallel
    <3>3. QED
      BY <2>2, <3>1, <3>2, EmptySeq
  <2>4. LocalMove
    BY <2>1, <2>2, <2>3 DEF LocalMove, SavedProp
  <2>5. stack \in Seq(Frame) /\ Top = stack[Len(stack)] /\ Top \in Frame /\ Top.locl \in Nat
    BY <1>1, TopFacts, Others
  <2>6. Len(loclist') = Len(loclist) /\ SameFirst(loclist, loclist', Top.locl)
    <3>1. Front(Last(loclist)) \in Seq(Fun)
      BY <1>2, <2>1, FrontAndLast
    <3>2. loclist' = [loclist EXCEPT ![Len(loclist)] = Front(Last(loclist))]
      BY <2>1 DEF Last
    <3>3. Top.locl < Len(loclist)
      BY <1>2, <2>5
    <3>4. QED
      BY <1>2, <2>5, <3>1, <3>2, <3>3, HeadReplaced
  <2>7. ~Top.mlocp
    BY <1>1, <1>2, <2>1, LTop DEF Own
  <2>8. Shares([stack EXCEPT ![Len(stack)] = Top], loclist')
    <3>1. Own(Top, loclist')
      BY <2>7 DEF Own
    <3>2. Len(loclist') = Top.locl + OwnLoc(Top) /\ Shares(stack, loclist)
      BY <1>2, <2>6 DEF LInv
    <3>3. QED
      BY <1>1, <2>5, <2>6, <3>1, <3>2, SharesTop
  <2>9. [stack EXCEPT ![Len(stack)] = Top] = stack
    BY <2>5
  <2>10. Shares(stack', loclist')
    BY <1>4, <2>8, <2>9
  <2>11. LocalTurn'
    BY <1>1, <1>2 DEF LocalTurn
  <2>12. RegularPhases' /\ (exit' # "none" => Caught(stack', Len(stack'), exit'))
    BY <1>1, <1>4 DEF LInv, RegularPhases, Live, Top
  <2>13. QED
    BY <2>4, <2>10, <2>11, <2>12 DEF LStep, LFrames
<1>5. CASE /\ MunlocalPop
           /\ stack' = IF Top.kind = "call" THEN SetPhase("unbind") ELSE Front(stack)
  <2>1. /\ Last(loclist) = <<>> /\ loclist' = Front(loclist)
        /\ UNCHANGED <<prop, mproplist>>
    BY <1>2, <1>5 DEF MunlocalPop
  <2>2. Aloof /\ LocMoves(1, 0)
    BY <1>1, <1>2, <2>1 DEF Aloof, LocMoves
  <2>3. CASE Top.kind = "call"
    <3>1. /\ PhaseOwn(Top.kind, Top.phase) = 1 /\ PhaseOwn(Top.kind, "unbind") = 0
          /\ "unbind" \in Phases /\ ~PhaseLeaky(Top.kind, "unbind")
      BY <1>1, <2>3 DEF PhaseOwn, PhaseLeaky, Phases, Works
    <3>2. LocMoves(PhaseOwn(Top.kind, Top.phase), PhaseOwn(Top.kind, "unbind"))
      BY <2>2, <3>1
    <3>3. QED
      BY <1>1, <1>3, <1>5, <2>2, <2>3, <3>1, <3>2, PhaseMove
  <2>4. CASE Top.kind # "call"
    BY <1>1, <1>2, <1>3, <1>5, <2>2, <2>4, LeftLocal
  <2>5. QED
    BY <2>3, <2>4
<1>6. QED
  BY <1>4, <1>5 DEF Unlocal

(* The symbols of an ev that makes some local: it is its own frame.         *)
LEMMA MlocalLocal ==
  ASSUME EInv, EInv', LInv, Mlocal
  PROVE  LStep
<1> DEFINE n == Len(stack)
           g == WithPhase(Top, "mlocal")
<1>1. /\ stack # <<>> /\ Top.phase = "bind" /\ Top.kind = "ev"
      /\ stack' = SetPhase("mlocal") /\ loclist' = Append(loclist, <<>>)
      /\ inLocal' = TRUE /\ saving' = <<>> /\ UNCHANGED <<prop, mproplist, exit>>
  BY DEF Mlocal
<1>2. ~inLocal /\ exit' = "none"
  BY <1>1, NotLocal DEF EInv, ExitPhases, Works
<1>3. saving = <<>>
  BY <1>2 DEF LInv, LocalTurn
<1>4. /\ stack \in Seq(Frame) /\ n \in Nat \ {0} /\ Top = stack[n] /\ Top \in Frame
      /\ Top.locl \in Nat /\ Len(loclist) = Top.locl + OwnLoc(Top) /\ Own(Top, loclist)
      /\ loclist \in Seq(Seq(Fun)) /\ Shares(stack, loclist) /\ n \in 1..n
  BY <1>1, LTop, Others DEF LInv
<1>5. OwnLoc(Top) = 0 /\ Len(loclist) = Top.locl
  BY <1>1, <1>4 DEF OwnLoc
<1>6. g \in Frame /\ g.phase = "mlocal" /\ g.kind = "ev" /\ g.locl = Top.locl /\ g.mlocp = Top.mlocp
  <2>1. "mlocal" \in Phases
    BY DEF Phases, Evaluates
  <2>2. g.mlocp = Top.mlocp
    BY <1>4 DEF WithPhase, Frame
  <2>3. QED
    BY <1>1, <1>4, <2>1, <2>2, WithPhaseFields
<1>7. stack' = [stack EXCEPT ![Len(stack)] = g]
  BY <1>1, <1>4 DEF SetPhase, WithPhase
<1> HIDE DEF g
<1>8. Len(stack') = n /\ \A i \in 1..n : stack'[i] = IF i = n THEN g ELSE stack[i]
  BY <1>4, <1>7, ExceptSeq
<1>9. /\ Len(loclist') = g.locl + 1 /\ loclist'[g.locl + 1] = <<>>
      /\ SameFirst(loclist, loclist', g.locl)
  <2>1. <<>> \in Seq(Fun)
    BY EmptySeq
  <2>2. /\ Len(loclist') = Len(loclist) + 1 /\ loclist'[Len(loclist) + 1] = <<>>
        /\ \A i \in 1..Len(loclist) : loclist'[i] = loclist[i]
    BY <1>1, <1>4, <2>1, AppendProperties
  <2>3. QED
    BY <1>5, <1>6, <2>2 DEF SameFirst
<1>10. LocalMove
  <2>1. LocalNames' = LocalNames
    <3>1. <<>> \in Seq(Fun)
      BY EmptySeq
    <3>2. QED
      BY <1>1, <1>3, <1>4, <3>1, LocalNamesOf, NamesPush
  <2>2. QED
    BY <1>1, <2>1 DEF LocalMove
<1>11. OwnLoc(g) = 1
  BY <1>6 DEF OwnLoc
<1>12. Shares(stack', loclist')
  <2>1. Own(g, loclist')
    BY <1>1, <1>4, <1>6 DEF Own
  <2>2. QED
    <3>1. Len(loclist') = g.locl + OwnLoc(g) /\ g.locl = stack[Len(stack)].locl
      BY <1>4, <1>6, <1>9, <1>11
    <3>2. QED
      <4>1. /\ stack \in Seq(Frame) /\ stack # <<>> /\ g \in Frame /\ Shares(stack, loclist)
            /\ SameFirst(loclist, loclist', g.locl) /\ Own(g, loclist')
            /\ Len(loclist') = g.locl + OwnLoc(g) /\ g.locl = stack[Len(stack)].locl
        BY <1>1, <1>4, <1>6, <1>9, <2>1, <3>1
      <4>2. Shares([stack EXCEPT ![Len(stack)] = g], loclist')
        BY ONLY <4>1, SharesTop
      <4>3. QED
        BY <1>7, <4>2
<1> HIDE DEF n
<1>13. LocalTurn'
  <2>1. LocalOf(n, stack', loclist')
    BY <1>4, <1>6, <1>8, <1>9, <1>11 DEF LocalOf
  <2>2. n \in 1..Len(stack')
    BY <1>4, <1>8
  <2>3. QED
    BY <1>1, <2>1, <2>2 DEF LocalTurn
<1>14. RegularPhases'
  <2>1. \A i \in 1..n : stack'[i].phase = "mlocal" => i = n
    BY <1>2, <1>8, NoMlocal DEF n
  <2>2. Last(stack') = g
    BY <1>4, <1>8 DEF Last
  <2>3. QED
    BY <1>1, <1>2, <1>6, <1>8, <2>1, <2>2 DEF RegularPhases, Live, Top
<1>15. QED
  BY <1>2, <1>10, <1>12, <1>13, <1>14 DEF LStep, LFrames

(* The innermost frame with names on loclist has the head of it. *)
LEMMA HeadOwner ==
  ASSUME NEW stk \in Seq(Frame), NEW ll, Shares(stk, ll),
         NEW i \in 1..Len(stk), OwnLoc(stk[i]) = 1,
         \A j \in (i + 1)..Len(stk) : OwnLoc(stk[j]) = 0
  PROVE  Len(ll) = stk[i].locl + 1
<1> DEFINE n == Len(stk)
           T == {k \in (i + 1)..n : stk[k].locl # stk[i].locl + 1}
<1>1. n \in Nat \ {0} /\ i \in 1..n /\ n \in 1..n /\ stk # <<>>
  BY LenProperties, EmptySeq
<1>2. \A k \in 1..n : stk[k].locl \in Nat
  BY ElementOfSeq, MarkIsNat
<1>3. /\ Len(ll) = stk[n].locl + OwnLoc(stk[n])
      /\ \A k \in 1..(n - 1) : stk[k + 1].locl = stk[k].locl + OwnLoc(stk[k])
      /\ \A j \in (i + 1)..n : OwnLoc(stk[j]) = 0
  BY <1>1 DEF Shares
<1> HIDE DEF n
<1>4. T = {}
  <2>1. SUFFICES ASSUME T # {}
                 PROVE  FALSE
    OBVIOUS
  <2>2. PICK k \in T : \A j \in T : k <= j
    <3>1. T \subseteq Nat
      BY <1>1
    <3> HIDE DEF T
    <3>2. QED
      BY <2>1, <3>1, LeastNatural
  <2>3. k \in (i + 1)..n /\ stk[k].locl # stk[i].locl + 1
    OBVIOUS
  <2>4. k - 1 \in 1..(n - 1) /\ k - 1 + 1 = k
    BY <1>1, <2>3
  <2>5. stk[k].locl = stk[k - 1].locl + OwnLoc(stk[k - 1])
    BY <1>3, <2>4
  <2>6. CASE k - 1 = i
    BY <2>3, <2>5, <2>6
  <2>7. CASE k - 1 # i
    <3>1. k - 1 \in (i + 1)..n /\ k - 1 \notin T
      BY <1>1, <2>2, <2>3, <2>7
    <3>2. stk[k - 1].locl = stk[i].locl + 1 /\ OwnLoc(stk[k - 1]) = 0
      BY <1>3, <3>1
    <3>3. stk[i].locl \in Nat
      BY <1>1, <1>2
    <3>4. QED
      BY <2>3, <2>5, <3>2, <3>3
  <2>8. QED
    BY <2>6, <2>7
<1>5. CASE i = n
  BY <1>3, <1>5
<1>6. CASE i # n
  <2>1. n \in (i + 1)..n
    BY <1>1, <1>6
  <2>2. stk[n].locl = stk[i].locl + 1 /\ OwnLoc(stk[n]) = 0
    BY <1>3, <1>4, <2>1
  <2>3. stk[i].locl \in Nat
    BY <1>1, <1>2
  <2>4. QED
    BY <1>3, <2>2, <2>3
<1>7. QED
  BY <1>5, <1>6

LEMMA LocalBeginLocal ==
  ASSUME EInv, EInv', LInv, Irregular = {}, LocalBegin
  PROVE  LStep
<1>1. /\ Evaluating /\ inLocal' = TRUE /\ saving' = <<>>
      /\ UNCHANGED <<prop, loclist, mproplist, stack, exit>>
  BY DEF LocalBegin
<1>2. PICK i \in Live : Binder(i) /\ stack[i].mlocp /\ ~Astray(i)
  BY DEF LocalBegin
<1>3. ~inLocal /\ exit = "none" /\ saving = <<>>
  BY <1>1 DEF Evaluating, LInv, LocalTurn
<1>4. stack \in Seq(Frame) /\ Shares(stack, loclist) /\ i \in 1..Len(stack)
  BY Others DEF LInv, Live
<1>5. OwnLoc(stack[i]) = 1 /\ \A j \in (i + 1)..Len(stack) : OwnLoc(stack[j]) = 0
  BY <1>2, OwnLocIs DEF Astray
<1>6. Len(loclist) = stack[i].locl + 1
  BY <1>4, <1>5, HeadOwner
<1>7. loclist[stack[i].locl + 1] = <<>>
  <2>1. Own(stack[i], loclist)
    BY <1>4 DEF Shares
  <2>2. QED
    BY <1>2, <1>5, <2>1 DEF Own
<1>8. stack[Len(stack)].phase # "mlocal"
  <2>1. Len(stack) \in 1..Len(stack)
    BY <1>4, LenProperties
  <2>2. QED
    BY <1>3, <2>1, NoMlocal
<1>9. LocalOf(i, stack, loclist)
  BY <1>2, <1>5, <1>6, <1>7, <1>8 DEF LocalOf, Binder
<1>10. LocalTurn'
  BY <1>1, <1>4, <1>9 DEF LocalTurn
<1>11. LocalMove
  <2>1. LocalNames' = LocalNames
    BY <1>1, <1>3 DEF LocalNames
  <2>2. QED
    BY <1>1, <2>1 DEF LocalMove
<1>12. RegularPhases'
  BY <1>1 DEF LInv, RegularPhases, Live, Top
<1>13. QED
  BY <1>1, <1>3, <1>4, <1>10, <1>11, <1>12 DEF LStep, LFrames

LEMMA LocalOneLocal ==
  ASSUME EInv, EInv', LInv, NEW f \in Fun, LocalOne(f)
  PROVE  LStep
<1>1. /\ inLocal /\ mproplist' = Append(mproplist, prop[f])
      /\ prop' = [prop EXCEPT ![f] = Undefined] /\ saving' = Append(saving, f)
      /\ UNCHANGED <<loclist, inLocal, stack, exit>>
  BY DEF LocalOne
<1>2. LocalNames' = Append(LocalNames, f)
  <2>1. loclist \in Seq(Seq(Fun)) /\ saving \in Seq(Fun)
    BY Others
  <2>2. QED
    BY <1>1, <2>1, LocalNamesOf, NamesSave
<1>3. LocalMove
  BY <1>1, <1>2 DEF LocalMove
<1>4. LocalTurn' /\ RegularPhases'
  BY <1>1 DEF LInv, LocalTurn, RegularPhases, Live, Top
<1>5. QED
  BY <1>1, <1>3, <1>4 DEF LInv, LStep, LFrames

(* Nobody may call local() before this block or function is left.           *)
Closed(f) == [f EXCEPT !.mlocp = FALSE]

LEMMA ClosedFields ==
  ASSUME NEW f \in Frame
  PROVE  /\ Closed(f) \in Frame /\ Closed(f).locl = f.locl /\ Closed(f).phase = f.phase
         /\ Closed(f).kind = f.kind /\ ~Closed(f).mlocp
         /\ OwnLoc(Closed(f)) = OwnLoc(f)
<1>1. /\ Closed(f) \in Frame /\ Closed(f).locl = f.locl /\ Closed(f).phase = f.phase
      /\ Closed(f).kind = f.kind
  BY DEF Closed, Frame
<1>2. ~Closed(f).mlocp
  BY DEF Closed, Frame
<1>3. QED
  BY <1>1, <1>2 DEF OwnLoc

(* The i-th frame, whose head of loclist gets the names, is closed.          *)
LEMMA SharesClosed ==
  ASSUME NEW stk \in Seq(Frame), NEW s, NEW i \in 1..Len(stk), NEW ll, NEW ll2,
         Shares(stk, ll), Len(ll2) = Len(ll), SameFirst(ll, ll2, stk[i].locl),
         stk[i].kind \in {"block", "call"},
         \A j \in (i + 1)..Len(stk) : stk[j].kind \notin {"block", "call"},
         Len(s) = Len(stk), s # <<>>,
         \A k \in 1..Len(stk) : s[k] = IF k = i THEN Closed(stk[k]) ELSE stk[k]
  PROVE  Shares(s, ll2)
<1> DEFINE n == Len(stk)
<1>1. n \in Nat \ {0} /\ stk # <<>> /\ \A k \in 1..n : stk[k] \in Frame /\ stk[k].locl \in Nat
  BY LenProperties, EmptySeq, ElementOfSeq, MarkIsNat
<1>2. /\ stk[1].locl = 0 /\ Len(ll) = stk[n].locl + OwnLoc(stk[n])
      /\ \A k \in 1..(n - 1) : stk[k + 1].locl = stk[k].locl + OwnLoc(stk[k])
      /\ \A k \in 1..n : Own(stk[k], ll)
      /\ \A k, j \in 1..n : k < j => stk[k].locl + OwnLoc(stk[k]) <= stk[j].locl
  BY <1>1 DEF Shares
<1>3. \A k \in 1..n : /\ s[k].locl = stk[k].locl /\ OwnLoc(s[k]) = OwnLoc(stk[k])
  BY <1>1, ClosedFields
<1>4. Len(s) = n /\ i \in 1..n /\ \A j \in (i + 1)..n : stk[j].kind \notin {"block", "call"}
  OBVIOUS
<1> HIDE DEF n
<1>5. ASSUME NEW k \in 1..n
      PROVE  Own(s[k], ll2)
  <2>1. CASE k = i
    <3>1. s[k] = Closed(stk[k]) /\ ~Closed(stk[k]).mlocp
      BY <1>1, <2>1, ClosedFields DEF n
    <3>2. QED
      BY <3>1 DEF Own
  <2>2. CASE k # i
    <3>1. s[k] = stk[k] /\ Own(stk[k], ll)
      BY <1>2, <2>2 DEF n
    <3>2. CASE k < i
      <4>1. stk[k].locl + OwnLoc(stk[k]) <= stk[i].locl
        BY <1>2, <1>4, <3>2
      <4>2. QED
        BY <1>1, <1>4, <3>1, <4>1, OwnStays
    <3>3. CASE k > i
      <4>1. stk[k].kind \notin {"block", "call"}
        BY <1>1, <1>4, <3>3
      <4>2. QED
        BY <3>1, <4>1 DEF Own
    <3>4. QED
      BY <1>1, <1>4, <2>2, <3>2, <3>3
  <2>3. QED
    BY <2>1, <2>2
<1>6. s[1].locl = 0 /\ Len(ll2) = s[n].locl + OwnLoc(s[n])
  BY <1>1, <1>2, <1>3
<1>7. \A k \in 1..(n - 1) : s[k + 1].locl = s[k].locl + OwnLoc(s[k])
  <2>1. SUFFICES ASSUME NEW k \in 1..(n - 1)
                 PROVE  s[k + 1].locl = s[k].locl + OwnLoc(s[k])
    OBVIOUS
  <2>2. k \in 1..n /\ k + 1 \in 1..n
    BY <1>1
  <2>3. QED
    BY <1>2, <1>3, <2>2
<1>8. \A k, j \in 1..n : k < j => s[k].locl + OwnLoc(s[k]) <= s[j].locl
  BY <1>2, <1>3
<1>9. QED
  BY <1>4, <1>5, <1>6, <1>7, <1>8 DEF Shares

LEMMA LocalDoneLocal ==
  ASSUME EInv, EInv', LInv, LocalDone
  PROVE  LStep
<1> DEFINE n == Len(stack)
<1>1. /\ inLocal /\ inLocal' = FALSE /\ saving' = <<>> /\ UNCHANGED <<prop, mproplist>>
  BY DEF LocalDone
<1>2. PICK i \in 1..n : LocalOf(i, stack, loclist)
  BY <1>1 DEF LInv, LocalTurn
<1>3. /\ stack \in Seq(Frame) /\ n \in Nat \ {0} /\ stack # <<>> /\ Top = stack[n] /\ Top \in Frame
      /\ loclist \in Seq(Seq(Fun)) /\ saving \in Seq(Fun) /\ Shares(stack, loclist)
      /\ stack[i] \in Frame /\ stack[i].locl \in Nat
  <2>1. stack # <<>> /\ stack[i] \in Frame
    BY Others, ElementOfSeq, EmptySeq
  <2>2. QED
    BY <2>1, TopFacts, Others, MarkIsNat DEF LInv
<1>4. /\ OwnLoc(stack[i]) = 1 /\ stack[i].locl + 1 = Len(loclist) /\ loclist[Len(loclist)] = <<>>
  BY <1>2 DEF LocalOf
<1>5. loclist # <<>> /\ Last(loclist) = <<>>
  <2>1. Len(loclist) # 0
    BY <1>3, <1>4
  <2>2. loclist # <<>>
    BY ONLY <2>1, <<>> = <<>>, Len(<<>>) = 0
  <2>3. QED
    BY ONLY <1>4, <2>2 DEF Last
<1>6. /\ loclist' = [loclist EXCEPT ![Len(loclist)] = saving]
      /\ IF Top.phase = "mlocal"
           THEN stack' = SetPhase("pre")
           ELSE stack' = [k \in Live |-> IF Binder(k) THEN [stack[k] EXCEPT !.mlocp = FALSE]
                                                    ELSE stack[k]]
      /\ UNCHANGED exit
  BY <1>5 DEF LocalDone
<1>7. exit' = "none"
  BY <1>1, <1>6 DEF EInv, ExitPhases
<1>8. LocalMove
  <2>1. LocalNames = NamesOf(loclist, saving) /\ LocalNames' = NamesOf(loclist', <<>>)
    BY <1>1, LocalNamesOf
  <2>2. LocalNames' = LocalNames
    BY <1>3, <1>5, <1>6, <2>1, NamesDone
  <2>3. QED
    BY <1>1, <2>2 DEF LocalMove
<1>9. Len(loclist') = Len(loclist) /\ SameFirst(loclist, loclist', stack[i].locl)
  <2>1. stack[i].locl < Len(loclist)
    <3>1. stack[i].locl \in Nat /\ Len(loclist) = stack[i].locl + 1
      BY ONLY <1>3, <1>4, Zenon
    <3>2. QED
      BY ONLY <3>1
  <2>2. /\ Len([loclist EXCEPT ![Len(loclist)] = saving]) = Len(loclist)
        /\ \A m \in Nat : m < Len(loclist) =>
              SameFirst(loclist, [loclist EXCEPT ![Len(loclist)] = saving], m)
    BY ONLY <1>3, <1>5, HeadReplaced
  <2>3. SameFirst(loclist, [loclist EXCEPT ![Len(loclist)] = saving], stack[i].locl)
    BY ONLY <1>3, <2>1, <2>2, Zenon
  <2>4. QED
    BY ONLY <1>6, <2>2, <2>3, Zenon
<1>10. LocalTurn'
  BY <1>1 DEF LocalTurn
<1>11. \A k \in 1..n : stack[k].phase = "mlocal" => k = n
  BY DEF LInv, RegularPhases, Live
<1>12. CASE Top.phase = "mlocal"
  <2> DEFINE g == WithPhase(Top, "pre")
  <2>1. i = n /\ Top.kind = "ev"
    BY <1>2, <1>3, <1>12, TopForm DEF LocalOf
  <2>2. "pre" \in Phases
    BY DEF Phases, Evaluates
  <2>3. /\ g \in Frame /\ g.phase = "pre" /\ g.kind = "ev" /\ g.locl = Top.locl
        /\ g.mlocp = Top.mlocp
    <3>1. g.mlocp = Top.mlocp
      BY <1>3 DEF WithPhase, Frame
    <3>2. QED
      BY <1>3, <2>1, <2>2, <3>1, WithPhaseFields
  <2>4. stack' = [stack EXCEPT ![Len(stack)] = g]
    BY <1>3, <1>6, <1>12 DEF SetPhase, WithPhase
  <2> HIDE DEF g
  <2>5. OwnLoc(g) = 1 /\ ~g.mlocp
    <3>1. OwnLoc(g) = 1
      BY <2>3 DEF OwnLoc
    <3>2. Own(Top, loclist)
      BY <1>3, LTop
    <3>3. ~Top.mlocp
      BY <2>1, <3>2 DEF Own
    <3>4. QED
      BY <2>3, <3>1, <3>3
  <2>6. Shares(stack', loclist')
    <3>1. /\ g.locl = stack[Len(stack)].locl /\ Len(loclist') = g.locl + OwnLoc(g)
          /\ SameFirst(loclist, loclist', g.locl) /\ Own(g, loclist')
      BY <1>3, <1>4, <1>9, <2>1, <2>3, <2>5 DEF Own
    <3>2. /\ stack \in Seq(Frame) /\ stack # <<>> /\ g \in Frame /\ Shares(stack, loclist)
      BY <1>3, <2>3
    <3>3. Shares([stack EXCEPT ![Len(stack)] = g], loclist')
      BY ONLY <3>1, <3>2, SharesTop
    <3>4. QED
      BY <2>4, <3>3
  <2>7. RegularPhases'
    <3>1. Len(stack') = n /\ \A k \in 1..n : stack'[k] = IF k = n THEN g ELSE stack[k]
      <4>1. n \in 1..n
        BY <1>3
      <4>2. QED
        BY <1>3, <2>3, <2>4, <4>1, ExceptSeq
    <3> HIDE DEF n
    <3>2. \A k \in 1..n : stack'[k].phase # "mlocal"
      BY <1>11, <2>3, <3>1
    <3>3. Last(stack') = g
      BY <1>3, <3>1 DEF Last
    <3>4. QED
      BY <1>7, <2>3, <3>1, <3>2, <3>3 DEF RegularPhases, Live, Top
  <2>8. QED
    BY <1>7, <1>8, <1>10, <2>6, <2>7 DEF LStep, LFrames
<1>13. CASE Top.phase # "mlocal"
  <2>1. /\ stack[i].kind \in {"block", "call"}
        /\ \A j \in (i + 1)..n : stack[j].kind \notin {"block", "call"}
    BY <1>2, <1>3, <1>13 DEF LocalOf
  <2>2. \A k \in 1..n : Binder(k) <=> k = i
    BY <1>3, <2>1 DEF Binder, Live
  <2>3. stack' = [k \in 1..n |-> IF Binder(k) THEN Closed(stack[k]) ELSE stack[k]]
    BY <1>6, <1>13 DEF Live, Closed
  <2>4. stack' \in Seq(Frame)
    BY Others DEF EInv, EvalTypeOK
  <2>5. /\ \A k \in 1..n : stack'[k] = IF k = i THEN Closed(stack[k]) ELSE stack[k]
        /\ Len(stack') = n /\ stack' # <<>>
    <3>1. \A k \in 1..n : stack'[k] = IF k = i THEN Closed(stack[k]) ELSE stack[k]
      BY <2>2, <2>3
    <3>2. DOMAIN stack' = 1..n
      BY <2>3
    <3>3. DOMAIN stack' = 1..Len(stack') /\ Len(stack') \in Nat
      BY <2>4, LenProperties
    <3> HIDE DEF n
    <3>4. Len(stack') = n
      BY <1>3, <3>2, <3>3
    <3>5. QED
      BY <1>3, <2>4, <3>1, <3>4, EmptySeq
  <2>6. Shares(stack', loclist')
    BY <1>3, <1>9, <2>1, <2>5, SharesClosed
  <2>7. RegularPhases'
    <3>1. \A k \in 1..n : stack[k] \in Frame
      BY <1>3, ElementOfSeq
    <3>2. \A k \in 1..n : stack'[k].phase = stack[k].phase /\ stack'[k].kind = stack[k].kind
      BY <2>5, <3>1, ClosedFields
    <3>3. Last(stack') = stack'[n]
      BY <2>5 DEF Last
    <3>4. n \in 1..n
      BY <1>3
    <3>5. Top.kind = "call" => Top.phase # "undo"
      BY <1>3, TopForm
    <3> HIDE DEF n
    <3>6. \A k \in 1..n : stack'[k].phase # "mlocal"
      BY <1>3, <1>11, <1>13, <3>2
    <3>7. QED
      BY <1>3, <1>7, <2>5, <3>2, <3>3, <3>4, <3>5, <3>6 DEF RegularPhases, Live, Top, n
  <2>8. QED
    BY <1>7, <1>8, <1>10, <2>6, <2>7 DEF LStep, LFrames
<1>14. QED
  BY <1>12, <1>13

-----------------------------------------------------------------------------
(***************************************************************************)
(* The invariant.                                                          *)
(***************************************************************************)

LEMMA EvalInitLocals ==
  ASSUME EvalInit
  PROVE  LInv
<1>1. /\ loclist = <<>> /\ mproplist = <<>> /\ inLocal = FALSE /\ saving = <<>>
      /\ stack = <<>> /\ exit = "none"
  BY DEF EvalInit
<1>2. Len(stack) = 0 /\ Len(mproplist) = 0
  BY <1>1, EmptySeq
<1>3. LocalNames = <<>>
  <2>1. <<>> \in Seq(Fun)
    BY EmptySeq
  <2>2. QED
    BY <1>1, <2>1, FlattenEmpty, ConcatEmptySeq DEF LocalNames
<1>4. Parallel
  BY <1>1, <1>3 DEF Parallel
<1>5. Shares(stack, loclist)
  BY <1>1, <1>2 DEF Shares
<1>6. LocalTurn /\ RegularPhases
  BY <1>1, <1>2 DEF LocalTurn, RegularPhases, Live
<1>7. QED
  BY <1>1, <1>4, <1>5, <1>6 DEF LInv

(* Every step is one of those. *)
LEMMA StepLocal ==
  ASSUME EInv, EInv', LInv, Irregular = {}, EvalNext
  PROVE  LStep
<1>1. CASE \/ \E vs \in VarLists : MprogEnter(vs) \/ MlambdaEnter(vs) \/ EvEnter(vs)
           \/ \E v \in Var : MdoEnter(v)
           \/ ErrcatchEnter \/ CatchEnter
  BY <1>1, EnterLocal
<1>2. CASE AssignVar \/ \E f \in Fun, d \in Def : Define(f, d)
  BY <1>2, AssignLocal
<1>3. CASE LocalBegin \/ LocalDone \/ \E f \in Fun : LocalOne(f)
  BY <1>3, LocalBeginLocal, LocalOneLocal, LocalDoneLocal
<1>4. CASE LocalFail
  BY <1>4 DEF LocalFail
<1>5. CASE \E e \in Exits : Raise(e)
  BY <1>5, RaiseLocal
<1>6. CASE ArgsDone \/ BodyDone \/ TestDone \/ DoBodyDone \/ NextDone \/ HandlerDone \/ MdoinEmpty
  BY <1>6, ArgsDoneLocal, BodyDoneLocal, LoopLocal, HandlerDoneLocal
<1>7. CASE BindFail
  BY <1>7, BindFailLocal
<1>8. CASE UnbindOne \/ \E x \in Val : BindOne(x)
  BY <1>8, BoundLocal
<1>9. CASE BindDone \/ Mlocal \/ UnbindDone
  BY <1>9, BindDoneLocal, MlocalLocal, UnbindDoneLocal
<1>10. CASE Unlocal \/ Errlfun1 \/ Unwind
  BY <1>10, UnlocalLocal, Errlfun1Local, UnwindLocal
<1>11. CASE CatchReturn \/ CatchExit \/ MacsymaQuit
  BY <1>11, CatchReturnLocal, CatchExitLocal, MacsymaQuitLocal
<1>12. QED
  BY <1>1, <1>2, <1>3, <1>4, <1>5, <1>6, <1>7, <1>8, <1>9, <1>10, <1>11
     DEF EvalNext, EvalSteps, OwnSteps

LEMMA LocalsNext ==
  ASSUME EInv, EInv', LInv, Irregular = {}, [EvalNext]_vars
  PROVE  LInv' /\ LocalMove
<1>1. CASE EvalNext
  <2>1. LFrames' /\ LocalMove
    BY <1>1, StepLocal DEF LStep
  <2>2. Parallel'
    BY <2>1, MoveParallel DEF LInv
  <2>3. QED
    BY <2>1, <2>2 DEF LFrames, LInv
<1>2. CASE UNCHANGED vars
  <2>1. UNCHANGED <<prop, loclist, mproplist, inLocal, saving, stack, exit>>
    BY <1>2 DEF vars, lvars
  <2>2. LocalNames' = LocalNames
    BY <2>1 DEF LocalNames
  <2>3. LInv'
    BY <2>1, <2>2 DEF LInv, LocalTurn, RegularPhases, Parallel, Live, Top
  <2>4. QED
    BY <2>1, <2>2, <2>3 DEF LocalMove
<1>3. QED
  BY <1>1, <1>2

(* How the frames share loclist, where exits are caught and which names are *)
(* saved, in every behaviour without irregular inputs.                      *)
THEOREM LocalsInvariant ==
  ASSUME Irregular = {}
  PROVE  EvalSpec => [](EInv /\ LInv)
<1>1. EvalInit => EInv /\ LInv
  BY EvalInitInv, EvalInitLocals
<1>2. EInv /\ LInv /\ [EvalNext]_vars => (EInv /\ LInv)'
  BY EvalNextInv, LocalsNext
<1>3. QED
  BY <1>1, <1>2, PTL DEF EvalSpec

-----------------------------------------------------------------------------
(***************************************************************************)
(* What follows from it.                                                   *)
(***************************************************************************)

(* "restores any saved properties on exit from the block": at top level the  *)
(* frames are gone, with them their parts of loclist, and so every saved    *)
(* property has been given back, whatever exits were taken in between.       *)
THEOREM SavedPropsAreRestored ==
  ASSUME Irregular = {}
  PROVE  EvalSpec => []SavedPropsRestored
<1>1. EInv /\ LInv => SavedPropsRestored
  <2>1. SUFFICES ASSUME EInv, LInv, stack = <<>>
                 PROVE  mproplist = <<>>
    BY DEF SavedPropsRestored
  <2>2. loclist = <<>> /\ Len(stack) = 0
    BY <2>1, EmptySeq DEF LInv, Shares
  <2>3. saving = <<>>
    BY <2>1, <2>2 DEF LInv, LocalTurn
  <2>4. LocalNames = <<>>
    <3>1. <<>> \in Seq(Fun)
      BY EmptySeq
    <3>2. QED
      BY <2>2, <2>3, <3>1, FlattenEmpty, ConcatEmptySeq DEF LocalNames
  <2>5. Len(mproplist) = 0 /\ mproplist \in Seq(Props)
    BY <2>1, <2>4, Others, EmptySeq DEF LInv, Parallel
  <2>6. QED
    BY <2>5, EmptySeq
<1>2. QED
  BY <1>1, LocalsInvariant, PTL

(* What the lemmas of ShallowBinding_proof ask of a state. *)
LEMMA LocalTypes ==
  ASSUME EInv, Parallel
  PROVE  L!BindTypeOK
<1>1. /\ prop \in [Fun -> Props] /\ mproplist \in Seq(Props)
      /\ loclist \in Seq(Seq(Fun)) /\ saving \in Seq(Fun)
  BY Others
<1>2. LocalNames \in Seq(Fun)
  BY <1>1, LocalNamesOf, NamesOfType
<1>3. QED
  BY <1>1, <1>2 DEF L!BindTypeOK, L!Saved, Props, Parallel

LEMMA LocalTypesAfter ==
  ASSUME EInv', Parallel'
  PROVE  L!BindTypeOK'
<1>1. /\ prop' \in [Fun -> Props] /\ mproplist' \in Seq(Props)
      /\ loclist' \in Seq(Seq(Fun)) /\ saving' \in Seq(Fun)
  BY DEF EInv, EvalTypeOK
<1>2. LocalNames' \in Seq(Fun)
  BY <1>1, LocalNamesOf, NamesOfType
<1>3. QED
  BY <1>1, <1>2 DEF L!BindTypeOK, L!Saved, Props, Parallel

LEMMA LocalMoveRefines ==
  ASSUME EInv, EInv', Parallel, Parallel', LocalMove
  PROVE  [LocalDeep!DNext]_(LocalDeep!dvars)
<1>1. L!BindTypeOK /\ L!BindTypeOK' /\ Undefined \notin Def /\ L!Saved = Props
  BY LocalTypes, LocalTypesAfter, EvalAssumption DEF L!Saved, Props
<1>2. CASE UNCHANGED <<prop, mproplist>> /\ LocalNames' = LocalNames
  BY <1>2 DEF LocalDeep!dvars, LocalValueAt, ScopeValue, NextBinding
<1>3. CASE /\ UNCHANGED mproplist /\ LocalNames' = LocalNames
           /\ \E f \in Fun : \A u \in Fun : u # f => prop'[u] = prop[u]
  <2>1. PICK f \in Fun : \A u \in Fun : u # f => prop'[u] = prop[u]
    BY <1>3
  <2>2. \E x \in L!Saved : L!Deep!Assign(f, x)
    BY <1>1, <1>3, <2>1, L!SetAssigns
  <2>3. PICK x \in Props : L!Deep!Assign(f, x)
    BY <1>1, <2>2
  <2>4. LocalDeep!Assign(f, x)
    BY <2>3 DEF L!Deep!Assign, LocalDeep!Assign, L!Deep!CellsOf, LocalDeep!CellsOf,
                L!Deep!Innermost, LocalDeep!Innermost, L!ValueAt, LocalValueAt,
                L!ScopeValue, ScopeValue, L!NextBinding, NextBinding
  <2>5. QED
    BY <2>4 DEF LocalDeep!DNext
<1>4. ASSUME NEW f \in Fun, LocalNames' = Append(LocalNames, f),
             mproplist' = Append(mproplist, prop[f]),
             prop' = [prop EXCEPT ![f] = Undefined]
      PROVE  LocalDeep!DNext
  <2>1. Undefined \in L!Saved /\ Undefined \in Props
    BY DEF L!Saved, Props
  <2>2. L!Deep!Enter(f, Undefined)
    BY <1>1, <1>4, <2>1, L!SavingEnters
  <2>3. LocalDeep!Enter(f, Undefined)
    BY <2>2 DEF L!Deep!Enter, LocalDeep!Enter, L!ValueAt, LocalValueAt,
                L!ScopeValue, ScopeValue, L!NextBinding, NextBinding
  <2>4. QED
    BY <2>1, <2>3 DEF LocalDeep!DNext
<1>5. CASE /\ LocalNames # <<>> /\ mproplist # <<>>
           /\ LocalNames' = Front(LocalNames) /\ mproplist' = Front(mproplist)
           /\ prop' = [prop EXCEPT ![Last(LocalNames)] = Last(mproplist)]
  <2>1. L!Deep!Leave
    <3>1. /\ LocalNames' = L!Front(LocalNames) /\ mproplist' = L!Front(mproplist)
          /\ prop' = [prop EXCEPT ![L!Last(LocalNames)] = L!Last(mproplist)]
      BY <1>5 DEF L!Front, Front, L!Last, Last
    <3>2. QED
      BY <1>1, <1>5, <3>1, L!RestoringLeaves
  <2>2. LocalDeep!Leave
    BY <2>1 DEF L!Deep!Leave, LocalDeep!Leave, L!ValueAt, LocalValueAt,
                L!ScopeValue, ScopeValue, L!NextBinding, NextBinding
  <2>3. QED
    BY <2>2 DEF LocalDeep!DNext
<1>6. QED
  BY <1>2, <1>3, <1>4, <1>5 DEF LocalMove

LEMMA LocalInitRefines ==
  ASSUME EvalInit
  PROVE  LocalDeep!DInit
<1>1. prop \in [Fun -> Props] /\ LocalNames = <<>>
  <2>1. prop \in [Fun -> Props] /\ loclist = <<>> /\ saving = <<>> /\ <<>> \in Seq(Fun)
    BY EmptySeq DEF EvalInit
  <2>2. QED
    BY <2>1, FlattenEmpty, ConcatEmptySeq DEF LocalNames
<1>2. \A f \in Fun : LocalValueAt(f, 0) = prop[f]
  <2>1. Len(LocalNames) = 0
    BY <1>1, EmptySeq
  <2>2. \A f : ~ \E j \in (0 + 1)..Len(LocalNames) : LocalNames[j] = f
    BY <2>1
  <2>3. QED
    BY <2>2 DEF LocalValueAt, ScopeValue
<1>3. [f \in Fun |-> LocalValueAt(f, 0)] \in [Fun -> Props]
  BY <1>1, <1>2
<1>4. [i \in 1..Len(LocalNames) |->
         [name |-> LocalNames[i], content |-> LocalValueAt(LocalNames[i], i)]] = <<>>
  BY <1>1, EmptySeq
<1>5. QED
  BY <1>3, <1>4 DEF LocalDeep!DInit

(* local() makes the properties of its symbols local as block makes          *)
(* variables local: a definition reaches the innermost scope that made its   *)
(* name local, and leaving a block or a function, by whatever exit, uncovers *)
(* the properties of the scope around it ($local, mlocal, munlocal).         *)
THEOREM LocalPropertiesAreScoped ==
  ASSUME Irregular = {}
  PROVE  EvalSpec => LocalsAreScoped
<1>1. EInv /\ LInv /\ EInv' /\ LInv' /\ [EvalNext]_vars
        => [LocalDeep!DNext]_(LocalDeep!dvars)
  BY LocalsNext, LocalMoveRefines DEF LInv
<1>2. EvalInit => LocalDeep!DInit
  BY LocalInitRefines
<1>3. QED
  BY <1>1, <1>2, LocalsInvariant, PTL DEF EvalSpec, LocalsAreScoped, LocalDeep!DSpec

=============================================================================
