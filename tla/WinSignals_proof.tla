--------------------------- MODULE WinSignals_proof ---------------------------
(***************************************************************************)
(* What holds of WinSignals for every number of processes, every command     *)
(* and both ways to update the word: the types, that no signal is made up,   *)
(* that nobody uses memory it has not open, and, if updates are indivisible, *)
(* that every signal is delivered once.                                      *)
(*                                                                         *)
(* The inductive invariant has one part for the memory and one for each of   *)
(* those who use it.  An action of one user keeps the part of another one,   *)
(* because what the other has open stays open and, as long as it is open,    *)
(* loses none of the signals sent to it (Safe).                              *)
(***************************************************************************)
EXTENDS WinSignals, FiniteSetTheorems, TLAPS

Actor == Pid \cup Winkill \cup {"wish"}
Stores == {"storeInt", "storeTerm"}

Shape ==
  /\ indivisible \in BOOLEAN
  /\ proc \in [Pid -> Kind \cup {"none"}] /\ initialised \in [Pid -> BOOLEAN]
  /\ monitor \in [Pid -> [at : MonitorAt, reg : Register]]
  /\ winkill \in [Winkill -> Sender]
  /\ wish \in [refcount : 0 .. MaxInterps, list : Seq(Pid), leaked : SUBSET Pid,
               at : {"idle", "mapped", "loaded"}, value : Register, pid : Pid, reg : Register]

MemOK ==
  /\ word \in [Kind -> [Pid -> Register \cup {Gone}]]
  /\ sent \in [Kind -> [Pid -> Register]]
  /\ open \in [Kind -> [Pid -> SUBSET Actor]]
  /\ \A k \in Kind, p \in Pid : /\ Exists(k, p) <=> word[k][p] # Gone
                                /\ Exists(k, p) => word[k][p] \subseteq sent[k][p]

(* a uses the memory of that name, and holds signals in its register. *)
Held(a, k, p, reg) == a \in open[k][p] /\ reg \subseteq sent[k][p]

MonOK(p) ==
  /\ initialised[p] => proc[p] \in Kind /\ Held(p, proc[p], p, monitor[p].reg)
  /\ ~initialised[p] => monitor[p].at \in {"off", "sigint", "sigterm"}
  /\ indivisible => monitor[p].at \notin Stores

WinkillOK(w) ==
  /\ HasOpen(w) => Held(w, winkill[w].kind, winkill[w].pid, winkill[w].reg)
  /\ ~HasOpen(w) => winkill[w].reg = {}
  /\ indivisible => winkill[w].at # "loaded"

ListOK ==
  /\ IsFiniteSet(Listed) /\ Cardinality(Listed) = Len(wish.list)
  /\ wish.list # <<>> => wish.refcount > 0
  /\ wish.at # "idle" => wish.pid \in Listed
  /\ wish.at # "loaded" => wish.reg = {}
  /\ indivisible => wish.at # "loaded"

WishOK == /\ ListOK
          /\ \A p \in Listed : "wish" \in open["gcl"][p]
          /\ wish.at # "idle" => wish.reg \subseteq sent["gcl"][wish.pid]

WinIInv == /\ Shape /\ MemOK /\ WishOK
           /\ \A p \in Pid : MonOK(p)
           /\ \A w \in Winkill : WinkillOK(w)

(***************************************************************************)
(* Memory.                                                                 *)
(***************************************************************************)

(* What a has open stays open, with the signals sent to it. *)
Safe(a) == \A k \in Kind, p \in Pid :
             a \in open[k][p] => a \in open'[k][p] /\ sent[k][p] \subseteq sent'[k][p]
Others(h) == \A a \in Actor : a # h => Safe(a)

(* Opening existing memory disturbs nobody. *)
LEMMA OpenedKeeps ==
  ASSUME MemOK, NEW k \in Kind, NEW p \in Pid, NEW h \in Actor, Exists(k, p), Opened(k, p, h)
  PROVE  /\ MemOK' /\ (\A a \in Actor : Safe(a))
         /\ Held(h, k, p, {})' /\ word' = word
<1> USE DEF MemOK, Opened, Exists, Safe, Held
<1>1. word' = word /\ sent' = sent
  OBVIOUS
<1>2. open' \in [Kind -> [Pid -> SUBSET Actor]]
  OBVIOUS
<1>3. \A j \in Kind, q \in Pid :
        open'[j][q] = IF j = k /\ q = p THEN open[j][q] \cup {h} ELSE open[j][q]
  OBVIOUS
<1>4. \A j \in Kind, q \in Pid : open'[j][q] # {} <=> open[j][q] # {}
  BY ONLY <1>3, Exists(k, p) DEF Exists
<1>5. MemOK'
  BY ONLY <1>1, <1>2, <1>4, MemOK DEF MemOK, Exists
<1>6. \A a \in Actor : Safe(a)
  BY ONLY <1>1, <1>3 DEF Safe
<1>7. Held(h, k, p, {})'
  BY ONLY <1>3, k \in Kind, p \in Pid DEF Held
<1> QED BY ONLY <1>1, <1>5, <1>6, <1>7

(* Creating memory disturbs nobody: those who have memory of that name open  *)
(* share it.                                                                *)
LEMMA CreatedKeeps ==
  ASSUME MemOK, NEW k \in Kind, NEW p \in Pid, NEW h \in Actor, Created(k, p, h)
  PROVE  MemOK' /\ (\A a \in Actor : Safe(a)) /\ Held(h, k, p, {})'
<1> DEFINE e == Exists(k, p)
<1>1. open' \in [Kind -> [Pid -> SUBSET Actor]]
  BY DEF MemOK, Created
<1>2. \A j \in Kind, q \in Pid :
        open'[j][q] = IF j = k /\ q = p THEN open[j][q] \cup {h} ELSE open[j][q]
  BY DEF MemOK, Created
<1>3. \A j \in Kind, q \in Pid :
        word'[j][q] = IF j = k /\ q = p /\ ~e THEN {} ELSE word[j][q]
  BY DEF MemOK, Created
<1>4. \A j \in Kind, q \in Pid :
        sent'[j][q] = IF j = k /\ q = p /\ ~e THEN {} ELSE sent[j][q]
  BY DEF MemOK, Created
<1>5. word' \in [Kind -> [Pid -> Register \cup {Gone}]] /\ sent' \in [Kind -> [Pid -> Register]]
  <2>1. {} \in Register
    BY DEF Register
  <2> QED BY <2>1 DEF MemOK, Created
<1>6. {} # Gone
  BY DEF Gone
<1>7. \A j \in Kind, q \in Pid : /\ Exists(j, q)' <=> word'[j][q] # Gone
                                 /\ Exists(j, q)' => word'[j][q] \subseteq sent'[j][q]
  <2> TAKE j \in Kind, q \in Pid
  <2>1. CASE j = k /\ q = p
    <3>1. CASE e
      <4>1. /\ open'[j][q] = open[j][q] \cup {h} /\ open[j][q] # {}
            /\ word'[j][q] = word[j][q] /\ sent'[j][q] = sent[j][q]
        BY ONLY <1>2, <1>3, <1>4, <2>1, <3>1 DEF Exists
      <4>2. word[j][q] # Gone /\ word[j][q] \subseteq sent[j][q]
        BY ONLY <4>1, MemOK, j \in Kind, q \in Pid DEF MemOK, Exists
      <4> QED BY ONLY <4>1, <4>2 DEF Exists
    <3>2. CASE ~e
      <4>1. h \in open'[j][q] /\ word'[j][q] = {}
        BY ONLY <1>2, <1>3, <2>1, <3>2
      <4> QED BY ONLY <4>1, <1>6 DEF Exists
    <3> QED BY <3>1, <3>2
  <2>2. CASE ~(j = k /\ q = p)
    <3>1. open'[j][q] = open[j][q] /\ word'[j][q] = word[j][q] /\ sent'[j][q] = sent[j][q]
      BY ONLY <1>2, <1>3, <1>4, <2>2
    <3>2. /\ Exists(j, q) <=> word[j][q] # Gone
          /\ Exists(j, q) => word[j][q] \subseteq sent[j][q]
      BY DEF MemOK
    <3> QED BY ONLY <3>1, <3>2 DEF Exists
  <2> QED BY <2>1, <2>2
<1>8. \A a \in Actor : Safe(a)
  BY ONLY <1>2, <1>4 DEF Exists, Safe
<1>9. Held(h, k, p, {})'
  BY ONLY <1>2 DEF Held
<1> QED BY ONLY <1>1, <1>5, <1>7, <1>8, <1>9 DEF MemOK

(* Closing disturbs only who closes: the memory goes only with the last one.  *)
LEMMA ClosedKeeps ==
  ASSUME MemOK, NEW k \in Kind, NEW P \in SUBSET Pid, NEW h \in Actor, Closed(k, P, h)
  PROVE  MemOK' /\ Others(h)
<1>1. open' \in [Kind -> [Pid -> SUBSET Actor]]
  BY DEF MemOK, Closed
<1>2. \A j \in Kind, q \in Pid :
        open'[j][q] = IF j = k /\ q \in P THEN open[j][q] \ {h} ELSE open[j][q]
  BY DEF MemOK, Closed
<1>3. \A j \in Kind, q \in Pid :
        word'[j][q] = IF j = k /\ q \in P /\ open[j][q] \subseteq {h} THEN Gone ELSE word[j][q]
  BY DEF MemOK, Closed
<1>4. \A j \in Kind, q \in Pid :
        sent'[j][q] = IF j = k /\ q \in P /\ open[j][q] \subseteq {h} THEN {} ELSE sent[j][q]
  BY DEF MemOK, Closed
<1>5. word' \in [Kind -> [Pid -> Register \cup {Gone}]] /\ sent' \in [Kind -> [Pid -> Register]]
  <2>1. {} \in Register
    BY DEF Register
  <2> QED BY <2>1 DEF MemOK, Closed
<1>6. \A j \in Kind, q \in Pid : /\ Exists(j, q)' <=> word'[j][q] # Gone
                                 /\ Exists(j, q)' => word'[j][q] \subseteq sent'[j][q]
  <2> TAKE j \in Kind, q \in Pid
  <2>1. CASE j = k /\ q \in P /\ open[j][q] \subseteq {h}
    BY ONLY <1>2, <1>3, <2>1 DEF Exists
  <2>2. CASE ~(j = k /\ q \in P /\ open[j][q] \subseteq {h})
    <3>1. open'[j][q] # {} <=> open[j][q] # {}
      BY ONLY <1>2, <2>2
    <3>2. word'[j][q] = word[j][q] /\ sent'[j][q] = sent[j][q]
      BY ONLY <1>3, <1>4, <2>2
    <3>3. /\ Exists(j, q) <=> word[j][q] # Gone
          /\ Exists(j, q) => word[j][q] \subseteq sent[j][q]
      BY DEF MemOK
    <3> QED BY ONLY <3>1, <3>2, <3>3 DEF Exists
  <2> QED BY <2>1, <2>2
<1>7. Others(h)
  <2> SUFFICES ASSUME NEW a \in Actor, a # h, NEW j \in Kind, NEW q \in Pid, a \in open[j][q]
               PROVE  a \in open'[j][q] /\ sent[j][q] \subseteq sent'[j][q]
    BY DEF Safe, Others
  <2>1. a \in open'[j][q]
    BY ONLY <1>2, a # h, a \in open[j][q]
  <2>2. sent'[j][q] = sent[j][q]
    BY ONLY <1>4, a # h, a \in open[j][q]
  <2> QED BY ONLY <2>1, <2>2
<1> QED BY ONLY <1>1, <1>5, <1>6, <1>7 DEF MemOK

(* Sending more to it and storing what was sent disturbs nobody. *)
LEMMA StoredKeeps ==
  ASSUME MemOK, NEW k \in Kind, NEW p \in Pid, NEW S \in Register, Exists(k, p),
         S \subseteq sent'[k][p], open' = open, word' = [word EXCEPT ![k][p] = S],
         sent' \in [Kind -> [Pid -> Register]],
         \A j \in Kind, q \in Pid : sent[j][q] \subseteq sent'[j][q]
  PROVE  MemOK' /\ (\A a \in Actor : Safe(a))
<1>1. \A j \in Kind, q \in Pid : word'[j][q] = IF j = k /\ q = p THEN S ELSE word[j][q]
  BY DEF MemOK
<1>2. word' \in [Kind -> [Pid -> Register \cup {Gone}]]
  BY DEF MemOK
<1>3. S # Gone
  <2>1. -1 \notin S
    BY DEF Register, Bits
  <2> QED BY <2>1 DEF Gone, NoSig
<1>4. \A j \in Kind, q \in Pid : /\ Exists(j, q)' <=> word'[j][q] # Gone
                                 /\ Exists(j, q)' => word'[j][q] \subseteq sent'[j][q]
  <2> TAKE j \in Kind, q \in Pid
  <2>1. /\ Exists(j, q) <=> word[j][q] # Gone
        /\ Exists(j, q) => word[j][q] \subseteq sent[j][q]
    BY DEF MemOK
  <2>2. CASE j = k /\ q = p
    BY ONLY <1>1, <1>3, <2>2, Exists(k, p), open' = open, S \subseteq sent'[k][p] DEF Exists
  <2>3. CASE ~(j = k /\ q = p)
    <3>1. word'[j][q] = word[j][q] /\ sent[j][q] \subseteq sent'[j][q]
      BY <1>1, <2>3
    <3> QED BY ONLY <3>1, <2>1, open' = open DEF Exists
  <2> QED BY <2>2, <2>3
<1> QED BY <1>2, <1>4 DEF MemOK, Safe

(* No change of memory. *)
LEMMA SameMemory ==
  ASSUME MemOK, UNCHANGED memory
  PROVE  MemOK' /\ (\A a \in Actor : Safe(a))
BY DEF MemOK, memory, Exists, Safe

(* What keeps the part of a user that did nothing. *)
LEMMA HeldSafe ==
  ASSUME NEW a, NEW k \in Kind, NEW p \in Pid, NEW reg, Safe(a), Held(a, k, p, reg)
  PROVE  a \in open'[k][p] /\ reg \subseteq sent'[k][p]
BY DEF Safe, Held

LEMMA MonSafe ==
  ASSUME NEW p \in Pid, MonOK(p), Safe(p), indivisible' = indivisible, proc'[p] = proc[p],
         initialised'[p] = initialised[p], monitor'[p] = monitor[p]
  PROVE  MonOK(p)'
BY HeldSafe DEF MonOK, Held

LEMMA WinkillSafe ==
  ASSUME Shape, NEW w \in Winkill, WinkillOK(w), Safe(w), indivisible' = indivisible,
         winkill'[w] = winkill[w]
  PROVE  WinkillOK(w)'
<1>1. winkill[w].kind \in Kind /\ winkill[w].pid \in Pid
  BY DEF Shape, Sender
<1> QED BY <1>1, HeldSafe DEF WinkillOK, Held, HasOpen

LEMMA WishSafe ==
  ASSUME Shape, WishOK, Safe("wish"), indivisible' = indivisible, wish' = wish
  PROVE  WishOK'
<1>1. Listed \subseteq Pid /\ "gcl" \in Kind
  BY DEF Shape, Listed, Range, Kind
<1>2. ListOK' /\ Listed' = Listed
  BY DEF WishOK, ListOK, Listed
<1>3. \A p \in Listed : "wish" \in open'["gcl"][p]
  BY <1>1 DEF WishOK, Safe
<1>4. wish.at # "idle" => wish.reg \subseteq sent'["gcl"][wish.pid]
  BY <1>1 DEF WishOK, ListOK, Safe
<1> QED BY <1>2, <1>3, <1>4 DEF WishOK

(* The users other than h, who did nothing, in a step in which h did. *)
LEMMA OtherUsers ==
  ASSUME WinIInv, NEW h, Others(h), indivisible' = indivisible
  PROVE  /\ \A q \in Pid : /\ q # h /\ proc'[q] = proc[q] /\ initialised'[q] = initialised[q]
                           /\ monitor'[q] = monitor[q]
                          => MonOK(q)'
         /\ \A w \in Winkill : w # h /\ winkill'[w] = winkill[w] => WinkillOK(w)'
         /\ h # "wish" /\ wish' = wish => WishOK'
<1>1. \A a \in Actor : a # h => Safe(a)
  BY DEF Others
<1>2. Pid \subseteq Actor /\ Winkill \subseteq Actor /\ "wish" \in Actor
  BY DEF Actor
<1>3. Shape /\ WishOK /\ (\A p \in Pid : MonOK(p)) /\ (\A w \in Winkill : WinkillOK(w))
  BY DEF WinIInv
<1>4. ASSUME NEW q \in Pid, q # h, proc'[q] = proc[q], initialised'[q] = initialised[q],
             monitor'[q] = monitor[q]
      PROVE  MonOK(q)'
  BY <1>1, <1>2, <1>3, <1>4, MonSafe
<1>5. ASSUME NEW w \in Winkill, w # h, winkill'[w] = winkill[w]
      PROVE  WinkillOK(w)'
  BY <1>1, <1>2, <1>3, <1>5, WinkillSafe
<1>6. ASSUME h # "wish", wish' = wish
      PROVE  WishOK'
  BY <1>1, <1>2, <1>3, <1>6, WishSafe
<1> QED BY <1>4, <1>5, <1>6

LEMMA Users ==
  /\ Pid \subseteq Actor /\ Winkill \subseteq Actor /\ "wish" \in Actor
  /\ \A p \in Pid : p # "wish" /\ p \notin Winkill
  /\ \A w \in Winkill : w # "wish" /\ w \notin Pid
BY WinAssumption DEF Actor

LEMMA SafeOthers ==
  ASSUME \A a \in Actor : Safe(a), NEW h
  PROVE  Others(h)
BY DEF Others

(***************************************************************************)
(* Maxima.                                                                 *)
(***************************************************************************)

LEMMA InitSharedMemoryKept ==
  ASSUME WinIInv, NEW p \in Pid, NEW k \in Kind, InitSharedMemory(p, k)
  PROVE  WinIInv'
<1>1. Shape /\ MemOK /\ p \in Actor /\ ~initialised[p]
  BY Users DEF WinIInv, MonOK, InitSharedMemory, Kind
<1>2. MemOK' /\ (\A a \in Actor : Safe(a)) /\ (initialised'[p] => Held(p, k, p, {})')
  <2>1. CASE Created(k, p, p)
    BY <1>1, <2>1, CreatedKeeps
  <2>2. CASE UNCHANGED <<memory, initialised>>
    BY <1>1, <2>2, SameMemory
  <2> QED BY <2>1, <2>2 DEF InitSharedMemory
<1>3. /\ \A q \in Pid : q # p => /\ proc'[q] = proc[q] /\ initialised'[q] = initialised[q]
                                /\ monitor'[q] = monitor[q]
      /\ proc'[p] = k /\ monitor'[p] = [at |-> "sigint", reg |-> {}]
      /\ UNCHANGED <<indivisible, winkill, wish>>
  BY <1>1 DEF InitSharedMemory, Shape
<1>4. Shape'
  BY <1>1, <1>3 DEF InitSharedMemory, Shape, MonitorAt, Register
<1>5. MonOK(p)'
  BY <1>2, <1>3 DEF MonOK, Held, Stores
<1> Others(p)
  BY <1>2, SafeOthers
<1>6. \A q \in Pid : MonOK(q)'
  BY ONLY WinIInv, <1>2, Others(p), <1>3, <1>5, p \in Pid, Users, OtherUsers
<1>7. (\A w \in Winkill : WinkillOK(w)') /\ WishOK'
  BY ONLY WinIInv, <1>2, Others(p), <1>3, p \in Pid, Users, OtherUsers
<1> QED BY <1>2, <1>4, <1>6, <1>7 DEF WinIInv

LEMMA MaximaExitKept ==
  ASSUME WinIInv, NEW p \in Pid, MaximaExit(p)
  PROVE  WinIInv'
<1>1. Shape /\ MemOK /\ p \in Actor /\ proc[p] \in Kind
  BY Users DEF WinIInv, MaximaExit, Shape
<1>2. MemOK' /\ Others(p)
  BY <1>1, ClosedKeeps DEF MaximaExit
<1>3. /\ \A q \in Pid : q # p => /\ proc'[q] = proc[q] /\ initialised'[q] = initialised[q]
                                /\ monitor'[q] = monitor[q]
      /\ initialised'[p] = FALSE /\ monitor'[p] = [at |-> "off", reg |-> {}]
      /\ UNCHANGED <<indivisible, winkill, wish>>
  BY <1>1 DEF MaximaExit, Shape
<1>4. Shape'
  BY <1>1, <1>3 DEF MaximaExit, Shape, MonitorAt, Register
<1>5. MonOK(p)'
  BY <1>3 DEF MonOK, Stores
<1>6. \A q \in Pid : MonOK(q)'
  BY ONLY WinIInv, <1>2, <1>3, <1>5, p \in Pid, Users, OtherUsers
<1>7. (\A w \in Winkill : WinkillOK(w)') /\ WishOK'
  BY ONLY WinIInv, <1>2, <1>3, p \in Pid, Users, OtherUsers
<1> QED BY <1>2, <1>4, <1>6, <1>7 DEF WinIInv

(* What the monitor of p may become in a step of its own, r being its record. *)
LEMMA MonitorMoves ==
  ASSUME WinIInv, NEW p \in Pid, NEW r \in [at : MonitorAt, reg : Register],
         MemOK', \A a \in Actor : Safe(a),
         monitor' = [monitor EXCEPT ![p] = r],
         r.at \in {"sigint", "sigterm"} \/ initialised[p],
         initialised[p] => r.reg \subseteq sent'[proc[p]][p],
         indivisible => r.at \notin Stores,
         UNCHANGED <<indivisible, proc, initialised, winkill, wish>>
  PROVE  WinIInv'
<1>1. \A q \in Pid : monitor'[q] = IF q = p THEN r ELSE monitor[q]
  BY DEF WinIInv, Shape
<1>2. Shape'
  BY DEF WinIInv, Shape
<1>3. MonOK(p)'
  <2>1. MonOK(p) /\ Safe(p)
    BY Users DEF WinIInv
  <2> QED BY <1>1, <2>1 DEF MonOK, Held, Safe
<1>4. Others(p)
  BY SafeOthers
<1>5. \A q \in Pid : MonOK(q)'
  <2>1. \A q \in Pid : q # p => proc'[q] = proc[q] /\ initialised'[q] = initialised[q] /\ monitor'[q] = monitor[q]
    BY <1>1
  <2> QED BY ONLY <2>1, WinIInv, <1>3, <1>4, indivisible' = indivisible, p \in Pid, Users, OtherUsers
<1>6. (\A w \in Winkill : WinkillOK(w)') /\ WishOK'
  BY ONLY WinIInv, <1>4, UNCHANGED <<indivisible, winkill, wish>>, p \in Pid, Users, OtherUsers
<1> QED BY <1>2, <1>5, <1>6 DEF WinIInv

LEMMA ReadSmKept ==
  ASSUME WinIInv, NEW p \in Pid, NEW from, NEW sig, NEW hit \in MonitorAt \ Stores,
         NEW miss \in {"sigint", "sigterm"}, ReadSm(p, from, sig, hit, miss)
  PROVE  WinIInv'
<1> DEFINE r == [at |-> IF initialised[p] /\ sig \in Own(p) THEN hit ELSE miss, reg |-> {}]
<1>1. r \in [at : MonitorAt, reg : Register] /\ r.reg = {} /\ r.at \notin Stores
  BY DEF MonitorAt, Register, Stores
<1>2. r.at \in {"sigint", "sigterm"} \/ initialised[p]
  OBVIOUS
<1>3. monitor' = [monitor EXCEPT ![p] = r]
  BY DEF ReadSm, MonitorGoes
<1>4. MemOK' /\ (\A a \in Actor : Safe(a))
  BY SameMemory DEF WinIInv, ReadSm
<1>5. UNCHANGED <<indivisible, proc, initialised, winkill, wish>>
  BY DEF ReadSm
<1> HIDE DEF r
<1> QED BY ONLY WinIInv, p \in Pid, <1>1, <1>2, <1>3, <1>4, <1>5, MonitorMoves

(* What the monitor of p has mapped while it clears a bit. *)
LEMMA MonitorHolds ==
  ASSUME WinIInv, NEW p \in Pid, monitor[p].at \notin {"off", "sigint", "sigterm"}
  PROVE  /\ initialised[p] /\ proc[p] \in Kind /\ Exists(proc[p], p)
         /\ monitor[p].reg \in Register /\ monitor[p].reg \subseteq sent[proc[p]][p]
         /\ word[proc[p]][p] \in Register /\ word[proc[p]][p] \subseteq sent[proc[p]][p]
<1>1. initialised[p] /\ proc[p] \in Kind /\ Held(p, proc[p], p, monitor[p].reg)
  BY DEF WinIInv, MonOK
<1>2. Exists(proc[p], p) /\ monitor[p].reg \subseteq sent[proc[p]][p]
  BY <1>1 DEF Held, Exists
<1>3. word[proc[p]][p] # Gone /\ word[proc[p]][p] \subseteq sent[proc[p]][p]
  BY <1>1, <1>2 DEF WinIInv, MemOK
<1>4. word[proc[p]][p] \in Register \cup {Gone}
  BY <1>1 DEF WinIInv, MemOK
<1>5. monitor[p].reg \in Register
  BY DEF WinIInv, Shape
<1> QED BY <1>1, <1>2, <1>3, <1>4, <1>5

LEMMA OwnStored ==
  ASSUME WinIInv, NEW p \in Pid, NEW S \in Register, proc[p] \in Kind, Exists(proc[p], p),
         S \subseteq sent[proc[p]][p], SetOwn(p, S), UNCHANGED <<open, sent>>
  PROVE  MemOK' /\ (\A a \in Actor : Safe(a))
<1>1. MemOK
  BY DEF WinIInv
<1>2. /\ sent' \in [Kind -> [Pid -> Register]] /\ S \subseteq sent'[proc[p]][p]
      /\ \A j \in Kind, q \in Pid : sent[j][q] \subseteq sent'[j][q]
  BY <1>1 DEF MemOK
<1>3. word' = [word EXCEPT ![proc[p]][p] = S] /\ open' = open
  BY DEF SetOwn
<1> QED BY ONLY <1>1, <1>2, <1>3, p \in Pid, S \in Register, proc[p] \in Kind, Exists(proc[p], p), StoredKeeps

LEMMA ResetSmKept ==
  ASSUME WinIInv, NEW p \in Pid, NEW from \in MonitorAt \ {"off", "sigint", "sigterm"}, NEW sig,
         NEW store \in Stores, NEW to \in {"sigint", "sigterm"}, ResetSm(p, from, sig, store, to)
  PROVE  WinIInv'
<1>1. monitor[p].at = from
  BY DEF ResetSm, MonitorGoes
<1>2. /\ initialised[p] /\ proc[p] \in Kind /\ Exists(proc[p], p)
      /\ word[proc[p]][p] \in Register /\ word[proc[p]][p] \subseteq sent[proc[p]][p]
  BY <1>1, MonitorHolds
<1> DEFINE S == Own(p) \ {sig}
<1>3. S \in Register /\ S \subseteq sent[proc[p]][p]
  BY <1>2 DEF Own, Register
<1>4. UNCHANGED <<indivisible, proc, initialised, open, sent, winkill, wish>>
  BY DEF ResetSm
<1>5. CASE indivisible
  <2> DEFINE r == [at |-> to, reg |-> {}]
  <2>1. r \in [at : MonitorAt, reg : Register] /\ r.at \in {"sigint", "sigterm"} /\ r.reg = {}
        /\ r.at \notin Stores
    BY DEF MonitorAt, Register, Stores
  <2>2. monitor' = [monitor EXCEPT ![p] = r] /\ SetOwn(p, S)
    BY <1>5 DEF ResetSm, MonitorGoes
  <2>3. MemOK' /\ (\A a \in Actor : Safe(a))
    BY <1>2, <1>3, <1>4, <2>2, OwnStored
  <2> HIDE DEF r
  <2> QED BY ONLY WinIInv, p \in Pid, <1>4, <2>1, <2>2, <2>3, MonitorMoves
<1>6. CASE ~indivisible
  <2> DEFINE r == [at |-> store, reg |-> S]
  <2>1. r \in [at : MonitorAt, reg : Register] /\ r.reg = S
    BY <1>3 DEF MonitorAt, Stores
  <2>2. monitor' = [monitor EXCEPT ![p] = r] /\ word' = word
    BY <1>6 DEF ResetSm
  <2>3. MemOK' /\ (\A a \in Actor : Safe(a))
    BY <1>4, <2>2, SameMemory DEF WinIInv, memory
  <2>4. r.reg \subseteq sent'[proc[p]][p]
    BY <1>3, <1>4, <2>1
  <2> HIDE DEF r
  <2> QED BY ONLY WinIInv, p \in Pid, <1>2, <1>4, <1>6, <2>1, <2>2, <2>3, <2>4, MonitorMoves
<1> QED BY <1>5, <1>6

LEMMA StoreSmKept ==
  ASSUME WinIInv, NEW p \in Pid, NEW from \in Stores, NEW to \in {"sigint", "sigterm"},
         StoreSm(p, from, to)
  PROVE  WinIInv'
<1>1. monitor[p].at \notin {"off", "sigint", "sigterm"}
  BY DEF StoreSm, MonitorGoes, Stores
<1> DEFINE r == [at |-> to, reg |-> {}]
<1>2. r \in [at : MonitorAt, reg : Register] /\ r.at \in {"sigint", "sigterm"} /\ r.reg = {}
      /\ r.at \notin Stores
  BY DEF MonitorAt, Register, Stores
<1>3. /\ monitor' = [monitor EXCEPT ![p] = r] /\ SetOwn(p, monitor[p].reg)
      /\ UNCHANGED <<indivisible, proc, initialised, open, sent, winkill, wish>>
  BY DEF StoreSm, MonitorGoes
<1>4. MemOK' /\ (\A a \in Actor : Safe(a))
  BY <1>1, <1>3, MonitorHolds, OwnStored
<1> HIDE DEF r
<1> QED BY ONLY WinIInv, p \in Pid, <1>2, <1>3, <1>4, MonitorMoves

LEMMA MonitorStepKept ==
  ASSUME WinIInv, NEW p \in Pid, MonitorStep(p)
  PROVE  WinIInv'
<1>1. CASE ReadSm(p, "sigint", SIGINT, "resetInt", "sigterm")
  BY <1>1, ReadSmKept DEF MonitorAt, Stores
<1>2. CASE ResetSm(p, "resetInt", SIGINT, "storeInt", "sigterm")
  BY <1>2, ResetSmKept DEF MonitorAt, Stores
<1>3. CASE StoreSm(p, "storeInt", "sigterm")
  BY <1>3, StoreSmKept DEF Stores
<1>4. CASE ReadSm(p, "sigterm", SIGTERM, "resetTerm", "sigint")
  BY <1>4, ReadSmKept DEF MonitorAt, Stores
<1>5. CASE ResetSm(p, "resetTerm", SIGTERM, "storeTerm", "sigint")
  BY <1>5, ResetSmKept DEF MonitorAt, Stores
<1>6. CASE StoreSm(p, "storeTerm", "sigint")
  BY <1>6, StoreSmKept DEF Stores
<1> QED BY <1>1, <1>2, <1>3, <1>4, <1>5, <1>6 DEF MonitorStep

(***************************************************************************)
(* winkill.exe.                                                            *)
(***************************************************************************)

Mapped(r) == r.at \in {"mapped", "loaded", "stored"}

(* What w may become in a step of its own, r being its record. *)
LEMMA WinkillMoves ==
  ASSUME WinIInv, NEW w \in Winkill, NEW r \in Sender, MemOK', Others(w),
         winkill' = [winkill EXCEPT ![w] = r],
         Mapped(r) => w \in open'[r.kind][r.pid] /\ r.reg \subseteq sent'[r.kind][r.pid],
         ~Mapped(r) => r.reg = {},
         indivisible => r.at # "loaded",
         UNCHANGED <<indivisible, proc, initialised, monitor, wish>>
  PROVE  WinIInv'
<1>1. \A v \in Winkill : winkill'[v] = IF v = w THEN r ELSE winkill[v]
  BY DEF WinIInv, Shape
<1>2. Shape'
  BY DEF WinIInv, Shape
<1>3. WinkillOK(w)'
  BY <1>1 DEF WinkillOK, HasOpen, Mapped, Held
<1>4. \A v \in Winkill : WinkillOK(v)'
  <2>1. \A v \in Winkill : v # w => winkill'[v] = winkill[v]
    BY <1>1
  <2> QED BY ONLY <2>1, WinIInv, <1>3, Others(w), indivisible' = indivisible, w \in Winkill, OtherUsers
<1>5. (\A p \in Pid : MonOK(p)') /\ WishOK'
  BY ONLY WinIInv, Others(w), UNCHANGED <<indivisible, proc, initialised, monitor, wish>>,
          w \in Winkill, Users, OtherUsers
<1> QED BY <1>2, <1>4, <1>5 DEF WinIInv

LEMMA IdleIsSender == IdleWinkill \in Sender /\ IdleWinkill.reg = {} /\ IdleWinkill.at = "idle"
<1>1. (CHOOSE p \in Pid : TRUE) \in Pid
  BY WinAssumption
<1> QED BY <1>1 DEF IdleWinkill, Sender, Register, Kind

LEMMA WinkillStartKept ==
  ASSUME WinIInv, NEW w \in Winkill, NEW text \in Command, NEW p \in Pid, WinkillStart(w, text, p)
  PROVE  WinIInv'
<1> DEFINE r == [IdleWinkill EXCEPT !.at = "tryGcl", !.value = {WinkillSig(text)}, !.pid = p]
<1>1. WinkillSig(text) \in Bits
  BY WinAssumption DEF WinkillStart, Bits
<1>2. r \in Sender /\ r.reg = {} /\ ~Mapped(r) /\ r.at # "loaded"
  BY <1>1, IdleIsSender DEF Sender, Register, Mapped
<1>3. MemOK' /\ Others(w)
  BY SameMemory, SafeOthers DEF WinIInv, WinkillStart
<1>4. winkill' = [winkill EXCEPT ![w] = r] /\ UNCHANGED <<indivisible, proc, initialised, monitor, wish>>
  BY DEF WinkillStart, Goes
<1> HIDE DEF r
<1> QED BY ONLY WinIInv, w \in Winkill, <1>2, <1>3, <1>4, WinkillMoves

LEMMA WinkillOpenKept ==
  ASSUME WinIInv, NEW w \in Winkill, WinkillOpen(w)
  PROVE  WinIInv'
<1>0. winkill[w] \in Sender /\ winkill[w].reg = {} /\ MemOK /\ w \in Actor
  BY Users DEF WinIInv, Shape, WinkillOK, HasOpen, WinkillOpen
<1> PICK k \in Kind : k = IF winkill[w].at = "tryGcl" THEN "gcl" ELSE "maxima"
  BY DEF Kind
<1> PICK p \in Pid : p = winkill[w].pid
  BY <1>0 DEF Sender
<1>1. winkill[w] \in Sender /\ winkill[w].reg = {} /\ MemOK /\ w \in Actor /\ winkill[w].pid = p
  BY <1>0
<1>2. UNCHANGED <<indivisible, proc, initialised, monitor, wish>>
  BY DEF WinkillOpen
<1>3. ASSUME NEW r \in Sender, ~Mapped(r), r.reg = {}, winkill' = [winkill EXCEPT ![w] = r],
             UNCHANGED memory
      PROVE  WinIInv'
  <2>1. MemOK' /\ Others(w)
    BY <1>1, <1>3, SameMemory, SafeOthers
  <2>2. r.at # "loaded"
    BY <1>3 DEF Mapped
  <2> QED BY ONLY WinIInv, w \in Winkill, <1>2, <1>3, <2>1, <2>2, WinkillMoves
<1>4. CASE Exists(k, p) /\ Opened(k, p, w) /\ Goes(w, [winkill[w] EXCEPT !.at = "mapped", !.kind = k])
  <2> DEFINE r == [winkill[w] EXCEPT !.at = "mapped", !.kind = k]
  <2>1. r \in Sender /\ r.reg = {} /\ Mapped(r) /\ r.at # "loaded" /\ r.kind = k /\ r.pid = p
    BY <1>1 DEF Sender, Mapped
  <2>2. MemOK' /\ (\A a \in Actor : Safe(a)) /\ Held(w, k, p, {})'
    BY <1>1, <1>4, OpenedKeeps
  <2>3. Others(w) /\ w \in open'[k][p]
    BY <2>2, SafeOthers DEF Held
  <2>4. winkill' = [winkill EXCEPT ![w] = r]
    BY <1>4 DEF Goes
  <2> HIDE DEF r
  <2> QED BY ONLY WinIInv, w \in Winkill, <1>2, <2>1, <2>2, <2>3, <2>4, WinkillMoves
<1>5. CASE Goes(w, IdleWinkill) /\ UNCHANGED memory
  BY <1>3, <1>5, IdleIsSender DEF Goes, Mapped
<1>6. CASE Goes(w, [winkill[w] EXCEPT !.at = "tryMaxima"]) /\ UNCHANGED memory
  <2> DEFINE r == [winkill[w] EXCEPT !.at = "tryMaxima"]
  <2>1. r \in Sender /\ r.reg = {} /\ ~Mapped(r)
    BY <1>1 DEF Sender, Mapped
  <2> QED BY <1>3, <1>6, <2>1 DEF Goes
<1> QED BY <1>4, <1>5, <1>6 DEF WinkillOpen

(* Sending S to memory that is open. *)
LEMMA SendsKeeps ==
  ASSUME MemOK, NEW k \in Kind, NEW p \in Pid, NEW S \in Register, Sends(k, p, S)
  PROVE  /\ sent' \in [Kind -> [Pid -> Register]] /\ sent'[k][p] = sent[k][p] \cup S
         /\ \A j \in Kind, q \in Pid : sent[j][q] \subseteq sent'[j][q]
<1>1. \A j \in Kind, q \in Pid : sent'[j][q] = IF j = k /\ q = p THEN sent[j][q] \cup S ELSE sent[j][q]
  BY DEF MemOK, Sends
<1>2. sent[k][p] \cup S \in Register
  BY DEF MemOK, Register
<1>3. sent' \in [Kind -> [Pid -> Register]]
  BY <1>2 DEF MemOK, Sends
<1> QED BY <1>1, <1>3

LEMMA SentKeeps ==
  ASSUME MemOK, NEW k \in Kind, NEW p \in Pid, NEW S \in Register, Sends(k, p, S), UNCHANGED <<open, word>>
  PROVE  MemOK' /\ (\A a \in Actor : Safe(a))
<1>1. /\ sent' \in [Kind -> [Pid -> Register]]
      /\ \A j \in Kind, q \in Pid : sent[j][q] \subseteq sent'[j][q]
  BY SendsKeeps
<1>2. \A j \in Kind, q \in Pid : /\ Exists(j, q)' <=> word'[j][q] # Gone
                                 /\ Exists(j, q)' => word'[j][q] \subseteq sent'[j][q]
  <2> TAKE j \in Kind, q \in Pid
  <2>1. /\ Exists(j, q) <=> word[j][q] # Gone
        /\ Exists(j, q) => word[j][q] \subseteq sent[j][q]
    BY DEF MemOK
  <2> QED BY <1>1, <2>1 DEF Exists
<1> QED BY <1>1, <1>2 DEF MemOK, Safe

(* Memory somebody has open holds signals that were sent to it. *)
LEMMA OpenHolds ==
  ASSUME MemOK, NEW k \in Kind, NEW p \in Pid, NEW a, a \in open[k][p]
  PROVE  Exists(k, p) /\ word[k][p] \in Register /\ word[k][p] \subseteq sent[k][p]
<1>1. Exists(k, p)
  BY DEF Exists
<1>2. word[k][p] # Gone /\ word[k][p] \subseteq sent[k][p]
  BY <1>1 DEF MemOK
<1>3. word[k][p] \in Register \cup {Gone}
  BY DEF MemOK
<1> QED BY <1>1, <1>2, <1>3

(* a load and a store, or both at once, by somebody who has memory open. *)
LEMMA SentAndStoredKeeps ==
  ASSUME MemOK, NEW k \in Kind, NEW p \in Pid, NEW a, a \in open[k][p], NEW S \in Register,
         Sends(k, p, S), word' = [word EXCEPT ![k][p] = @ \cup S], open' = open
  PROVE  MemOK' /\ (\A b \in Actor : Safe(b))
<1> DEFINE v == word[k][p] \cup S
<1>1. Exists(k, p) /\ word[k][p] \in Register /\ word[k][p] \subseteq sent[k][p]
  BY OpenHolds
<1>2. /\ sent' \in [Kind -> [Pid -> Register]] /\ sent'[k][p] = sent[k][p] \cup S
      /\ \A j \in Kind, q \in Pid : sent[j][q] \subseteq sent'[j][q]
  BY SendsKeeps
<1>3. v \in Register /\ v \subseteq sent'[k][p]
  BY <1>1, <1>2 DEF Register
<1>4. word' = [word EXCEPT ![k][p] = v]
  BY DEF MemOK
<1> HIDE DEF v
<1> QED BY ONLY MemOK, k \in Kind, p \in Pid, <1>1, <1>2, <1>3, <1>4, open' = open, StoredKeeps

LEMMA WinkillLoadKept ==
  ASSUME WinIInv, NEW w \in Winkill, WinkillLoad(w)
  PROVE  WinIInv'
<1>0. winkill[w] \in Sender /\ winkill[w].at = "mapped" /\ HasOpen(w) /\ MemOK
  BY DEF WinIInv, Shape, WinkillLoad, HasOpen
<1> PICK k \in Kind, p \in Pid, S \in Register :
       k = winkill[w].kind /\ p = winkill[w].pid /\ S = winkill[w].value
  BY <1>0 DEF Sender
<1>1. w \in open[k][p] /\ winkill[w].reg \subseteq sent[k][p] /\ winkill[w].reg \in Register
  BY <1>0 DEF WinIInv, WinkillOK, Held, Sender
<1>2. Sends(k, p, S) /\ open' = open /\ UNCHANGED <<indivisible, proc, initialised, monitor, wish>>
  BY DEF WinkillLoad
<1>3. sent'[k][p] = sent[k][p] \cup S
  BY <1>0, <1>2, SendsKeeps
<1>4. CASE indivisible
  <2> DEFINE r == [winkill[w] EXCEPT !.at = "stored", !.value = {}]
  <2>1. r \in Sender /\ r.at = "stored" /\ r.reg = winkill[w].reg /\ r.kind = k /\ r.pid = p
    BY <1>0 DEF Sender, Register
  <2>2. winkill' = [winkill EXCEPT ![w] = r] /\ word' = [word EXCEPT ![k][p] = @ \cup S]
    BY <1>4 DEF WinkillLoad, Goes
  <2>3. MemOK' /\ Others(w)
    BY <1>0, <1>1, <1>2, <2>2, SentAndStoredKeeps, SafeOthers
  <2>4. w \in open'[k][p] /\ r.reg \subseteq sent'[k][p] /\ Mapped(r)
    BY <1>1, <1>2, <1>3, <2>1 DEF Mapped
  <2> HIDE DEF r
  <2> QED BY ONLY WinIInv, w \in Winkill, <1>2, <2>1, <2>2, <2>3, <2>4, WinkillMoves
<1>5. CASE ~indivisible
  <2> DEFINE r == [winkill[w] EXCEPT !.at = "loaded", !.value = {}, !.reg = word[k][p] \cup S]
  <2>1. word[k][p] \in Register /\ word[k][p] \subseteq sent[k][p]
    BY <1>0, <1>1, OpenHolds
  <2>2. r \in Sender /\ r.at = "loaded" /\ r.reg = word[k][p] \cup S /\ r.kind = k /\ r.pid = p
    BY <1>0, <2>1 DEF Sender, Register
  <2>3. winkill' = [winkill EXCEPT ![w] = r] /\ word' = word
    BY <1>5 DEF WinkillLoad, Goes
  <2>4. MemOK' /\ Others(w)
    BY <1>0, <1>2, <2>3, SentKeeps, SafeOthers
  <2>5. w \in open'[k][p] /\ r.reg \subseteq sent'[k][p] /\ Mapped(r)
    BY <1>1, <1>2, <1>3, <2>1, <2>2 DEF Mapped
  <2> HIDE DEF r
  <2> QED BY ONLY WinIInv, w \in Winkill, <1>2, <1>5, <2>2, <2>3, <2>4, <2>5, WinkillMoves
<1> QED BY <1>4, <1>5

LEMMA WinkillStoreKept ==
  ASSUME WinIInv, NEW w \in Winkill, WinkillStore(w)
  PROVE  WinIInv'
<1>0. winkill[w] \in Sender /\ HasOpen(w) /\ MemOK
  BY DEF WinIInv, Shape, WinkillStore, HasOpen
<1> PICK k \in Kind, p \in Pid, S \in Register :
       k = winkill[w].kind /\ p = winkill[w].pid /\ S = winkill[w].reg
  BY <1>0 DEF Sender
<1>1. w \in open[k][p] /\ S \subseteq sent[k][p]
  BY <1>0 DEF WinIInv, WinkillOK, Held
<1>2. /\ word' = [word EXCEPT ![k][p] = S] /\ open' = open /\ sent' = sent
      /\ UNCHANGED <<indivisible, proc, initialised, monitor, wish>>
  BY DEF WinkillStore
<1> DEFINE r == [winkill[w] EXCEPT !.at = "stored", !.reg = {}]
<1>3. r \in Sender /\ r.at = "stored" /\ r.reg = {} /\ r.kind = k /\ r.pid = p
  BY <1>0 DEF Sender, Register
<1>4. winkill' = [winkill EXCEPT ![w] = r]
  BY DEF WinkillStore, Goes
<1>5. Exists(k, p) /\ sent' \in [Kind -> [Pid -> Register]]
  BY <1>0, <1>1, <1>2 DEF Exists, MemOK
<1>6. MemOK' /\ Others(w)
  BY <1>0, <1>1, <1>2, <1>5, StoredKeeps, SafeOthers
<1>7. w \in open'[k][p]
  BY <1>1, <1>2
<1> HIDE DEF r
<1> QED BY ONLY WinIInv, w \in Winkill, <1>2, <1>3, <1>4, <1>6, <1>7, WinkillMoves DEF Mapped

LEMMA WinkillExitKept ==
  ASSUME WinIInv, NEW w \in Winkill, WinkillExit(w)
  PROVE  WinIInv'
<1>0. winkill[w] \in Sender /\ MemOK /\ w \in Actor
  BY Users DEF WinIInv, Shape
<1> PICK k \in Kind, p \in Pid : k = winkill[w].kind /\ p = winkill[w].pid
  BY <1>0 DEF Sender
<1>1. Closed(k, {p}, w) /\ winkill' = [winkill EXCEPT ![w] = IdleWinkill]
      /\ UNCHANGED <<indivisible, proc, initialised, monitor, wish>>
  BY DEF WinkillExit, Goes
<1>2. MemOK' /\ Others(w)
  BY <1>0, <1>1, ClosedKeeps
<1> QED BY ONLY WinIInv, w \in Winkill, <1>1, <1>2, WinkillMoves, IdleIsSender DEF Mapped

LEMMA WinkillStepKept ==
  ASSUME WinIInv, NEW w \in Winkill, WinkillStep(w)
  PROVE  WinIInv'
BY WinkillOpenKept, WinkillLoadKept, WinkillStoreKept, WinkillExitKept DEF WinkillStep

(***************************************************************************)
(* The Tcl command.                                                        *)
(***************************************************************************)

Wishes == [refcount : 0 .. MaxInterps, list : Seq(Pid), leaked : SUBSET Pid,
           at : {"idle", "mapped", "loaded"}, value : Register, pid : Pid, reg : Register]

(* The list of the GUI in a record r of its state. *)
ListIn(r) == Range(r.list)
GoodList(r) ==
  /\ IsFiniteSet(ListIn(r)) /\ Cardinality(ListIn(r)) = Len(r.list)
  /\ r.list # <<>> => r.refcount > 0

(* What the GUI may become in a step of its own. *)
LEMMA WishMoves ==
  ASSUME WinIInv, NEW r \in Wishes, MemOK', Others("wish"), wish' = r, GoodList(r),
         \A p \in ListIn(r) : "wish" \in open'["gcl"][p],
         r.at # "idle" => r.pid \in ListIn(r) /\ r.reg \subseteq sent'["gcl"][r.pid],
         r.at # "loaded" => r.reg = {},
         indivisible => r.at # "loaded",
         UNCHANGED <<indivisible, proc, initialised, monitor, winkill>>
  PROVE  WinIInv'
<1>1. Shape'
  BY DEF WinIInv, Shape, Wishes
<1>2. WishOK'
  BY DEF WishOK, ListOK, GoodList, ListIn, Listed
<1>3. (\A p \in Pid : MonOK(p)') /\ (\A w \in Winkill : WinkillOK(w)')
  BY ONLY WinIInv, Others("wish"), UNCHANGED <<indivisible, proc, initialised, monitor, winkill>>,
          Users, OtherUsers
<1> QED BY <1>1, <1>2, <1>3 DEF WinIInv

LEMMA WishFacts ==
  ASSUME WinIInv
  PROVE  /\ wish \in Wishes /\ GoodList(wish) /\ ListIn(wish) = Listed /\ Listed \subseteq Pid
         /\ \A p \in Listed : "wish" \in open["gcl"][p]
         /\ wish.at # "loaded" => wish.reg = {}
         /\ wish.at # "idle" => wish.pid \in Listed /\ wish.reg \subseteq sent["gcl"][wish.pid]
BY DEF WinIInv, WishOK, ListOK, Shape, Wishes, GoodList, ListIn, Listed, Range

LEMMA EmptyList == Range(<<>>) = {} /\ IsFiniteSet(Range(<<>>)) /\ Cardinality(Range(<<>>)) = Len(<<>>)
<1>1. Range(<<>>) = {}
  BY DEF Range
<1> QED BY <1>1, FS_EmptySet

LEMMA NewWishIsGood ==
  /\ NewWish \in Wishes /\ GoodList(NewWish) /\ ListIn(NewWish) = {}
  /\ NewWish.at = "idle" /\ NewWish.reg = {}
<1>1. (CHOOSE p \in Pid : TRUE) \in Pid /\ 0 \in 0 .. MaxInterps
  BY WinAssumption
<1> QED BY <1>1, EmptyList DEF NewWish, Wishes, Register, GoodList, ListIn

(* The new entry goes to the front. *)
LEMMA NewEntry ==
  ASSUME NEW s \in Seq(Pid), NEW p \in Pid, p \notin Range(s), IsFiniteSet(Range(s)),
         Cardinality(Range(s)) = Len(s)
  PROVE  /\ <<p>> \o s \in Seq(Pid) /\ <<p>> \o s # <<>> /\ Range(<<p>> \o s) = {p} \cup Range(s)
         /\ IsFiniteSet(Range(<<p>> \o s)) /\ Cardinality(Range(<<p>> \o s)) = Len(<<p>> \o s)
<1> DEFINE t == <<p>> \o s
<1>1. t \in Seq(Pid) /\ Len(t) = Len(s) + 1 /\ t[1] = p /\ Len(s) \in Nat
      /\ \A i \in 1 .. Len(s) : t[i + 1] = s[i]
  OBVIOUS
<1>2. DOMAIN t = 1 .. Len(s) + 1 /\ DOMAIN s = 1 .. Len(s)
  BY <1>1
<1>3. Range(t) \subseteq {p} \cup Range(s)
  <2> SUFFICES ASSUME NEW i \in 1 .. Len(s) + 1, i # 1
               PROVE  t[i] \in Range(s)
    BY <1>1, <1>2 DEF Range
  <2>1. i - 1 \in 1 .. Len(s) /\ (i - 1) + 1 = i
    BY <1>1
  <2>2. t[i] = s[i - 1]
    BY <1>1, <2>1
  <2> QED BY <1>2, <2>1, <2>2 DEF Range
<1>4. {p} \cup Range(s) \subseteq Range(t)
  <2>0. 1 \in DOMAIN t /\ t[1] = p
    BY <1>1, <1>2
  <2>1. p \in Range(t)
    <3> HIDE DEF t
    <3> QED BY <2>0 DEF Range
  <2>2. \A i \in 1 .. Len(s) : s[i] = t[i + 1] /\ i + 1 \in 1 .. Len(s) + 1
    BY <1>1
  <2> HIDE DEF t
  <2> QED BY <1>2, <2>1, <2>2 DEF Range
<1>5. IsFiniteSet({p} \cup Range(s)) /\ Cardinality({p} \cup Range(s)) = Cardinality(Range(s)) + 1
  <2>1. {p} \cup Range(s) = Range(s) \cup {p}
    OBVIOUS
  <2> QED BY <2>1, FS_AddElement
<1>6. t # <<>>
  BY <1>1
<1> QED BY <1>1, <1>3, <1>4, <1>5, <1>6

LEMMA TclwinkillInitKept == ASSUME WinIInv, TclwinkillInit PROVE WinIInv'
<1> DEFINE r == [wish EXCEPT !.refcount = @ + 1]
<1>1. wish.at = "idle" /\ wish.refcount < MaxInterps /\ wish \in Wishes
  BY WishFacts DEF TclwinkillInit
<1>2. wish.refcount + 1 \in 0 .. MaxInterps /\ wish.refcount + 1 > 0
  BY <1>1, WinAssumption DEF Wishes
<1>3. /\ r \in Wishes /\ r.list = wish.list /\ r.at = "idle" /\ r.reg = wish.reg
      /\ r.refcount > 0
  BY <1>1, <1>2 DEF Wishes
<1>4. GoodList(r) /\ ListIn(r) = Listed
  BY ONLY <1>3, WinIInv, WishFacts DEF GoodList, ListIn
<1>5. MemOK' /\ Others("wish") /\ open' = open
  BY SameMemory, SafeOthers DEF WinIInv, TclwinkillInit, memory
<1>6. wish' = r /\ UNCHANGED <<indivisible, proc, initialised, monitor, winkill>>
  BY DEF TclwinkillInit
<1>7. r.reg = {} /\ \A p \in ListIn(r) : "wish" \in open'["gcl"][p]
  BY <1>1, <1>3, <1>4, <1>5, WishFacts
<1> HIDE DEF r
<1> QED BY ONLY WinIInv, <1>3, <1>4, <1>5, <1>6, <1>7, WishMoves

(* The list is given up, whether or not it is closed. *)
LEMMA ListGone ==
  ASSUME WinIInv, NEW r \in Wishes, MemOK', Others("wish"), wish' = r, r.list = <<>>,
         r.at = "idle", r.reg = {}, UNCHANGED <<indivisible, proc, initialised, monitor, winkill>>
  PROVE  WinIInv'
<1>1. ListIn(r) = {} /\ GoodList(r)
  BY EmptyList DEF ListIn, GoodList
<1> QED BY ONLY WinIInv, r \in Wishes, MemOK', Others("wish"), wish' = r, r.at = "idle", r.reg = {}, <1>1,
                UNCHANGED <<indivisible, proc, initialised, monitor, winkill>>, WishMoves

LEMMA TclCloseKept == ASSUME WinIInv, TclClose PROVE WinIInv'
<1>1. /\ wish \in Wishes /\ wish.at = "idle" /\ wish.reg = {} /\ wish.refcount > 0 /\ MemOK
      /\ "gcl" \in Kind /\ Listed \subseteq Pid /\ <<>> \in Seq(Pid)
  BY WishFacts DEF TclClose, WinIInv, Kind
<1>2. UNCHANGED <<indivisible, proc, initialised, monitor, winkill>>
  BY DEF TclClose
<1>3. CASE wish.refcount = 1
  <2> DEFINE r == [wish EXCEPT !.refcount = 0, !.list = <<>>]
  <2>1. r \in Wishes /\ r.list = <<>> /\ r.at = "idle" /\ r.reg = {}
    <3>1. 0 \in 0 .. MaxInterps
      BY WinAssumption
    <3> QED BY <1>1, <3>1 DEF Wishes
  <2>2. wish' = r /\ Closed("gcl", Listed \ wish.leaked, "wish")
    BY <1>3 DEF TclClose
  <2>3. MemOK' /\ Others("wish")
    BY <1>1, <2>2, ClosedKeeps, Users
  <2> HIDE DEF r
  <2> QED BY ONLY WinIInv, <1>2, <2>1, <2>2, <2>3, ListGone
<1>4. CASE wish.refcount # 1
  <2> DEFINE r == [wish EXCEPT !.refcount = @ - 1, !.list = <<>>, !.leaked = @ \cup Listed]
  <2>1. r \in Wishes /\ r.list = <<>> /\ r.at = "idle" /\ r.reg = {}
    <3>1. wish.refcount - 1 \in 0 .. MaxInterps /\ wish.leaked \cup Listed \in SUBSET Pid
      BY <1>1, WinAssumption DEF Wishes
    <3> QED BY <1>1, <3>1 DEF Wishes
  <2>2. wish' = r /\ UNCHANGED memory
    BY <1>4 DEF TclClose
  <2>3. MemOK' /\ Others("wish")
    BY <1>1, <2>2, SameMemory, SafeOthers
  <2> HIDE DEF r
  <2> QED BY ONLY WinIInv, <1>2, <2>1, <2>2, <2>3, ListGone
<1> QED BY <1>3, <1>4

(* The GUI ends: by TclExit, or on a wild pointer. *)
LEMMA WishEnds ==
  ASSUME WinIInv, Closed("gcl", Listed \cup wish.leaked, "wish"), wish' = NewWish,
         UNCHANGED <<indivisible, proc, initialised, monitor, winkill>>
  PROVE  WinIInv'
<1>1. MemOK /\ "gcl" \in Kind /\ Listed \cup wish.leaked \in SUBSET Pid
  BY WishFacts DEF WinIInv, Kind, Wishes
<1>2. MemOK' /\ Others("wish")
  BY <1>1, ClosedKeeps, Users
<1>3. NewWish.list = <<>>
  BY DEF NewWish
<1> QED BY ONLY WinIInv, wish' = NewWish, <1>2, <1>3, NewWishIsGood, ListGone,
                UNCHANGED <<indivisible, proc, initialised, monitor, winkill>>

LEMMA TclExitKept == ASSUME WinIInv, TclExit PROVE WinIInv'
BY WishEnds DEF TclExit

LEMMA TclFoundKept == ASSUME WinIInv, NEW opts \in TclCommand, TclFound(opts) PROVE WinIInv'
<1> PICK p, V : p = TclOptions(opts).pid[1] /\ V = TclOptions(opts).value
  OBVIOUS
<1> DEFINE r == [wish EXCEPT !.at = "mapped", !.pid = p, !.value = V]
<1>1. wish.at = "idle" /\ p \in Listed /\ wish' = r
      /\ UNCHANGED <<indivisible, proc, initialised, monitor, memory, winkill>>
  BY DEF TclFound
<1>2. p \in Pid /\ V \in Register
  BY WishFacts, <1>1, WinAssumption DEF Register, Bits
<1>3. r \in Wishes /\ r.at = "mapped" /\ r.pid = p /\ r.list = wish.list /\ r.reg = {}
      /\ r.refcount = wish.refcount
  BY <1>1, <1>2, WishFacts DEF Wishes
<1>4. GoodList(r) /\ ListIn(r) = Listed
  BY ONLY <1>3, WinIInv, WishFacts DEF GoodList, ListIn
<1>5. MemOK' /\ Others("wish") /\ open' = open
  BY <1>1, SameMemory, SafeOthers DEF WinIInv, memory
<1>6. \A q \in ListIn(r) : "wish" \in open'["gcl"][q]
  BY <1>4, <1>5, WishFacts
<1> HIDE DEF r
<1> QED BY ONLY WinIInv, <1>1, <1>3, <1>4, <1>5, <1>6, WishMoves

LEMMA TclOpenKept == ASSUME WinIInv, NEW opts \in TclCommand, TclOpen(opts) PROVE WinIInv'
<1>0. UNCHANGED <<indivisible, proc, initialised, monitor, winkill>>
  BY DEF TclOpen
<1> PICK p, V : p = TclOptions(opts).pid[1] /\ V = TclOptions(opts).value
  OBVIOUS
<1> DEFINE r1 == [wish EXCEPT !.leaked = @ \cup {p}]
           r2 == [wish EXCEPT !.list = <<p>> \o @]
           r3 == [wish EXCEPT !.list = <<p>> \o @, !.at = "mapped", !.pid = p, !.value = V]
<1>1. /\ wish.at = "idle" /\ wish.refcount > 0 /\ p \in Pid /\ V \in Register
      /\ p \notin Listed /\ Exists("gcl", p)
  BY WinAssumption DEF TclOpen, Register, Bits
<1>2. wish \in Wishes /\ wish.reg = {} /\ wish.list \in Seq(Pid) /\ GoodList(wish) /\ ListIn(wish) = Listed
  BY <1>1, WishFacts DEF Wishes
<1>3. CASE Opened("gcl", p, "wish") /\ (wish' = r1 \/ wish' = r2 \/ wish' = r3)
  <2>1. MemOK' /\ (\A a \in Actor : Safe(a)) /\ "wish" \in open'["gcl"][p]
    BY <1>1, <1>3, OpenedKeeps, Users DEF WinIInv, Kind, Held
  <2>2. Others("wish")
    BY <2>1, SafeOthers
  <2>3. \A q \in Listed : "wish" \in open'["gcl"][q]
    BY <2>1, WishFacts, Users DEF Safe, Kind
  <2>4. CASE wish' = r1
    <3>1. r1 \in Wishes /\ r1.at = "idle" /\ r1.list = wish.list /\ r1.reg = {} /\ r1.refcount = wish.refcount
      BY <1>1, <1>2 DEF Wishes
    <3>2. GoodList(r1) /\ ListIn(r1) = Listed
      BY ONLY <3>1, <1>2 DEF GoodList, ListIn
    <3> HIDE DEF r1
    <3> QED BY ONLY WinIInv, <1>0, <2>1, <2>2, <2>3, <2>4, <3>1, <3>2, WishMoves
  <2> PICK s \in Seq(Pid) : s = wish.list
    BY <1>2
  <2>5. /\ <<p>> \o s \in Seq(Pid) /\ <<p>> \o s # <<>> /\ Range(<<p>> \o s) = {p} \cup Listed
        /\ IsFiniteSet(Range(<<p>> \o s)) /\ Cardinality(Range(<<p>> \o s)) = Len(<<p>> \o s)
    <3>1. Range(s) = Listed /\ IsFiniteSet(Range(s)) /\ Cardinality(Range(s)) = Len(s)
      BY <1>2 DEF GoodList, ListIn
    <3> QED BY ONLY <3>1, <1>1, s \in Seq(Pid), NewEntry
  <2>6. ASSUME NEW r \in Wishes, r.list = <<p>> \o s, r.refcount > 0, r.reg = {}, wish' = r,
               r.at # "idle" => r.pid = p, r.at # "loaded"
        PROVE  WinIInv'
    <3>1. ListIn(r) = {p} \cup Listed /\ GoodList(r)
      BY ONLY <2>5, <2>6 DEF ListIn, GoodList
    <3>2. \A q \in ListIn(r) : "wish" \in open'["gcl"][q]
      BY ONLY <2>1, <2>3, <3>1
    <3>3. r.at # "idle" => r.pid \in ListIn(r) /\ r.reg \subseteq sent'["gcl"][r.pid]
      BY ONLY <2>6, <3>1
    <3>4. r \in Wishes /\ wish' = r /\ r.reg = {} /\ r.at # "loaded"
      BY <2>6
    <3>5. MemOK'
      BY <2>1
    <3> QED BY ONLY WinIInv, <1>0, <2>2, <3>1, <3>2, <3>3, <3>4, <3>5, WishMoves
  <2>7. CASE wish' = r2
    <3>1. r2 \in Wishes /\ r2.at = "idle" /\ r2.list = <<p>> \o s /\ r2.reg = {} /\ r2.refcount > 0
      BY <1>1, <1>2, <2>5 DEF Wishes
    <3> HIDE DEF r2
    <3> QED BY ONLY <2>6, <2>7, <3>1
  <2>8. CASE wish' = r3
    <3>1. /\ r3 \in Wishes /\ r3.at = "mapped" /\ r3.list = <<p>> \o s /\ r3.reg = {}
          /\ r3.refcount > 0 /\ r3.pid = p
      BY <1>1, <1>2, <2>5 DEF Wishes
    <3> HIDE DEF r3
    <3> QED BY ONLY <2>6, <2>8, <3>1
  <2> QED BY <1>3, <2>4, <2>7, <2>8
<1>4. CASE Closed("gcl", Listed \cup wish.leaked, "wish") /\ wish' = NewWish
  BY <1>0, <1>4, WishEnds
<1> QED BY <1>3, <1>4 DEF TclOpen

LEMMA TclLoadKept == ASSUME WinIInv, TclLoad PROVE WinIInv'
<1>0. wish.at = "mapped" /\ wish \in Wishes /\ MemOK /\ "gcl" \in Kind
      /\ UNCHANGED <<indivisible, proc, initialised, monitor, winkill>>
  BY WishFacts DEF TclLoad, WinIInv, Kind
<1> PICK p \in Pid, S \in Register : p = wish.pid /\ S = wish.value
  BY <1>0 DEF Wishes
<1>1. p \in Listed /\ "wish" \in open["gcl"][p] /\ wish.reg \subseteq sent["gcl"][p]
  BY <1>0, WishFacts
<1>2. Sends("gcl", p, S) /\ open' = open
  BY DEF TclLoad
<1>3. sent'["gcl"][p] = sent["gcl"][p] \cup S
  BY <1>0, <1>2, SendsKeeps
<1>4. \A q \in Listed : "wish" \in open'["gcl"][q]
  BY <1>2, WishFacts
<1>5. GoodList(wish) /\ ListIn(wish) = Listed
  BY WishFacts
<1>6. CASE indivisible
  <2> DEFINE r == [wish EXCEPT !.at = "idle", !.value = {}]
  <2>0. wish.reg = {}
    BY <1>6 DEF WinIInv, WishOK, ListOK
  <2>1. r \in Wishes /\ r.at = "idle" /\ r.list = wish.list /\ r.refcount = wish.refcount /\ r.reg = {}
    BY <1>0, <2>0 DEF Wishes, Register
  <2>2. wish' = r /\ word' = [word EXCEPT !["gcl"][p] = @ \cup S]
    BY <1>6 DEF TclLoad
  <2>3. MemOK' /\ Others("wish")
    BY <1>0, <1>1, <1>2, <2>2, SentAndStoredKeeps, SafeOthers
  <2>4. GoodList(r) /\ ListIn(r) = Listed
    BY ONLY <2>1, <1>5 DEF GoodList, ListIn
  <2> HIDE DEF r
  <2> QED BY ONLY WinIInv, <1>0, <1>4, <2>1, <2>2, <2>3, <2>4, WishMoves
<1>7. CASE ~indivisible
  <2> DEFINE r == [wish EXCEPT !.at = "loaded", !.value = {}, !.reg = word["gcl"][p] \cup S]
  <2>1. word["gcl"][p] \in Register /\ word["gcl"][p] \subseteq sent["gcl"][p]
    BY <1>0, <1>1, OpenHolds
  <2>2. /\ r \in Wishes /\ r.at = "loaded" /\ r.list = wish.list /\ r.refcount = wish.refcount
        /\ r.reg = word["gcl"][p] \cup S /\ r.pid = p
    BY <1>0, <2>1 DEF Wishes, Register
  <2>3. wish' = r /\ word' = word
    BY <1>7 DEF TclLoad
  <2>4. MemOK' /\ Others("wish")
    BY <1>0, <1>2, <2>3, SentKeeps, SafeOthers
  <2>5. GoodList(r) /\ ListIn(r) = Listed
    BY ONLY <2>2, <1>5 DEF GoodList, ListIn
  <2>6. r.pid \in ListIn(r) /\ r.reg \subseteq sent'["gcl"][r.pid]
    BY <1>1, <1>3, <2>1, <2>2, <2>5
  <2> HIDE DEF r
  <2> QED BY ONLY WinIInv, <1>0, <1>4, <1>7, <2>2, <2>3, <2>4, <2>5, <2>6, WishMoves
<1> QED BY <1>6, <1>7

LEMMA TclStoreKept == ASSUME WinIInv, TclStore PROVE WinIInv'
<1>0. wish.at = "loaded" /\ wish \in Wishes /\ MemOK /\ "gcl" \in Kind
      /\ UNCHANGED <<indivisible, proc, initialised, monitor, winkill>>
  BY WishFacts DEF TclStore, WinIInv, Kind
<1> PICK p \in Pid, S \in Register : p = wish.pid /\ S = wish.reg
  BY <1>0 DEF Wishes
<1>1. "wish" \in open["gcl"][p] /\ S \subseteq sent["gcl"][p]
  BY <1>0, WishFacts
<1>2. word' = [word EXCEPT !["gcl"][p] = S] /\ open' = open /\ sent' = sent
  BY DEF TclStore
<1>3. Exists("gcl", p) /\ sent' \in [Kind -> [Pid -> Register]]
  BY <1>0, <1>1, <1>2 DEF Exists, MemOK
<1>4. MemOK' /\ Others("wish")
  BY <1>0, <1>1, <1>2, <1>3, StoredKeeps, SafeOthers
<1> DEFINE r == [wish EXCEPT !.at = "idle", !.reg = {}]
<1>5. r \in Wishes /\ r.at = "idle" /\ r.list = wish.list /\ r.refcount = wish.refcount /\ r.reg = {}
  BY <1>0 DEF Wishes, Register
<1>6. wish' = r
  BY DEF TclStore
<1>7. GoodList(r) /\ ListIn(r) = Listed
  BY ONLY <1>5, WinIInv, WishFacts DEF GoodList, ListIn
<1>8. \A q \in ListIn(r) : "wish" \in open'["gcl"][q]
  BY <1>2, <1>7, WishFacts
<1> HIDE DEF r
<1> QED BY ONLY WinIInv, <1>0, <1>4, <1>5, <1>6, <1>7, <1>8, WishMoves

(***************************************************************************)
(* The specification.                                                      *)
(***************************************************************************)

LEMMA WinInitGood == ASSUME WinInit PROVE WinIInv
<1>1. Shape
  BY NewWishIsGood, IdleIsSender DEF WinInit, Shape, Wishes, MonitorAt, Register
<1>2. MemOK
  <2>1. \A k \in Kind, p \in Pid : word[k][p] = Gone /\ sent[k][p] = {} /\ open[k][p] = {}
    BY DEF WinInit
  <2>2. word \in [Kind -> [Pid -> Register \cup {Gone}]] /\ sent \in [Kind -> [Pid -> Register]]
        /\ open \in [Kind -> [Pid -> SUBSET Actor]]
    BY DEF WinInit, Register
  <2> QED BY ONLY <2>1, <2>2 DEF MemOK, Exists
<1>3. \A p \in Pid : MonOK(p)
  BY DEF WinInit, MonOK, Stores
<1>4. \A w \in Winkill : WinkillOK(w)
  BY IdleIsSender DEF WinInit, WinkillOK, HasOpen
<1>5. WishOK
  <2>1. wish = NewWish
    BY DEF WinInit
  <2>2. Listed = {} /\ wish.list = <<>> /\ wish.at = "idle" /\ wish.reg = {}
    BY <2>1, NewWishIsGood DEF NewWish, Listed, ListIn
  <2> QED BY ONLY <2>2, EmptyList DEF WishOK, ListOK, Listed
<1> QED BY <1>1, <1>2, <1>3, <1>4, <1>5 DEF WinIInv

LEMMA WinStutter == ASSUME WinIInv, UNCHANGED winvars PROVE WinIInv'
<1>1. UNCHANGED <<indivisible, proc, initialised, monitor, memory, winkill, wish>>
  BY DEF winvars, memory
<1>2. MemOK' /\ Others("none")
  BY <1>1, SameMemory, SafeOthers DEF WinIInv
<1>3. \A a \in Actor : Safe(a)
  BY <1>1, SameMemory DEF WinIInv
<1>4. Shape'
  BY <1>1 DEF WinIInv, Shape
<1>5. \A p \in Pid : MonOK(p)'
  BY <1>1, <1>3, MonSafe, Users DEF WinIInv
<1>6. \A w \in Winkill : WinkillOK(w)'
  BY <1>1, <1>3, WinkillSafe, Users DEF WinIInv
<1>7. WishOK'
  BY <1>1, <1>3, WishSafe, Users DEF WinIInv
<1> QED BY <1>2, <1>4, <1>5, <1>6, <1>7 DEF WinIInv

LEMMA WinNextKept == ASSUME WinIInv, [WinNext]_winvars PROVE WinIInv'
<1>1. ASSUME NEW p \in Pid, NEW k \in Kind, InitSharedMemory(p, k) PROVE WinIInv'
  BY <1>1, InitSharedMemoryKept
<1>2. ASSUME NEW p \in Pid, MaximaExit(p) PROVE WinIInv'
  BY <1>2, MaximaExitKept
<1>3. ASSUME NEW p \in Pid, MonitorStep(p) PROVE WinIInv'
  BY <1>3, MonitorStepKept
<1>4. ASSUME NEW w \in Winkill, NEW text \in Command, NEW p \in Pid, WinkillStart(w, text, p)
      PROVE  WinIInv'
  BY <1>4, WinkillStartKept
<1>5. ASSUME NEW w \in Winkill, WinkillStep(w) PROVE WinIInv'
  BY <1>5, WinkillStepKept
<1>6. CASE TclwinkillInit \/ TclClose \/ TclExit
  BY <1>6, TclwinkillInitKept, TclCloseKept, TclExitKept
<1>7. ASSUME NEW opts \in TclCommand, TclFound(opts) \/ TclOpen(opts) PROVE WinIInv'
  BY <1>7, TclFoundKept, TclOpenKept
<1>8. CASE TclStep
  BY <1>8, TclLoadKept, TclStoreKept DEF TclStep
<1>9. CASE UNCHANGED winvars
  BY <1>9, WinStutter
<1> QED BY <1>1, <1>2, <1>3, <1>4, <1>5, <1>6, <1>7, <1>8, <1>9 DEF WinNext

(* The inductive invariant holds in every reachable state. *)
THEOREM WinInvariant == WinSpec => []WinIInv
BY WinInitGood, WinNextKept, PTL DEF WinSpec

(* The variables have their types, and memory exists exactly while somebody   *)
(* has it open (CreateFileMapping, CloseHandle).                             *)
THEOREM WinTypesOK == WinSpec => []WinTypeOK
<1>1. WinIInv => WinTypeOK
  BY DEF WinIInv, Shape, MemOK, WinTypeOK, Actor
<1> QED BY <1>1, WinInvariant, PTL

(* However the updates of the word are interleaved and whoever dies, no       *)
(* monitor finds a signal nobody sent (winkill_lib.c, winkill.c).            *)
THEOREM NoneMadeUp == WinSpec => []NoSignalFromNowhere
<1>1. WinIInv => NoSignalFromNowhere
  <2> SUFFICES ASSUME WinIInv PROVE NoSignalFromNowhere
    OBVIOUS
  <2>1. \A k \in Kind, p \in Pid : Exists(k, p) => word[k][p] \subseteq sent[k][p]
    BY DEF WinIInv, MemOK
  <2>2. \A p \in Pid : initialised[p] => monitor[p].reg \subseteq sent[proc[p]][p]
    BY DEF WinIInv, MonOK, Held
  <2>3. \A w \in Winkill : winkill[w].reg \subseteq sent[winkill[w].kind][winkill[w].pid]
    BY DEF WinIInv, WinkillOK, Held
  <2>4. wish.reg \subseteq sent["gcl"][wish.pid]
    BY WishFacts
  <2> QED BY <2>1, <2>2, <2>3, <2>4 DEF NoSignalFromNowhere
<1> QED BY <1>1, WinInvariant, PTL

(* The views that the monitor, winkill.exe and the list of the GUI use are    *)
(* open for as long as they are used (sharedMemoryPtr of tclwinkill.c).      *)
THEOREM ViewsOpen == WinSpec => []ViewsAreOpen
<1>1. WinIInv => ViewsAreOpen
  BY DEF WinIInv, MonOK, WinkillOK, WishOK, ListOK, Held, ViewsAreOpen
<1> QED BY <1>1, WinInvariant, PTL

(***************************************************************************)
(* Indivisible updates.                                                    *)
(***************************************************************************)

Once == \A k \in Kind, p \in Pid : OnlyTaken(k, p) /\ OnlySent(k, p)

(* Steps in which memory appears or goes, or nothing happens to it. *)
LEMMA QuietWord ==
  ASSUME \A k \in Kind, p \in Pid : \/ word'[k][p] = word[k][p] \/ word'[k][p] = Gone
                                    \/ word[k][p] = Gone /\ word'[k][p] = {}
  PROVE  Once
<1> SUFFICES ASSUME NEW k \in Kind, NEW p \in Pid, word'[k][p] # Gone
             PROVE  word[k][p] \ (word'[k][p] \cup Gone) = {} /\ word'[k][p] \ word[k][p] = {}
  BY DEF Once, OnlyTaken, OnlySent
<1> QED OBVIOUS

LEMMA SameWordQuiet == ASSUME word' = word PROVE Once
BY QuietWord

LEMMA CreatedQuiet ==
  ASSUME MemOK, NEW k \in Kind, NEW p \in Pid, Created(k, p, p)
  PROVE  Once
<1>1. \A j \in Kind, q \in Pid :
        word'[j][q] = IF j = k /\ q = p /\ ~Exists(k, p) THEN {} ELSE word[j][q]
  BY DEF MemOK, Created
<1>2. ~Exists(k, p) => word[k][p] = Gone
  BY DEF MemOK
<1> QED BY ONLY <1>1, <1>2, QuietWord

LEMMA ClosedQuiet ==
  ASSUME MemOK, NEW k \in Kind, NEW P \in SUBSET Pid, NEW h, Closed(k, P, h)
  PROVE  Once
<1>1. \A j \in Kind, q \in Pid : word'[j][q] = word[j][q] \/ word'[j][q] = Gone
  BY DEF MemOK, Closed
<1> QED BY ONLY <1>1, QuietWord

(* The word of one memory gains S: S must be what is being sent. *)
LEMMA SentOnce ==
  ASSUME MemOK, NEW k \in Kind, NEW p \in Pid, NEW S, word' = [word EXCEPT ![k][p] = @ \cup S],
         \/ \E w \in Winkill : winkill[w].at = "mapped" /\ winkill'[w].at = "stored" /\ S = winkill[w].value
         \/ wish.at = "mapped" /\ wish'.at = "idle" /\ S = wish.value
  PROVE  Once
<1>1. \A j \in Kind, q \in Pid :
        word'[j][q] = IF j = k /\ q = p THEN word[j][q] \cup S ELSE word[j][q]
  BY DEF MemOK
<1>2. \A j \in Kind, q \in Pid : OnlyTaken(j, q)
  BY <1>1 DEF OnlyTaken
<1>3. \A j \in Kind, q \in Pid : \A s \in word'[j][q] \ word[j][q] : s \in S
  BY <1>1
<1>4. \A j \in Kind, q \in Pid : OnlySent(j, q)
  BY <1>3 DEF OnlySent
<1> QED BY <1>2, <1>4 DEF Once

LEMMA MonitorOnce ==
  ASSUME WinIInv, indivisible, NEW p \in Pid, MonitorStep(p)
  PROVE  Once
<1>1. ASSUME NEW from, NEW sig, NEW hit, NEW miss, ReadSm(p, from, sig, hit, miss)
      PROVE  Once
  BY <1>1, SameWordQuiet DEF ReadSm, memory
<1>2. ASSUME NEW from \in Stores, NEW to, StoreSm(p, from, to)
      PROVE  Once
  BY <1>2 DEF WinIInv, MonOK, StoreSm, MonitorGoes
<1>3. ASSUME NEW from \in {"resetInt", "resetTerm"}, NEW sig, NEW store, NEW to \in {"sigint", "sigterm"},
             sig = IF from = "resetInt" THEN SIGINT ELSE SIGTERM,
             ResetSm(p, from, sig, store, to)
      PROVE  Once
  <2>1. monitor[p].at = from /\ monitor' = [monitor EXCEPT ![p] = [at |-> to, reg |-> {}]]
        /\ SetOwn(p, Own(p) \ {sig}) /\ proc' = proc
    BY <1>3 DEF ResetSm, MonitorGoes
  <2>2. proc[p] \in Kind
    BY <2>1, MonitorHolds
  <2>3. monitor'[p].at = to
    BY <2>1 DEF WinIInv, Shape
  <2>4. Takes(p, sig)
    BY <1>3, <2>1, <2>3 DEF Takes, Clearing
  <2>5. \A k \in Kind, q \in Pid :
          word'[k][q] = IF k = proc[p] /\ q = p THEN word[k][q] \ {sig} ELSE word[k][q]
    BY <2>1, <2>2 DEF SetOwn, Own, WinIInv, MemOK
  <2>6. \A k \in Kind, q \in Pid : OnlyTaken(k, q)
    BY <2>4, <2>5 DEF OnlyTaken
  <2>7. \A k \in Kind, q \in Pid : OnlySent(k, q)
    BY <2>5 DEF OnlySent
  <2> QED BY <2>6, <2>7 DEF Once
<1>4. CASE ResetSm(p, "resetInt", SIGINT, "storeInt", "sigterm")
  BY <1>3, <1>4
<1>5. CASE ResetSm(p, "resetTerm", SIGTERM, "storeTerm", "sigint")
  BY <1>3, <1>5
<1> QED BY <1>1, <1>2, <1>4, <1>5 DEF MonitorStep, Stores

LEMMA WinkillOnce ==
  ASSUME WinIInv, indivisible, NEW w \in Winkill, WinkillStep(w)
  PROVE  Once
<1>0. MemOK /\ winkill[w] \in Sender
  BY DEF WinIInv, Shape
<1> PICK k \in Kind, p \in Pid, S \in Register :
       k = winkill[w].kind /\ p = winkill[w].pid /\ S = winkill[w].value
  BY <1>0 DEF Sender
<1>1. CASE WinkillOpen(w)
  BY <1>1, SameWordQuiet DEF WinkillOpen, Opened, memory
<1>2. CASE WinkillLoad(w)
  <2> DEFINE r == [winkill[w] EXCEPT !.at = "stored", !.value = {}]
  <2>1. winkill[w].at = "mapped" /\ word' = [word EXCEPT ![k][p] = @ \cup S]
        /\ winkill' = [winkill EXCEPT ![w] = r]
    BY <1>2 DEF WinkillLoad, Goes
  <2>2. r.at = "stored"
    BY <1>0 DEF Sender
  <2> HIDE DEF r
  <2>3. winkill'[w].at = "stored"
    BY <2>1, <2>2 DEF WinIInv, Shape
  <2> QED BY <1>0, <2>1, <2>3, SentOnce
<1>3. CASE WinkillStore(w)
  BY <1>3 DEF WinIInv, WinkillOK, WinkillStore
<1>4. CASE WinkillExit(w)
  BY <1>0, <1>4, ClosedQuiet DEF WinkillExit
<1> QED BY <1>1, <1>2, <1>3, <1>4 DEF WinkillStep

LEMMA TclOnce ==
  ASSUME WinIInv, indivisible, TclStep
  PROVE  Once
<1>1. CASE TclLoad
  <2> PICK p \in Pid, S \in Register : p = wish.pid /\ S = wish.value
    BY WishFacts DEF Wishes
  <2>1. wish.at = "mapped" /\ word' = [word EXCEPT !["gcl"][p] = @ \cup S]
    BY <1>1 DEF TclLoad
  <2>2. wish'.at = "idle"
    BY <1>1, WishFacts DEF TclLoad, Wishes
  <2> QED BY <2>1, <2>2, SentOnce DEF WinIInv, Kind
<1>2. CASE TclStore
  BY <1>2 DEF WinIInv, WishOK, ListOK, TclStore
<1> QED BY <1>1, <1>2 DEF TclStep

LEMMA OtherTclOnce ==
  ASSUME WinIInv, TclClose \/ TclExit \/ \E opts \in TclCommand : TclOpen(opts)
  PROVE  Once
<1>1. MemOK /\ "gcl" \in Kind /\ Listed \in SUBSET Pid /\ wish.leaked \in SUBSET Pid
  BY WishFacts DEF WinIInv, Kind, Wishes
<1>2. CASE Closed("gcl", Listed \ wish.leaked, "wish")
  BY <1>1, <1>2, ClosedQuiet
<1>3. CASE Closed("gcl", Listed \cup wish.leaked, "wish")
  BY <1>1, <1>3, ClosedQuiet
<1>4. CASE word' = word
  BY <1>4, SameWordQuiet
<1> QED BY <1>2, <1>3, <1>4 DEF TclClose, TclExit, TclOpen, Opened, memory

(* If a load and the store after it are one instruction, each signal sent is   *)
(* taken by the monitor once: it leaves the word only in the step before the  *)
(* interrupt (win_signals.lisp), and enters it only when it is sent.          *)
THEOREM DeliveredOnce == WinSpec => EachSignalOnce
<1>1. ASSUME WinIInv, WinNext, indivisible PROVE Once
  <2>0. MemOK
    BY <1>1 DEF WinIInv
  <2>1. ASSUME NEW p \in Pid, NEW k \in Kind, InitSharedMemory(p, k) PROVE Once
    BY <2>0, <2>1, CreatedQuiet, SameWordQuiet DEF InitSharedMemory, memory
  <2>2. ASSUME NEW p \in Pid, MaximaExit(p) PROVE Once
    BY <1>1, <2>0, <2>2, ClosedQuiet DEF MaximaExit, WinIInv, Shape
  <2>3. ASSUME NEW w \in Winkill, NEW text \in Command, NEW p \in Pid, WinkillStart(w, text, p)
        PROVE  Once
    BY <2>3, SameWordQuiet DEF WinkillStart, memory
  <2>4. CASE TclwinkillInit \/ \E opts \in TclCommand : TclFound(opts)
    BY <2>4, SameWordQuiet DEF TclwinkillInit, TclFound, memory
  <2> QED BY <1>1, <2>1, <2>2, <2>3, <2>4, MonitorOnce, WinkillOnce, TclOnce, OtherTclOnce DEF WinNext
<1>2. ASSUME WinIInv, [WinNext]_winvars
      PROVE  [indivisible => Once]_winvars
  BY <1>1, <1>2
<1>3. (indivisible => Once) <=>
        (indivisible => \A k \in Kind, p \in Pid : OnlyTaken(k, p) /\ OnlySent(k, p))
  BY DEF Once
<1> QED BY <1>2, <1>3, WinInvariant, PTL DEF WinSpec, EachSignalOnce
===============================================================================
