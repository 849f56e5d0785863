-------------------------- MODULE SequentialProofs --------------------------
(***************************************************************************)
(* What is proved of the programs that run alone: the phone books, the     *)
(* command lines and the spiral.  At the end, the types of all the small   *)
(* programs, with what ProcessProofs proves of the others.                 *)
(***************************************************************************)
EXTENDS ProcessProofs

-----------------------------------------------------------------------------
(* The programs that run alone.                                             *)

LEMMA SequentialAssumed ==
  /\ Alone!Line!LineAssumption /\ Alone!Array!ArrayAssumption
  /\ Alone!Heap!HeapAssumption /\ Alone!Snail!SpiralAssumption
BY ExercisesAssumption DEF Alone!SequentialAssumption

LEMMA AloneBegins ==
  Init => Alone!Line!Init /\ Alone!Array!Init /\ Alone!Heap!Init /\ Alone!Snail!Init
BY DEF Init, Alone!Init, Alone!Rests

LEMMA AloneSteps ==
  [Next]_vars =>
    /\ [Alone!Line!Next]_(Alone!Line!vars) /\ [Alone!Array!Next]_(Alone!Array!vars)
    /\ [Alone!Heap!Next]_(Alone!Heap!vars) /\ [Alone!Snail!Next]_(Alone!Snail!vars)
<1> SUFFICES ASSUME [Next]_vars
             PROVE  /\ [Alone!Line!Next]_(Alone!Line!vars) /\ [Alone!Array!Next]_(Alone!Array!vars)
                    /\ [Alone!Heap!Next]_(Alone!Heap!vars) /\ [Alone!Snail!Next]_(Alone!Snail!vars)
  OBVIOUS
<1> USE DEF aloneVars, Alone!Line!vars, Alone!Array!vars, Alone!Heap!vars, Alone!Snail!vars
<1>1. (AloneRuns /\ Alone!Next) \/ UNCHANGED aloneVars
  BY DEF Next, vars, PipeRuns, PosixRuns, MagazRuns, TcpRuns, UdpRuns, CountRuns
<1>2. CASE UNCHANGED aloneVars
  BY <1>2
<1>3. CASE Alone!Next
  BY <1>3 DEF Alone!Next, Alone!lineVars, Alone!arrayVars, Alone!heapVars, Alone!snailVars
<1> QED BY <1>1, <1>2, <1>3

-----------------------------------------------------------------------------
(* Both phone books: a sequence without one of its elements.                *)

LEMMA FunctionSeq ==
  ASSUME NEW n \in Nat, NEW S, NEW f \in [1 .. n -> S]
  PROVE  f \in Seq(S) /\ Len(f) = n
OBVIOUS

LEMMA Removed ==
  ASSUME NEW S, NEW s \in Seq(S), NEW j \in 1 .. Len(s)
  PROVE  SubSeq(s, 1, j - 1) \o SubSeq(s, j + 1, Len(s)) =
           [i \in 1 .. Len(s) - 1 |-> IF i < j THEN s[i] ELSE s[i + 1]]
<1> DEFINE head == SubSeq(s, 1, j - 1)
           tail == SubSeq(s, j + 1, Len(s))
<1>1. Len(s) \in Nat /\ j \in Nat /\ 1 <= j /\ j <= Len(s) /\ \A i \in 1 .. Len(s) : s[i] \in S
  OBVIOUS
<1>2. /\ head \in Seq(S) /\ Len(head) = j - 1 /\ \A i \in 1 .. j - 1 : head[i] = s[i]
  <2>1. 1 \in Int /\ j - 1 \in Int /\ (j - 1) - 1 + 1 = j - 1 /\ \A i \in 1 .. j - 1 : s[i] \in S
    BY <1>1
  <2>2. /\ head \in Seq(S) /\ Len(head) = IF 1 <= j - 1 THEN (j - 1) - 1 + 1 ELSE 0
        /\ \A i \in 1 .. (j - 1) - 1 + 1 : head[i] = s[1 + i - 1]
    BY <2>1, SubSeqProperties
  <2>3. \A i \in 1 .. j - 1 : 1 + i - 1 = i
    BY <1>1
  <2>4. ~(1 <= j - 1) => j - 1 = 0
    BY <1>1
  <2> QED BY <2>1, <2>2, <2>3, <2>4
<1>3. /\ tail \in Seq(S) /\ Len(tail) = Len(s) - j
      /\ \A i \in 1 .. Len(s) - j : tail[i] = s[j + i]
  <2>1. /\ j + 1 \in Int /\ Len(s) \in Int /\ Len(s) - (j + 1) + 1 = Len(s) - j
        /\ \A i \in j + 1 .. Len(s) : s[i] \in S
    BY <1>1
  <2>2. /\ tail \in Seq(S) /\ Len(tail) = IF j + 1 <= Len(s) THEN Len(s) - (j + 1) + 1 ELSE 0
        /\ \A i \in 1 .. Len(s) - (j + 1) + 1 : tail[i] = s[(j + 1) + i - 1]
    BY <2>1, SubSeqProperties
  <2>3. \A i \in 1 .. Len(s) - j : (j + 1) + i - 1 = j + i
    BY <1>1
  <2>4. ~(j + 1 <= Len(s)) => Len(s) - j = 0
    BY <1>1
  <2> QED BY <2>1, <2>2, <2>3, <2>4
<1> HIDE DEF head, tail
<1>4. /\ head \o tail \in Seq(S) /\ Len(head \o tail) = Len(s) - 1
      /\ \A i \in 1 .. Len(s) - 1 : (head \o tail)[i] = IF i < j THEN s[i] ELSE s[i + 1]
  <2>1. /\ head \o tail \in Seq(S) /\ Len(head \o tail) = Len(head) + Len(tail)
        /\ \A i \in 1 .. Len(head) + Len(tail) :
             (head \o tail)[i] = IF i <= Len(head) THEN head[i] ELSE tail[i - Len(head)]
    BY <1>2, <1>3, ConcatProperties
  <2>2. Len(head) + Len(tail) = Len(s) - 1
    BY <1>1, <1>2, <1>3
  <2>3. ASSUME NEW i \in 1 .. Len(s) - 1
        PROVE  (head \o tail)[i] = IF i < j THEN s[i] ELSE s[i + 1]
    <3>1. (head \o tail)[i] = IF i <= j - 1 THEN head[i] ELSE tail[i - (j - 1)]
      BY <1>2, <2>1, <2>2
    <3>2. CASE i < j
      BY <1>1, <1>2, <3>1, <3>2
    <3>3. CASE ~(i < j)
      <4>1. i - (j - 1) \in 1 .. Len(s) - j /\ j + (i - (j - 1)) = i + 1 /\ ~(i <= j - 1)
        BY <1>1, <3>3
      <4> QED BY <1>3, <3>1, <3>3, <4>1
    <3> QED BY <3>2, <3>3
  <2> QED BY <2>1, <2>2, <2>3
<1> DEFINE joint == head \o tail
<1>5. joint \in [1 .. Len(s) - 1 -> S]
  BY <1>4, LenProperties
<1>6. \A i \in 1 .. Len(s) - 1 : joint[i] = IF i < j THEN s[i] ELSE s[i + 1]
  BY <1>4
<1>7. joint = SubSeq(s, 1, j - 1) \o SubSeq(s, j + 1, Len(s))
  BY DEF head, tail
<1> HIDE DEF joint
<1>8. joint = [i \in 1 .. Len(s) - 1 |-> IF i < j THEN s[i] ELSE s[i + 1]]
  BY <1>5, <1>6
<1> QED BY <1>7, <1>8

-----------------------------------------------------------------------------
(* ex4.3.c.  Behind the subscribers the array is blank, and what stands     *)
(* there of a number is the whole of it: so a search, wherever it looks,    *)
(* finds subscribers only.                                                  *)

Kept == [name : Name, num : {[text |-> n, rest |-> Zeros] : n \in Alone!Array!Number}]

ArrayInv ==
  /\ chel \in 0 .. Places /\ poisk \in Alone!Array!Text
       /\ found \in [name : Name, num : Alone!Array!Number] \cup {NoEntry}
  /\ my_sprav \in [Alone!Array!Slot -> Kept \cup {Alone!Array!Nobody}]
  /\ \A i \in Alone!Array!Slot : IF i < chel THEN my_sprav[i] \in Kept
       ELSE my_sprav[i] = Alone!Array!Nobody

(* The list.                                                                *)
Subscribers == [i \in 1 .. chel |-> Alone!Array!Shown(my_sprav[i - 1])]

LEMMA ArrayInitial == Alone!Array!Init => ArrayInv /\ Alone!Array!List!Init
<1> SUFFICES ASSUME Alone!Array!Init PROVE ArrayInv /\ Alone!Array!List!Init
  OBVIOUS
<1>1. ArrayInv
  BY SequentialAssumed DEF Alone!Array!Init, ArrayInv, Alone!Array!ArrayAssumption,
                           Alone!Array!Slot, Alone!Array!Text, Alone!Array!Blank
<1>2. Subscribers = <<>>
  BY DEF Alone!Array!Init, Subscribers
<1> QED BY <1>1, <1>2 DEF Alone!Array!Init, Alone!Array!List!Init, Subscribers

LEMMA SubscribersAre ==
  ASSUME ArrayInv
  PROVE  /\ Subscribers \in Seq([name : Name, num : Alone!Array!Number]) /\ Len(Subscribers) = chel
         /\ \A i \in 0 .. chel - 1 : i \in Alone!Array!Slot /\ my_sprav[i] \in Kept
              /\ Subscribers[i + 1] = Alone!Array!Shown(my_sprav[i])
<1>1. chel \in Nat /\ Places \in Nat /\ chel <= Places
  BY SequentialAssumed DEF ArrayInv, Alone!Array!ArrayAssumption
<1>2. ASSUME NEW i \in 0 .. chel - 1
      PROVE  /\ i \in Alone!Array!Slot /\ my_sprav[i] \in Kept /\ i + 1 \in 1 .. chel
                  /\ (i + 1) - 1 = i
             /\ Alone!Array!Shown(my_sprav[i]) \in [name : Name, num : Alone!Array!Number]
  <2>1. i \in Alone!Array!Slot /\ i < chel /\ i + 1 \in 1 .. chel /\ (i + 1) - 1 = i
    BY <1>1 DEF Alone!Array!Slot
  <2>2. my_sprav[i] \in Kept
    BY <2>1 DEF ArrayInv
  <2> QED BY <2>1, <2>2 DEF Kept, Alone!Array!Shown
<1>3. \A i \in 1 .. chel : i - 1 \in 0 .. chel - 1
  BY <1>1
<1>4. Subscribers \in [1 .. chel -> [name : Name, num : Alone!Array!Number]]
  BY <1>2, <1>3 DEF Subscribers
<1>5. Subscribers \in Seq([name : Name, num : Alone!Array!Number]) /\ Len(Subscribers) = chel
  BY <1>1, <1>4, FunctionSeq
<1> QED BY <1>2, <1>5 DEF Subscribers

LEMMA AddsLast ==
  ASSUME ArrayInv, NEW n \in Alone!Array!Number, NEW who \in Name, Alone!Array!Add(who, n)
  PROVE  ArrayInv' /\ Alone!Array!List!Next
<1> DEFINE e == [name |-> who, num |-> n]
           kept == [name |-> who, num |-> [text |-> n, rest |-> Zeros]]
<1>1. chel \in Nat /\ Places \in Nat /\ chel < Places /\ chel \in Alone!Array!Slot
      /\ chel' = chel + 1 /\ UNCHANGED <<poisk, found>>
  BY SequentialAssumed DEF ArrayInv, Alone!Array!ArrayAssumption, Alone!Array!Add, Alone!Array!Slot
<1>2. my_sprav' = [my_sprav EXCEPT ![chel] = kept]
  <2>1. my_sprav[chel] = Alone!Array!Nobody
    BY <1>1 DEF ArrayInv
  <2>2. Alone!Array!Typed(Alone!Array!Blank, n) = [text |-> n, rest |-> Zeros]
    <3>1. Zeros \notin Full
      BY SequentialAssumed DEF Alone!Array!ArrayAssumption
    <3>2. CASE n \in Full
      BY <3>2 DEF Alone!Array!Typed
    <3>3. CASE n \notin Full
      BY <3>1, <3>3 DEF Alone!Array!Typed, Alone!Array!Blank
    <3> QED BY <3>2, <3>3
  <2>3. my_sprav[chel].num = Alone!Array!Blank
    BY <2>1 DEF Alone!Array!Nobody
  <2> QED BY <2>2, <2>3 DEF Alone!Array!Add
<1>3. ArrayInv'
  <2>1. kept \in Kept
    BY DEF Kept
  <2> HIDE DEF kept
  <2>2. \A i \in Alone!Array!Slot : i < chel' => i < chel \/ i = chel
    BY <1>1 DEF Alone!Array!Slot
  <2>3. \A i \in Alone!Array!Slot : ~(i < chel') => ~(i < chel) /\ i # chel
    BY <1>1 DEF Alone!Array!Slot
  <2>4. chel' \in 0 .. Places
    BY <1>1
  <2> QED BY <1>1, <1>2, <2>1, <2>2, <2>3, <2>4 DEF ArrayInv
<1>4. Subscribers' = Append(Subscribers, e)
  <2>1. /\ Subscribers \in Seq([name : Name, num : Alone!Array!Number]) /\ Len(Subscribers) = chel
        /\ Subscribers' \in Seq([name : Name, num : Alone!Array!Number])
             /\ Len(Subscribers') = chel + 1
    <3>1. \A i \in 1 .. chel + 1 : i - 1 \in Alone!Array!Slot /\ i - 1 < chel'
      BY <1>1 DEF Alone!Array!Slot
    <3>2. \A i \in 1 .. chel + 1 : my_sprav'[i - 1] \in Kept
      BY <1>3, <3>1 DEF ArrayInv
    <3>3. \A i \in 1 .. chel + 1 : Alone!Array!Shown(my_sprav'[i - 1]) \in
          [name : Name, num : Alone!Array!Number]
      <4>1. \A d \in Kept : Alone!Array!Shown(d) \in [name : Name, num : Alone!Array!Number]
        BY DEF Kept, Alone!Array!Shown
      <4> QED BY <3>2, <4>1
    <3>4. Subscribers' \in [1 .. chel + 1 -> [name : Name, num : Alone!Array!Number]]
      BY <1>1, <3>3 DEF Subscribers
    <3>5. Subscribers' \in Seq([name : Name, num : Alone!Array!Number])
          /\ Len(Subscribers') = chel + 1
      <4>1. chel + 1 \in Nat
        BY <1>1
      <4> QED BY <3>4, <4>1, FunctionSeq
    <3> QED BY <3>5, SubscribersAre
  <2>2. ASSUME NEW i \in 1 .. chel + 1 PROVE Subscribers'[i] = Append(Subscribers, e)[i]
    <3>1. CASE i = chel + 1
      <4>1. Subscribers'[i] = Alone!Array!Shown(my_sprav'[chel])
        BY <1>1, <3>1 DEF Subscribers
      <4>2. my_sprav'[chel] = kept
        BY <1>1, <1>2 DEF ArrayInv
      <4>3. Append(Subscribers, e)[i] = e
        BY <2>1, <3>1
      <4>4. Alone!Array!Shown(kept) = e
        BY DEF Alone!Array!Shown
      <4> QED BY <4>1, <4>2, <4>3, <4>4, Zenon
    <3>2. CASE i # chel + 1
      <4>1. i \in 1 .. chel /\ i - 1 \in Alone!Array!Slot /\ i - 1 # chel
        BY <1>1, <3>2 DEF Alone!Array!Slot
      <4>2. my_sprav'[i - 1] = my_sprav[i - 1]
        BY <1>2, <4>1 DEF ArrayInv
      <4>3. Subscribers'[i] = Subscribers[i]
        BY <1>1, <4>1, <4>2 DEF Subscribers
      <4>4. Append(Subscribers, e)[i] = Subscribers[i]
        BY <2>1, <4>1
      <4> QED BY <4>3, <4>4
    <3> QED BY <3>1, <3>2
  <2>3. e \in [name : Name, num : Alone!Array!Number]
    OBVIOUS
  <2> HIDE DEF e
  <2>4. Append(Subscribers, e) \in Seq([name : Name, num : Alone!Array!Number])
        /\ Len(Append(Subscribers, e)) = chel + 1
    BY <2>1, <2>3
  <2> QED BY <2>1, <2>2, <2>4
<1>5. Alone!Array!List!Add(e)
  <2>1. Len(Subscribers) = chel
    BY SubscribersAre
  <2> QED BY <1>1, <1>4, <2>1 DEF Alone!Array!List!Add, Subscribers
<1>6. e \in Alone!Array!List!Entry
  BY DEF Alone!Array!List!Entry
<1> QED BY <1>3, <1>5, <1>6 DEF Alone!Array!List!Next

(* What is searched for is a number with zeros behind it, or, if it is a    *)
(* short one, perhaps with other remains, which nobody has.                 *)
LEMMA SearchFinds ==
  ASSUME ArrayInv, NEW n \in Alone!Array!Number, NEW p, p = Alone!Array!Typed(poisk, n)
  PROVE  /\ p \in Alone!Array!Text
         /\ Alone!Array!fpoisk(p) = {} => n \in Short \/ Alone!Array!List!Found(n) = {}
         /\ Alone!Array!fpoisk(p) # {} =>
              /\ Alone!Array!Min(Alone!Array!fpoisk(p)) \in 0 .. chel - 1
              /\ Alone!Array!Min(Alone!Array!fpoisk(p)) + 1 \in Alone!Array!List!Found(n)
<1>1. p \in Alone!Array!Text /\ p.text = n /\ (n \notin Short => p.rest = Zeros)
  <2>1. CASE n \in Full
    BY <2>1 DEF Alone!Array!Typed, Alone!Array!Text
  <2>2. CASE n \notin Full
    BY <2>2 DEF Alone!Array!Typed, Alone!Array!Text, Alone!Array!Number, ArrayInv
  <2> QED BY <2>1, <2>2 DEF Alone!Array!Number
<1>2. chel \in Nat /\ Places \in Nat /\ chel <= Places /\ Zeros \notin Alone!Array!Number
  BY SequentialAssumed DEF ArrayInv, Alone!Array!ArrayAssumption, Alone!Array!Number
<1>3. \A i : i \in Alone!Array!List!Hits(n) <=> i \in 1 .. chel /\ my_sprav[i - 1].num.text = n
  <2>1. /\ DOMAIN Subscribers = 1 .. chel
        /\ \A i \in 1 .. chel : Subscribers[i].num = my_sprav[i - 1].num.text
    BY DEF Subscribers, Alone!Array!Shown
  <2>2. \A j \in Alone!Array!Number : <<n, j>> \in {<<d, d>> : d \in Alone!Array!Number} <=> n = j
    OBVIOUS
  <2>3. \A i \in 1 .. chel : Subscribers[i].num \in Alone!Array!Number
    <3>1. Subscribers \in Seq([name : Name, num : Alone!Array!Number]) /\ Len(Subscribers) = chel
      BY SubscribersAre
    <3>2. ASSUME NEW i \in 1 .. chel
          PROVE  Subscribers[i] \in [name : Name, num : Alone!Array!Number]
      BY <3>1, ElementOfSeq
    <3> QED BY <3>2
  <2> QED BY <2>1, <2>2, <2>3 DEF Alone!Array!List!Hits, Subscribers
<1>4. \A i \in Alone!Array!Slot : i \in Alone!Array!fpoisk(p) =>
      i \in 0 .. chel - 1 /\ i + 1 \in Alone!Array!List!Hits(n)
  <2> SUFFICES ASSUME NEW i \in Alone!Array!Slot, i \in Alone!Array!fpoisk(p)
               PROVE  i \in 0 .. chel - 1 /\ i + 1 \in Alone!Array!List!Hits(n)
    OBVIOUS
  <2>1. my_sprav[i].num.text = n
    BY <1>1 DEF Alone!Array!fpoisk
  <2>2. my_sprav[i] # Alone!Array!Nobody
    BY <1>2, <2>1 DEF Alone!Array!Nobody, Alone!Array!Blank
  <2>3. i < chel /\ i \in Nat
    BY <1>2, <2>2 DEF ArrayInv, Alone!Array!Slot
  <2>4. i \in 0 .. chel - 1 /\ i + 1 \in 1 .. chel /\ (i + 1) - 1 = i
    BY <1>2, <2>3
  <2> QED BY <1>3, <2>1, <2>4
<1>5. \A i \in Alone!Array!List!Hits(n) : p.rest = Zeros => i - 1 \in Alone!Array!fpoisk(p)
  <2> SUFFICES ASSUME NEW i \in Alone!Array!List!Hits(n), p.rest = Zeros
               PROVE  i - 1 \in Alone!Array!fpoisk(p)
    OBVIOUS
  <2>1. i - 1 \in 0 .. chel - 1 /\ my_sprav[i - 1].num.text = n
    BY <1>2, <1>3
  <2>2. i - 1 \in Alone!Array!Slot /\ my_sprav[i - 1] \in Kept
    BY <2>1, SubscribersAre
  <2>3. my_sprav[i - 1].num = [text |-> n, rest |-> Zeros]
    <3>1. PICK d \in Alone!Array!Number : my_sprav[i - 1].num = [text |-> d, rest |-> Zeros]
      BY <2>2 DEF Kept
    <3> QED BY <2>1, <3>1
  <2>4. p = [text |-> n, rest |-> Zeros]
    BY <1>1 DEF Alone!Array!Text
  <2> QED BY <2>2, <2>3, <2>4 DEF Alone!Array!fpoisk
<1>6. ASSUME Alone!Array!fpoisk(p) = {}, n \notin Short PROVE Alone!Array!List!Found(n) = {}
  <2>1. Alone!Array!List!Hits(n) = {}
    BY <1>1, <1>5, <1>6
  <2> QED BY <1>6, <2>1 DEF Alone!Array!List!Found
<1>7. ASSUME Alone!Array!fpoisk(p) # {}
      PROVE  Alone!Array!Min(Alone!Array!fpoisk(p)) \in 0 .. chel - 1
             /\ Alone!Array!Min(Alone!Array!fpoisk(p)) + 1 \in Alone!Array!List!Found(n)
  <2>1. Alone!Array!fpoisk(p) \in SUBSET Nat /\ Alone!Array!fpoisk(p) \in SUBSET Alone!Array!Slot
    BY <1>2 DEF Alone!Array!fpoisk, Alone!Array!Slot
  <2>2. \E x \in Alone!Array!fpoisk(p) : \A y \in Alone!Array!fpoisk(p) : x <= y
    BY <1>7, <2>1, Least
  <2> DEFINE w == Alone!Array!Min(Alone!Array!fpoisk(p))
  <2>3. w \in Alone!Array!fpoisk(p) /\ \A y \in Alone!Array!fpoisk(p) : w <= y
    BY <2>2 DEF Alone!Array!Min
  <2> HIDE DEF w
  <2>4. w \in Nat /\ w \in 0 .. chel - 1 /\ w + 1 \in Alone!Array!List!Hits(n)
    BY <1>4, <2>1, <2>3
  <2>5. p.rest = Zeros
    <3>1. my_sprav[w] \in Kept /\ my_sprav[w].num = p
      BY <2>3, <2>4, SubscribersAre DEF Alone!Array!fpoisk
    <3> QED BY <3>1 DEF Kept
  <2>6. \A j \in Alone!Array!List!Hits(n) : w + 1 <= j
    <3> SUFFICES ASSUME NEW j \in Alone!Array!List!Hits(n) PROVE w + 1 <= j
      OBVIOUS
    <3>1. j - 1 \in Alone!Array!fpoisk(p) /\ j \in Nat
      BY <1>2, <1>3, <1>5, <2>5
    <3>2. w <= j - 1
      BY <2>3, <3>1
    <3> QED BY <2>4, <3>1, <3>2
  <2>7. w + 1 \in Alone!Array!List!Found(n)
    BY <2>4, <2>6 DEF Alone!Array!List!Found
  <2> QED BY <2>4, <2>7 DEF w
<1> QED BY <1>1, <1>6, <1>7

LEMMA FindsFirst ==
  ASSUME ArrayInv, NEW n \in Alone!Array!Number, Alone!Array!Find(n)
  PROVE  ArrayInv' /\ Alone!Array!List!Next
<1> DEFINE p == Alone!Array!Typed(poisk, n)
           w == Alone!Array!Min(Alone!Array!fpoisk(p))
<1>1. /\ poisk' = p /\ UNCHANGED <<my_sprav, chel>>
      /\ found' = IF Alone!Array!fpoisk(p) = {} THEN NoEntry ELSE Alone!Array!Shown(my_sprav[w])
  BY DEF Alone!Array!Find, Alone!Array!fpoisk
<1>2. /\ p \in Alone!Array!Text
      /\ Alone!Array!fpoisk(p) = {} => n \in Short \/ Alone!Array!List!Found(n) = {}
      /\ Alone!Array!fpoisk(p) # {} => w \in 0 .. chel - 1 /\ w + 1 \in Alone!Array!List!Found(n)
  BY SearchFinds
<1> HIDE DEF p
<1>3. CASE Alone!Array!fpoisk(p) = {}
  <2>1. ArrayInv'
    BY <1>1, <1>2, <1>3 DEF ArrayInv
  <2>2. Alone!Array!List!Miss(n)
    BY <1>1, <1>2, <1>3 DEF Alone!Array!List!Miss
  <2> QED BY <2>1, <2>2 DEF Alone!Array!List!Next
<1>4. CASE Alone!Array!fpoisk(p) # {}
  <2> HIDE DEF w
  <2>1. /\ Subscribers[w + 1] = Alone!Array!Shown(my_sprav[w]) /\ my_sprav[w] \in Kept
    BY <1>2, <1>4, SubscribersAre
  <2>2. found' = Alone!Array!Shown(my_sprav[w])
        /\ found' \in [name : Name, num : Alone!Array!Number]
    BY <1>1, <1>4, <2>1 DEF Kept, Alone!Array!Shown, w
  <2>3. ArrayInv'
    BY <1>1, <1>2, <2>2 DEF ArrayInv
  <2>4. Alone!Array!List!Search(n)
    <3>1. found' = Subscribers[w + 1]
      BY <2>1, <2>2
    <3> QED BY <1>1, <1>2, <1>4, <3>1 DEF Alone!Array!List!Search, Subscribers
  <2> QED BY <2>3, <2>4 DEF Alone!Array!List!Next
<1> QED BY <1>3, <1>4

LEMMA DeletesFirst ==
  ASSUME ArrayInv, NEW n \in Alone!Array!Number, Alone!Array!Delete(n)
  PROVE  ArrayInv' /\ Alone!Array!List!Next
<1> DEFINE p == Alone!Array!Typed(poisk, n)
           w == Alone!Array!Min(Alone!Array!fpoisk(p))
<1>1. /\ poisk' = p
      /\ \/ Alone!Array!fpoisk(p) = {} /\ found' = NoEntry /\ UNCHANGED <<my_sprav, chel>>
         \/ /\ Alone!Array!fpoisk(p) # {} /\ found' = Alone!Array!Shown(my_sprav[w])
            /\ my_sprav' = Alone!Array!Without(w) /\ chel' = chel - 1
  BY DEF Alone!Array!Delete, Alone!Array!fpoisk
<1>2. /\ p \in Alone!Array!Text
      /\ Alone!Array!fpoisk(p) = {} => n \in Short \/ Alone!Array!List!Found(n) = {}
      /\ Alone!Array!fpoisk(p) # {} => w \in 0 .. chel - 1 /\ w + 1 \in Alone!Array!List!Found(n)
  BY SearchFinds
<1>3. chel \in Nat /\ Places \in Nat /\ chel <= Places
  BY SequentialAssumed DEF ArrayInv, Alone!Array!ArrayAssumption
<1> HIDE DEF p
<1>4. CASE Alone!Array!fpoisk(p) = {}
  <2>1. found' = NoEntry /\ UNCHANGED <<my_sprav, chel>>
    BY <1>1, <1>4
  <2>2. ArrayInv'
    BY <1>1, <1>2, <2>1 DEF ArrayInv
  <2>3. Alone!Array!List!Miss(n)
    BY <1>2, <1>4, <2>1 DEF Alone!Array!List!Miss
  <2> QED BY <2>2, <2>3 DEF Alone!Array!List!Next
<1>5. CASE Alone!Array!fpoisk(p) # {}
  <2> HIDE DEF w
  <2>1. /\ found' = Alone!Array!Shown(my_sprav[w]) /\ my_sprav' = Alone!Array!Without(w)
             /\ chel' = chel - 1
    BY <1>1, <1>5 DEF w
  <2>2. /\ w \in Nat /\ w < chel /\ w \in 0 .. chel - 1
        /\ my_sprav[w] \in Kept /\ Subscribers[w + 1] = Alone!Array!Shown(my_sprav[w])
    BY <1>2, <1>3, <1>5, SubscribersAre
  <2>3. \A i \in Alone!Array!Slot : my_sprav'[i] = IF i = Places - 1 THEN Alone!Array!Nobody
        ELSE IF i < w THEN my_sprav[i] ELSE my_sprav[i + 1]
    BY <2>1 DEF Alone!Array!Without
  <2>4. ArrayInv'
    <3>1. found' \in [name : Name, num : Alone!Array!Number] /\ chel' \in 0 .. Places
      BY <1>3, <2>1, <2>2 DEF Kept, Alone!Array!Shown
    <3>2. ASSUME NEW i \in Alone!Array!Slot
          PROVE  /\ my_sprav'[i] \in Kept \cup {Alone!Array!Nobody}
                 /\ IF i < chel' THEN my_sprav'[i] \in Kept ELSE my_sprav'[i] = Alone!Array!Nobody
      <4>1. i \in Nat /\ i <= Places - 1
        BY <1>3 DEF Alone!Array!Slot
      <4>2. CASE i < chel'
        <5>1. i + 1 \in Alone!Array!Slot /\ i + 1 < chel /\ i < chel /\ i # Places - 1
          BY <1>3, <2>1, <4>1, <4>2 DEF Alone!Array!Slot
        <5>2. my_sprav[i] \in Kept /\ my_sprav[i + 1] \in Kept
          BY <5>1 DEF ArrayInv
        <5> QED BY <2>3, <4>2, <5>1, <5>2
      <4>3. CASE ~(i < chel') /\ i # Places - 1
        <5>1. i + 1 \in Alone!Array!Slot /\ ~(i + 1 < chel) /\ ~(i < w)
          BY <1>3, <2>1, <2>2, <4>1, <4>3 DEF Alone!Array!Slot
        <5>2. my_sprav[i + 1] = Alone!Array!Nobody
          BY <5>1 DEF ArrayInv
        <5> QED BY <2>3, <4>3, <5>1, <5>2
      <4>4. CASE ~(i < chel') /\ i = Places - 1
        BY <2>3, <4>4
      <4> QED BY <4>2, <4>3, <4>4
    <3>3. my_sprav' = [i \in Alone!Array!Slot |-> my_sprav'[i]]
      BY <2>1 DEF Alone!Array!Without
    <3> QED BY <1>1, <1>2, <3>1, <3>2, <3>3 DEF ArrayInv
  <2>5. Subscribers' =
        [i \in 1 .. chel - 1 |-> IF i < w + 1 THEN Subscribers[i] ELSE Subscribers[i + 1]]
    <3>1. ASSUME NEW i \in 1 .. chel - 1
          PROVE  Alone!Array!Shown(my_sprav'[i - 1]) = IF i < w + 1 THEN Subscribers[i]
                 ELSE Subscribers[i + 1]
      <4>1. /\ i \in Nat /\ i - 1 \in Alone!Array!Slot /\ i - 1 # Places - 1 /\ (i - 1) + 1 = i
                 /\ (i + 1) - 1 = i
            /\ i \in 1 .. chel /\ i + 1 \in 1 .. chel /\ (i < w + 1 <=> i - 1 < w)
        BY <1>3, <2>2 DEF Alone!Array!Slot
      <4>2. my_sprav'[i - 1] = IF i - 1 < w THEN my_sprav[i - 1] ELSE my_sprav[i]
        BY <2>3, <4>1
      <4>3. Subscribers[i] = Alone!Array!Shown(my_sprav[i - 1])
            /\ Subscribers[i + 1] = Alone!Array!Shown(my_sprav[i])
        BY <4>1 DEF Subscribers
      <4> QED BY <4>1, <4>2, <4>3
    <3> QED BY <2>1, <3>1 DEF Subscribers
  <2>6. Subscribers' = Alone!Array!List!RemoveAt(Subscribers, w + 1)
    <3>1. Subscribers \in Seq([name : Name, num : Alone!Array!Number]) /\ Len(Subscribers) = chel
      BY SubscribersAre
    <3>2. w + 1 \in 1 .. Len(Subscribers)
      BY <1>3, <2>2, <3>1
    <3>3. SubSeq(Subscribers, 1, (w + 1) - 1) \o SubSeq(Subscribers, (w + 1) + 1,
          Len(Subscribers)) =
            [i \in 1 .. Len(Subscribers) - 1 |-> IF i < w + 1 THEN Subscribers[i]
                ELSE Subscribers[i + 1]]
      BY <3>1, <3>2, Removed
    <3> QED BY <2>5, <3>1, <3>3 DEF Alone!Array!List!RemoveAt
  <2>7. Alone!Array!List!Delete(n)
    <3>1. found' = Subscribers[w + 1]
      BY <2>1, <2>2
    <3> QED BY <1>2, <1>5, <2>6, <3>1 DEF Alone!Array!List!Delete, Subscribers
  <2> QED BY <2>4, <2>7 DEF Alone!Array!List!Next
<1> QED BY <1>4, <1>5

LEMMA ArrayNext ==
  ArrayInv /\ [Alone!Array!Next]_(Alone!Array!vars) =>
      ArrayInv' /\ [Alone!Array!List!Next]_<<Subscribers, found>>
<1> SUFFICES ASSUME ArrayInv, [Alone!Array!Next]_(Alone!Array!vars)
             PROVE  ArrayInv' /\ [Alone!Array!List!Next]_<<Subscribers, found>>
  OBVIOUS
<1>1. CASE UNCHANGED Alone!Array!vars
  BY <1>1 DEF Alone!Array!vars, ArrayInv, Subscribers
<1> QED BY <1>1, AddsLast, FindsFirst, DeletesFirst DEF Alone!Array!Next

LEMMA ArrayTyped == ArrayInv => Alone!Array!TypeOK
<1> SUFFICES ASSUME ArrayInv PROVE Alone!Array!TypeOK
  OBVIOUS
<1>1. /\ Kept \subseteq [name : Name \cup {Zeros}, num : Alone!Array!Text]
      /\ Alone!Array!Nobody \in [name : Name \cup {Zeros}, num : Alone!Array!Text]
  BY DEF Kept, Alone!Array!Text, Alone!Array!Nobody, Alone!Array!Blank
<1> QED BY <1>1 DEF ArrayInv, Alone!Array!TypeOK

(* ex4.3.c: the array with its count is a list, with as many places, names  *)
(* and numbers as there are.                                                *)
THEOREM ArrayImplementsList == Spec => ArrayIsList
<1>1. Init => ArrayInv /\ Alone!Array!List!Init
  BY AloneBegins, ArrayInitial
<1>2. ArrayInv /\ [Next]_vars =>
        /\ ArrayInv'
        /\ [Alone!Array!List!Next]_<<[i \in 1 .. chel |-> Alone!Array!Shown(my_sprav[i - 1])],
             found>>
  BY AloneSteps, ArrayNext DEF Subscribers
<1> QED BY <1>1, <1>2, PTL DEF Spec, ArrayIsList, Alone!Array!ArrayIsList, Alone!Array!List!Spec

-----------------------------------------------------------------------------
(* ex6.c.  What a search finds has the stem typed, and without an ending    *)
(* typed everybody is found who has it; what a deletion moves up is all     *)
(* that the list knows of a subscriber.                                     *)

HeapInv ==
  /\ book \in Seq(Alone!Heap!Subscriber) /\ Len(book) <= MaxEntries
  /\ last \in [name : Name, num : Stem] \cup {NoEntry} /\ broken \in BOOLEAN

Stems == [i \in DOMAIN book |-> Alone!Heap!Shown(book[i])]

LEMMA HeapInitial == Alone!Heap!Init => HeapInv /\ Alone!Heap!List!Init
<1> SUFFICES ASSUME Alone!Heap!Init PROVE HeapInv /\ Alone!Heap!List!Init
  OBVIOUS
<1>1. book = <<>> /\ <<>> \in Seq(Alone!Heap!Subscriber) /\ Len(<<>>) = 0 /\ last = NoEntry
      /\ broken = FALSE
  BY DEF Alone!Heap!Init
<1>2. HeapInv
  <2>1. Len(book) <= MaxEntries
    BY <1>1, SequentialAssumed DEF Alone!Heap!HeapAssumption
  <2>2. book \in Seq(Alone!Heap!Subscriber)
    BY <1>1
  <2> QED BY <1>1, <2>1, <2>2 DEF HeapInv
<1>3. [i \in DOMAIN book |-> Alone!Heap!Shown(book[i])] = <<>>
  BY <1>1
<1> QED BY <1>1, <1>2, <1>3 DEF Alone!Heap!List!Init

LEMMA StemsAre ==
  ASSUME HeapInv
  PROVE  /\ Len(book) \in Nat /\ DOMAIN book = 1 .. Len(book)
         /\ \A i \in 1 .. Len(book) : book[i] \in Alone!Heap!Subscriber
              /\ Stems[i] = Alone!Heap!Shown(book[i])
         /\ Stems \in Seq([name : Name, num : Stem]) /\ Len(Stems) = Len(book)
<1>1. Len(book) \in Nat /\ DOMAIN book = 1 .. Len(book)
      /\ \A i \in 1 .. Len(book) : book[i] \in Alone!Heap!Subscriber
  BY LenProperties, ElementOfSeq DEF HeapInv
<1>2. \A e \in Alone!Heap!Subscriber : Alone!Heap!Shown(e) \in [name : Name, num : Stem]
  BY DEF Alone!Heap!Subscriber, Alone!Heap!Shown
<1>3. Stems \in [1 .. Len(book) -> [name : Name, num : Stem]]
  BY <1>1, <1>2 DEF Stems
<1>4. Stems \in Seq([name : Name, num : Stem]) /\ Len(Stems) = Len(book)
  BY <1>1, <1>3, FunctionSeq
<1> QED BY <1>1, <1>4 DEF Stems

LEMMA StemAdded ==
  ASSUME HeapInv, NEW e \in Alone!Heap!Subscriber,
         NEW first, NEW second, Alone!Heap!Add(e, first, second)
  PROVE  HeapInv' /\ [Alone!Heap!List!Next]_<<Stems, last>>
<1>1. MaxEntries \in Nat /\ Len(book) < MaxEntries /\ UNCHANGED last
  BY SequentialAssumed DEF Alone!Heap!Add, Alone!Heap!HeapAssumption
<1>2. CASE broken' = TRUE /\ UNCHANGED book
  BY <1>1, <1>2 DEF HeapInv, Stems
<1>3. CASE book' = Append(book, e) /\ UNCHANGED broken
  <2>1. book' \in Seq(Alone!Heap!Subscriber) /\ Len(book') = Len(book) + 1
    BY <1>3 DEF HeapInv
  <2>2. HeapInv'
    BY <1>1, <1>3, <2>1, StemsAre DEF HeapInv
  <2> DEFINE d == Alone!Heap!Shown(e)
  <2>3. d \in [name : Name, num : Stem]
    BY DEF Alone!Heap!Subscriber, Alone!Heap!Shown
  <2>4. Stems' = Append(Stems, d)
    <3>1. /\ Len(book) \in Nat /\ DOMAIN book = 1 .. Len(book) /\ DOMAIN book' = 1 .. Len(book) + 1
          /\ \A i \in 1 .. Len(book) : Stems[i] = Alone!Heap!Shown(book[i])
          /\ Stems \in Seq([name : Name, num : Stem]) /\ Len(Stems) = Len(book)
      BY <2>1, LenProperties, StemsAre
    <3>2. \A i \in 1 .. Len(book) : book'[i] = book[i] /\ book'[Len(book) + 1] = e
      BY <1>3, <3>1 DEF HeapInv
    <3>3. book'[Len(book) + 1] = e
      BY <1>3, <3>1 DEF HeapInv
    <3>4. Stems' = [i \in 1 .. Len(book) + 1 |-> Alone!Heap!Shown(book'[i])]
      BY <3>1 DEF Stems
    <3> HIDE DEF d
    <3>5. /\ Append(Stems, d) \in Seq([name : Name, num : Stem])
               /\ Len(Append(Stems, d)) = Len(book) + 1
          /\ \A i \in 1 .. Len(book) : Append(Stems, d)[i] = Stems[i]
          /\ Append(Stems, d)[Len(book) + 1] = d
      BY <2>3, <3>1
    <3>6. Append(Stems, d) \in [1 .. Len(book) + 1 -> [name : Name, num : Stem]]
      BY <3>5, LenProperties
    <3>7. ASSUME NEW i \in 1 .. Len(book) + 1 PROVE Append(Stems, d)[i] = Alone!Heap!Shown(book'[i])
      <4>1. CASE i = Len(book) + 1
        BY <3>3, <3>5, <4>1 DEF d
      <4>2. CASE i # Len(book) + 1
        <5>1. i \in 1 .. Len(book)
          BY <3>1, <4>2
        <5> QED BY <3>1, <3>2, <3>5, <5>1
      <4> QED BY <4>1, <4>2
    <3> QED BY <3>4, <3>6, <3>7
  <2>5. Alone!Heap!List!Add(d)
    <3>1. Len(Stems) < MaxEntries
      BY <1>1, StemsAre
    <3> QED BY <1>1, <2>4, <3>1 DEF Alone!Heap!List!Add, Stems
  <2>6. d \in Alone!Heap!List!Entry
    BY <2>3 DEF Alone!Heap!List!Entry
  <2> HIDE DEF d
  <2> QED BY <2>2, <2>5, <2>6 DEF Alone!Heap!List!Next
<1> QED BY <1>2, <1>3 DEF Alone!Heap!Add

LEMMA StemFound ==
  ASSUME HeapInv, NEW q \in Alone!Heap!Typed
  PROVE  /\ Alone!Heap!fpoisk(q) = {} => q.ending # NoEnding \/ Alone!Heap!List!Found(q) = {}
         /\ Alone!Heap!fpoisk(q) # {} =>
              /\ Alone!Heap!Min(Alone!Heap!fpoisk(q)) \in 1 .. Len(book)
              /\ Alone!Heap!Min(Alone!Heap!fpoisk(q)) \in Alone!Heap!List!Found(q)
<1>1. /\ Len(book) \in Nat /\ DOMAIN book = 1 .. Len(book)
      /\ \A i \in 1 .. Len(book) : book[i] \in Alone!Heap!Subscriber
           /\ Stems[i] = Alone!Heap!Shown(book[i])
  BY StemsAre
<1>2. \A i : i \in Alone!Heap!List!Hits(q) <=>
      i \in 1 .. Len(book) /\ Alone!Heap!FitsStem(q, book[i].stem)
  <2>1. DOMAIN Stems = 1 .. Len(book)
    BY <1>1 DEF Stems
  <2>2. \A i \in 1 .. Len(book) : Stems[i].num = book[i].stem /\ book[i].stem \in Stem
    <3>1. \A d \in Alone!Heap!Subscriber : Alone!Heap!Shown(d).num = d.stem /\ d.stem \in Stem
      BY DEF Alone!Heap!Shown, Alone!Heap!Subscriber
    <3> QED BY <1>1, <3>1
  <2>3. \A j \in Stem :
        <<q, j>> \in {p \in Alone!Heap!Typed \X Stem : Alone!Heap!FitsStem(p[1], p[2])} <=>
            Alone!Heap!FitsStem(q, j)
    OBVIOUS
  <2> QED BY <2>1, <2>2, <2>3 DEF Alone!Heap!List!Hits, Stems
<1>3. \A i : i \in Alone!Heap!fpoisk(q) => i \in Alone!Heap!List!Hits(q)
  BY <1>1, <1>2 DEF Alone!Heap!fpoisk
<1>4. q.ending = NoEnding => Alone!Heap!fpoisk(q) = Alone!Heap!List!Hits(q)
  BY <1>1, <1>2 DEF Alone!Heap!fpoisk
<1>5. Alone!Heap!fpoisk(q) = {} /\ q.ending = NoEnding => Alone!Heap!List!Found(q) = {}
  BY <1>4 DEF Alone!Heap!List!Found
<1>6. ASSUME Alone!Heap!fpoisk(q) # {}
      PROVE  Alone!Heap!Min(Alone!Heap!fpoisk(q)) \in 1 .. Len(book)
             /\ Alone!Heap!Min(Alone!Heap!fpoisk(q)) \in Alone!Heap!List!Found(q)
  <2>1. Alone!Heap!fpoisk(q) \in SUBSET Nat
    BY <1>1 DEF Alone!Heap!fpoisk
  <2>2. \E x \in Alone!Heap!fpoisk(q) : \A y \in Alone!Heap!fpoisk(q) : x <= y
    BY <1>6, <2>1, Least
  <2> DEFINE w == Alone!Heap!Min(Alone!Heap!fpoisk(q))
  <2>3. w \in Alone!Heap!fpoisk(q) /\ \A y \in Alone!Heap!fpoisk(q) : w <= y
    BY <2>2 DEF Alone!Heap!Min
  <2> HIDE DEF w
  <2>4. w \in 1 .. Len(book) /\ w \in Alone!Heap!List!Hits(q)
    BY <1>2, <1>3, <2>3
  <2>5. w \in Alone!Heap!List!Found(q)
    BY <1>4, <2>3, <2>4 DEF Alone!Heap!List!Found
  <2> QED BY <2>4, <2>5 DEF w
<1> QED BY <1>5, <1>6

LEMMA StemShown ==
  ASSUME HeapInv, NEW q \in Alone!Heap!Typed, Alone!Heap!Find(q)
  PROVE  HeapInv' /\ Alone!Heap!List!Next
<1> DEFINE w == Alone!Heap!Min(Alone!Heap!fpoisk(q))
<1>1. /\ UNCHANGED <<book, broken>>
      /\ last' = IF Alone!Heap!fpoisk(q) = {} THEN NoEntry ELSE Alone!Heap!Shown(book[w])
  BY DEF Alone!Heap!Find
<1>2. /\ Alone!Heap!fpoisk(q) = {} => q.ending # NoEnding \/ Alone!Heap!List!Found(q) = {}
      /\ Alone!Heap!fpoisk(q) # {} => w \in 1 .. Len(book) /\ w \in Alone!Heap!List!Found(q)
  BY StemFound
<1> HIDE DEF w
<1>3. CASE Alone!Heap!fpoisk(q) = {}
  <2>1. HeapInv'
    BY <1>1, <1>3 DEF HeapInv
  <2>2. Alone!Heap!List!Miss(q)
    BY <1>1, <1>2, <1>3 DEF Alone!Heap!List!Miss
  <2> QED BY <2>1, <2>2 DEF Alone!Heap!List!Next
<1>4. CASE Alone!Heap!fpoisk(q) # {}
  <2>1. last' = Stems[w] /\ last' \in [name : Name, num : Stem]
    <3>1. /\ Stems[w] = Alone!Heap!Shown(book[w]) /\ w \in 1 .. Len(Stems)
          /\ Stems \in Seq([name : Name, num : Stem])
      BY <1>2, <1>4, StemsAre
    <3>2. Stems[w] \in [name : Name, num : Stem]
      BY <3>1, ElementOfSeq
    <3> QED BY <1>1, <1>4, <3>1, <3>2
  <2>2. HeapInv'
    BY <1>1, <2>1 DEF HeapInv
  <2>3. Alone!Heap!List!Search(q)
    BY <1>1, <1>2, <1>4, <2>1 DEF Alone!Heap!List!Search, Stems
  <2> QED BY <2>2, <2>3 DEF Alone!Heap!List!Next
<1> QED BY <1>3, <1>4

LEMMA StemDeleted ==
  ASSUME HeapInv, NEW q \in Alone!Heap!Typed, Alone!Heap!Delete(q)
  PROVE  HeapInv' /\ Alone!Heap!List!Next
<1> DEFINE w == Alone!Heap!Min(Alone!Heap!fpoisk(q))
<1>1. /\ UNCHANGED broken
      /\ \/ Alone!Heap!fpoisk(q) = {} /\ last' = NoEntry /\ UNCHANGED book
         \/ Alone!Heap!fpoisk(q) # {} /\ last' = Alone!Heap!Shown(book[w])
              /\ book' = Alone!Heap!Without(w)
  BY DEF Alone!Heap!Delete
<1>2. /\ Alone!Heap!fpoisk(q) = {} => q.ending # NoEnding \/ Alone!Heap!List!Found(q) = {}
      /\ Alone!Heap!fpoisk(q) # {} => w \in 1 .. Len(book) /\ w \in Alone!Heap!List!Found(q)
  BY StemFound
<1> HIDE DEF w
<1>3. CASE Alone!Heap!fpoisk(q) = {}
  <2>1. HeapInv'
    BY <1>1, <1>3 DEF HeapInv
  <2>2. Alone!Heap!List!Miss(q)
    BY <1>1, <1>2, <1>3 DEF Alone!Heap!List!Miss
  <2> QED BY <2>1, <2>2 DEF Alone!Heap!List!Next
<1>4. CASE Alone!Heap!fpoisk(q) # {}
  <2>1. /\ Len(book) \in Nat /\ w \in Nat /\ 1 <= w /\ w <= Len(book)
             /\ DOMAIN book = 1 .. Len(book)
        /\ \A i \in 1 .. Len(book) : book[i] \in Alone!Heap!Subscriber
             /\ Stems[i] = Alone!Heap!Shown(book[i])
        /\ Stems \in Seq([name : Name, num : Stem]) /\ Len(Stems) = Len(book)
    BY <1>2, <1>4, StemsAre
  <2>2. book' = Alone!Heap!Without(w)
    BY <1>1, <1>4
  <2>3. ASSUME NEW i \in 1 .. Len(book) - 1
        PROVE  book'[i] \in Alone!Heap!Subscriber
               /\ Alone!Heap!Shown(book'[i]) = IF i < w THEN Stems[i] ELSE Stems[i + 1]
    <3>1. i \in 1 .. Len(book) /\ i + 1 \in 1 .. Len(book)
      BY <2>1
    <3>2. book'[i] = IF i < w THEN book[i] ELSE [book[i + 1] EXCEPT !.ending = book[i].ending]
      BY <2>2 DEF Alone!Heap!Without
    <3>3. \A d, e \in Alone!Heap!Subscriber :
          /\ [d EXCEPT !.ending = e.ending] \in Alone!Heap!Subscriber
                                   /\ Alone!Heap!Shown([d EXCEPT !.ending = e.ending]) =
                                        Alone!Heap!Shown(d)
      BY DEF Alone!Heap!Subscriber, Alone!Heap!Shown
    <3> QED BY <2>1, <3>1, <3>2, <3>3
  <2>4. Len(book) - 1 \in Nat /\ book' \in [1 .. Len(book) - 1 -> Alone!Heap!Subscriber]
    BY <2>1, <2>2, <2>3 DEF Alone!Heap!Without
  <2>5. book' \in Seq(Alone!Heap!Subscriber) /\ Len(book') = Len(book) - 1
    BY <2>4, FunctionSeq
  <2>6. last' = Stems[w] /\ last' \in [name : Name, num : Stem]
    <3>1. Stems[w] = Alone!Heap!Shown(book[w]) /\ w \in 1 .. Len(Stems)
      BY <2>1
    <3>2. Stems[w] \in [name : Name, num : Stem]
      BY <2>1, <3>1, ElementOfSeq
    <3> QED BY <1>1, <1>4, <3>1, <3>2
  <2>7. HeapInv'
    <3>1. Len(book) - 1 <= MaxEntries
      BY <2>1, SequentialAssumed DEF HeapInv, Alone!Heap!HeapAssumption
    <3> QED BY <1>1, <2>5, <2>6, <3>1 DEF HeapInv
  <2>8. Stems' = Alone!Heap!List!RemoveAt(Stems, w)
    <3>1. SubSeq(Stems, 1, w - 1) \o SubSeq(Stems, w + 1, Len(Stems)) =
            [i \in 1 .. Len(Stems) - 1 |-> IF i < w THEN Stems[i] ELSE Stems[i + 1]]
      <4>1. w \in 1 .. Len(Stems)
        BY <2>1
      <4> QED BY <2>1, <4>1, Removed
    <3>2. DOMAIN book' = 1 .. Len(book) - 1
      BY <2>4
    <3>3. Stems' = [i \in 1 .. Len(book) - 1 |-> IF i < w THEN Stems[i] ELSE Stems[i + 1]]
      BY <2>3, <3>2 DEF Stems
    <3> QED BY <2>1, <3>1, <3>3 DEF Alone!Heap!List!RemoveAt
  <2>9. Alone!Heap!List!Delete(q)
    BY <1>2, <1>4, <2>6, <2>8 DEF Alone!Heap!List!Delete, Stems
  <2> QED BY <2>7, <2>9 DEF Alone!Heap!List!Next
<1> QED BY <1>3, <1>4

LEMMA HeapNext ==
  HeapInv /\ [Alone!Heap!Next]_(Alone!Heap!vars) =>
      HeapInv' /\ [Alone!Heap!List!Next]_<<Stems, last>>
<1> SUFFICES ASSUME HeapInv, [Alone!Heap!Next]_(Alone!Heap!vars)
             PROVE  HeapInv' /\ [Alone!Heap!List!Next]_<<Stems, last>>
  OBVIOUS
<1>1. CASE UNCHANGED Alone!Heap!vars
  BY <1>1 DEF Alone!Heap!vars, HeapInv, Stems
<1> QED BY <1>1, StemAdded, StemShown, StemDeleted DEF Alone!Heap!Next

LEMMA HeapTyped == HeapInv => Alone!Heap!TypeOK
<1> SUFFICES ASSUME HeapInv PROVE Alone!Heap!TypeOK
  OBVIOUS
<1>1. Len(book) \in 0 .. MaxEntries /\ book \in [1 .. Len(book) -> Alone!Heap!Subscriber]
  BY LenProperties, SequentialAssumed DEF HeapInv, Alone!Heap!HeapAssumption
<1>2. book \in Alone!Heap!SeqOf(Alone!Heap!Subscriber, MaxEntries)
  BY <1>1 DEF Alone!Heap!SeqOf
<1> QED BY <1>2, Zenon DEF HeapInv, Alone!Heap!TypeOK

(* ex6.c: names and beginnings of numbers are a list, with as many          *)
(* subscribers, and as long as the array of pointers has not been overrun.  *)
THEOREM StemsImplementList == Spec => StemsAreList
<1>1. Init => HeapInv /\ Alone!Heap!List!Init
  BY AloneBegins, HeapInitial
<1>2. HeapInv /\ [Next]_vars =>
        /\ HeapInv'
        /\ [Alone!Heap!List!Next]_<<[i \in DOMAIN book |-> Alone!Heap!Shown(book[i])], last>>
  BY AloneSteps, HeapNext DEF Stems
<1> QED BY <1>1, <1>2, PTL DEF Spec, StemsAreList, Alone!Heap!StemsAreList, Alone!Heap!List!Spec

-----------------------------------------------------------------------------
(* The command lines.  Before k there are pairs only, and what was read is  *)
(* what they name last; where a program stops reading no pair stands.       *)

Upto(o, e) == {i \in Alone!Line!Starts : i < e /\ argv[i] = o}

ReadUpto(e) ==
  /\ \E p \in Alone!Line!Unset :
       port = IF Upto("-p", e) = {} THEN p
           ELSE Alone!Line!PortOf(argv[Alone!Line!Max(Upto("-p", e)) + 1])
  /\ addr = IF Upto("-a", e) = {} THEN Alone!Line!None ELSE argv[Alone!Line!Max(Upto("-a", e)) + 1]
  /\ ifname = IF Upto("-i", e) = {} THEN Alone!Line!None
       ELSE argv[Alone!Line!Max(Upto("-i", e)) + 1]

AllPairs(e) == e \in Alone!Line!Starts /\ \A j \in Alone!Line!Starts : j < e => Alone!Line!PairAt(j)

LineInv ==
  /\ argv \in Seq(Alone!Line!Word) /\ prog \in {"server", "client", "echo"} /\ k \in Nat
  /\ port \in Alone!Line!PortNumber
  /\ AllPairs(k)
  /\ outcome = "reading" => ReadUpto(k)
  /\ outcome = "run" =>
       /\ ReadUpto(k) /\ ~Alone!Line!PairAt(k)
       /\ \/ argv # <<>> /\ k > Len(argv)
          \/ prog = "server" /\ k <= Len(argv) /\ argv[k] = "-h"
  /\ outcome = "end" =>
       /\ ~Alone!Line!PairAt(k)
       /\ \/ argv = <<>>
          \/ k <= Len(argv) /\ ~(prog = "server" /\ argv[k] = "-h")
  /\ outcome \in {"reading", "run", "end"}

LEMMA PortBounds == \A w \in Alone!Line!Word : Alone!Line!PortOf(w) \in Alone!Line!PortNumber
<1>1. \A w \in Alone!Line!Word : Alone!Line!Number[w] \in Int
  BY DEF Alone!Line!Number, Alone!Line!Word
<1>2. Alone!Line!Width \in Nat /\ Alone!Line!Width > 0
  BY DEF Alone!Line!Width
<1>3. \A x, y \in Int : y > 0 => x % y \in 0 .. (y - 1)
  OBVIOUS
<1>4. \A x \in Int : x % Alone!Line!Width \in Alone!Line!PortNumber
  BY <1>2, <1>3 DEF Alone!Line!PortNumber
<1> QED BY <1>1, <1>4, Zenon DEF Alone!Line!PortOf

LEMMA ZeroPort == 0 \in Alone!Line!PortNumber /\ Alone!Line!Unset \subseteq Alone!Line!PortNumber
<1>1. Alone!Line!Width \in Nat /\ Alone!Line!Width > 1000
  BY DEF Alone!Line!Width
<1> QED BY <1>1 DEF Alone!Line!PortNumber, Alone!Line!Unset

LEMMA AcceptsWhat ==
  ASSUME NEW w
  PROVE  /\ Alone!Line!Accepts("-a", w) <=> prog = "echo" \/ w = "10.0.0.1"
         /\ Alone!Line!Accepts("-p", w) <=> prog = "echo"
              \/ Alone!Line!PortOf(w) \in Alone!Line!PortNumber \ {0}
         /\ Alone!Line!Accepts("-i", w) <=> prog = "echo" \/ w \in Alone!Line!Interfaces
         /\ \A o : o \notin {"-a", "-p", "-i"} => ~Alone!Line!Accepts(o, w)
BY DEF Alone!Line!Accepts

(* What a program takes is a pair, and what it does not take is none.       *)
LEMMA TakesPairs ==
  ASSUME LineInv, k <= Len(argv)
  PROVE  /\ argv[k] = "-a" => (Alone!Line!Takes(Alone!Line!Addresses) <=> Alone!Line!PairAt(k))
         /\ argv[k] = "-p" => (Alone!Line!Takes(Alone!Line!Ports) <=> Alone!Line!PairAt(k))
         /\ argv[k] = "-i" => (Alone!Line!Takes(Alone!Line!Interfaces) <=> Alone!Line!PairAt(k))
         /\ argv[k] \notin {"-a", "-p", "-i"} => ~Alone!Line!PairAt(k)
<1>1. k \in 1 .. Len(argv) /\ Len(argv) \in Nat
  BY DEF LineInv, AllPairs, Alone!Line!Starts
<1>2. Alone!Line!HasValue => Alone!Line!Value \in Alone!Line!Word
  <2> SUFFICES ASSUME Alone!Line!HasValue PROVE Alone!Line!Value \in Alone!Line!Word
    OBVIOUS
  <2>1. k + 1 \in 1 .. Len(argv)
    BY <1>1 DEF Alone!Line!HasValue
  <2> QED BY <2>1, ElementOfSeq DEF LineInv, Alone!Line!Value
<1>3. \A w \in Alone!Line!Word : w \in Alone!Line!Addresses <=> w = "10.0.0.1"
  BY DEF Alone!Line!Addresses, Alone!Line!invalid_addr
<1>4. \A w \in Alone!Line!Word : w \in Alone!Line!Ports <=>
      Alone!Line!PortOf(w) \in Alone!Line!PortNumber \ {0}
  BY PortBounds, Zenon DEF Alone!Line!Ports
<1>5. Alone!Line!PairAt(k) <=> Alone!Line!HasValue /\ Alone!Line!Accepts(argv[k], Alone!Line!Value)
  BY DEF Alone!Line!PairAt, Alone!Line!HasValue, Alone!Line!Value
<1>6. ASSUME argv[k] = "-a" PROVE Alone!Line!Takes(Alone!Line!Addresses) <=> Alone!Line!PairAt(k)
  BY <1>2, <1>3, <1>5, <1>6, AcceptsWhat, Zenon DEF Alone!Line!Takes
<1>7. ASSUME argv[k] = "-p" PROVE Alone!Line!Takes(Alone!Line!Ports) <=> Alone!Line!PairAt(k)
  BY <1>2, <1>4, <1>5, <1>7, AcceptsWhat, Zenon DEF Alone!Line!Takes
<1>8. ASSUME argv[k] = "-i" PROVE Alone!Line!Takes(Alone!Line!Interfaces) <=> Alone!Line!PairAt(k)
  BY <1>5, <1>8, AcceptsWhat, Zenon DEF Alone!Line!Takes
<1>9. argv[k] \notin {"-a", "-p", "-i"} => ~Alone!Line!PairAt(k)
  BY <1>5, AcceptsWhat, Zenon
<1> QED BY <1>6, <1>7, <1>8, <1>9

(* The next pair names its option last.                                     *)
LEMMA UptoNext ==
  ASSUME LineInv, Alone!Line!PairAt(k), NEW o
  PROVE  /\ AllPairs(k + 2)
         /\ argv[k] = o => Upto(o, k + 2) # {} /\ Alone!Line!Max(Upto(o, k + 2)) = k
         /\ argv[k] # o => Upto(o, k + 2) = Upto(o, k)
<1>1. k \in Alone!Line!Starts /\ k \in Nat /\ Len(argv) \in Nat /\ k + 1 <= Len(argv) /\ k >= 1
      /\ k % 2 = 1
  BY DEF LineInv, AllPairs, Alone!Line!Starts, Alone!Line!PairAt
<1>2. k + 2 \in Alone!Line!Starts
  <2>1. (k + 2) % 2 = 1
    BY <1>1
  <2>2. k + 2 \in 1 .. (Len(argv) + 1)
    BY <1>1
  <2> QED BY <2>1, <2>2 DEF Alone!Line!Starts
<1>3. \A i \in Alone!Line!Starts : i < k + 2 <=> i < k \/ i = k
  <2> SUFFICES ASSUME NEW i \in Alone!Line!Starts PROVE i < k + 2 <=> i < k \/ i = k
    OBVIOUS
  <2>1. i \in Nat /\ i % 2 = 1
    BY <1>1 DEF Alone!Line!Starts
  <2> QED BY <1>1, <2>1
<1>4. AllPairs(k + 2)
  BY <1>2, <1>3 DEF AllPairs, LineInv
<1>5. ASSUME argv[k] = o PROVE Upto(o, k + 2) # {} /\ Alone!Line!Max(Upto(o, k + 2)) = k
  <2> DEFINE S == Upto(o, k + 2)
  <2>1. k \in S /\ \A i \in S : i \in Nat /\ i <= k
    BY <1>1, <1>3, <1>5 DEF Upto, Alone!Line!Starts
  <2> HIDE DEF S
  <2>2. Alone!Line!Max(S) \in S /\ \A i \in S : Alone!Line!Max(S) >= i
    <3>1. \E x \in S : \A y \in S : x >= y
      BY <2>1
    <3> QED BY <3>1 DEF Alone!Line!Max
  <2> DEFINE w == Alone!Line!Max(S)
  <2>3. w \in S /\ w >= k
    BY <2>1, <2>2
  <2> HIDE DEF w
  <2>4. w = k
    BY <1>1, <2>1, <2>3
  <2> QED BY <2>1, <2>4 DEF S, w
<1>6. argv[k] # o => Upto(o, k + 2) = Upto(o, k)
  BY <1>3 DEF Upto
<1> QED BY <1>4, <1>5, <1>6

LEMMA LineInitial == Alone!Line!Init => LineInv
<1> SUFFICES ASSUME Alone!Line!Init PROVE LineInv
  OBVIOUS
<1>1. argv \in Seq(Alone!Line!Word) /\ Len(argv) \in Nat
  BY SequentialAssumed DEF Alone!Line!Init, Alone!Line!LineAssumption, Alone!Line!SeqOf
<1>2. 1 \in Alone!Line!Starts /\ \A i \in Alone!Line!Starts : ~(i < 1)
  BY <1>1 DEF Alone!Line!Starts
<1>3. \A o : Upto(o, 1) = {}
  BY <1>2 DEF Upto
<1>4. AllPairs(1)
  BY <1>2 DEF AllPairs
<1>5. k = 1 /\ port \in Alone!Line!Unset /\ addr = Alone!Line!None /\ ifname = Alone!Line!None
  BY DEF Alone!Line!Init
<1>6. ReadUpto(k)
  BY <1>3, <1>5, Zenon DEF ReadUpto
<1>7. prog \in {"server", "client", "echo"} /\ port \in Alone!Line!PortNumber /\ outcome = "reading"
  BY <1>5, ZeroPort DEF Alone!Line!Init
<1> QED BY <1>1, <1>4, <1>5, <1>6, <1>7 DEF LineInv

(* What is not read stays.                                                  *)
LEMMA LineStays ==
  ASSUME UNCHANGED Alone!Line!line
  PROVE  /\ \A e : AllPairs(e)' <=> AllPairs(e)
         /\ \A e : Alone!Line!PairAt(e)' <=> Alone!Line!PairAt(e)
         /\ \A o, e : Upto(o, e)' = Upto(o, e)
BY DEF Alone!Line!line, AllPairs, Alone!Line!PairAt, Alone!Line!Accepts, Alone!Line!Starts, Upto

(* A program that has read the words up to a place where no pair stands.    *)
LEMMA LineEnds ==
  ASSUME LineInv, outcome = "reading", ~Alone!Line!PairAt(k), UNCHANGED <<prog, argv, k>>,
         port' \in Alone!Line!PortNumber,
         \/ /\ outcome' = "end"
            /\ argv = <<>> \/ (k <= Len(argv) /\ ~(prog = "server" /\ argv[k] = "-h"))
         \/ /\ outcome' = "run" /\ UNCHANGED <<port, addr, ifname>>
            /\ \/ argv # <<>> /\ k > Len(argv)
               \/ prog = "server" /\ k <= Len(argv) /\ argv[k] = "-h"
  PROVE  LineInv'
<1>1. UNCHANGED Alone!Line!line
  BY DEF Alone!Line!line
<1>2. AllPairs(k)' /\ ~Alone!Line!PairAt(k)' /\ \A o : Upto(o, k)' = Upto(o, k)
  BY <1>1, LineStays DEF LineInv
<1>3. UNCHANGED <<port, addr, ifname>> => ReadUpto(k)'
  BY <1>2 DEF LineInv, ReadUpto, Alone!Line!Unset
<1> QED BY <1>2, <1>3 DEF LineInv

LEMMA LineGoesOn ==
  ASSUME LineInv, outcome = "reading", Alone!Line!PairAt(k), UNCHANGED <<prog, argv, outcome>>,
         k' = k + 2,
         IF argv[k] = "-p" THEN port' = Alone!Line!PortOf(argv[k + 1]) ELSE UNCHANGED port,
         IF argv[k] = "-a" THEN addr' = argv[k + 1] ELSE UNCHANGED addr,
         IF argv[k] = "-i" THEN ifname' = argv[k + 1] ELSE UNCHANGED ifname
  PROVE  LineInv'
<1>1. UNCHANGED Alone!Line!line
  BY DEF Alone!Line!line
<1>2. k' \in Nat /\ AllPairs(k)'
  <2>1. AllPairs(k + 2) /\ Alone!Line!Starts' = Alone!Line!Starts
        /\ \A i : Alone!Line!PairAt(i)' <=> Alone!Line!PairAt(i)
    <3>1. AllPairs(k + 2)
      BY UptoNext
    <3>2. Alone!Line!Starts' = Alone!Line!Starts
      BY DEF Alone!Line!Starts
    <3> QED BY <1>1, <3>1, <3>2, LineStays
  <2>2. k' \in Nat
    BY DEF LineInv
  <2> QED BY <2>1, <2>2 DEF AllPairs
<1>3. \A o : /\ argv[k] = o => Upto(o, k)' # {} /\ Alone!Line!Max(Upto(o, k)') = k
             /\ argv[k] # o => Upto(o, k)' = Upto(o, k)
  <2> SUFFICES ASSUME NEW o
               PROVE  /\ argv[k] = o => Upto(o, k)' # {} /\ Alone!Line!Max(Upto(o, k)') = k
                      /\ argv[k] # o => Upto(o, k)' = Upto(o, k)
    OBVIOUS
  <2>1. Upto(o, k)' = Upto(o, k + 2)
    BY DEF Upto, Alone!Line!Starts
  <2> QED BY <2>1, UptoNext
<1>4. /\ \E p \in Alone!Line!Unset : port = IF Upto("-p", k) = {} THEN p
           ELSE Alone!Line!PortOf(argv[Alone!Line!Max(Upto("-p", k)) + 1])
      /\ addr = IF Upto("-a", k) = {} THEN Alone!Line!None
           ELSE argv[Alone!Line!Max(Upto("-a", k)) + 1]
      /\ ifname = IF Upto("-i", k) = {} THEN Alone!Line!None
           ELSE argv[Alone!Line!Max(Upto("-i", k)) + 1]
      /\ Alone!Line!Unset' = Alone!Line!Unset /\ argv' = argv
  BY DEF LineInv, ReadUpto, Alone!Line!Unset
<1>5. \E p \in Alone!Line!Unset : port' = IF Upto("-p", k)' = {} THEN p
      ELSE Alone!Line!PortOf(argv[Alone!Line!Max(Upto("-p", k)') + 1])
  <2>1. CASE argv[k] = "-p"
    <3>1. Upto("-p", k)' # {} /\ Alone!Line!Max(Upto("-p", k)') = k
          /\ port' = Alone!Line!PortOf(argv[k + 1])
      BY <1>3, <2>1
    <3> QED BY <1>4, <3>1, Zenon
  <2>2. CASE argv[k] # "-p"
    <3>1. Upto("-p", k)' = Upto("-p", k) /\ port' = port
      BY <1>3, <2>2
    <3> QED BY <1>4, <3>1, Zenon
  <2> QED BY <2>1, <2>2
<1>6. addr' = IF Upto("-a", k)' = {} THEN Alone!Line!None
      ELSE argv[Alone!Line!Max(Upto("-a", k)') + 1]
  <2>1. CASE argv[k] = "-a"
    BY <1>3, <2>1, Zenon
  <2>2. CASE argv[k] # "-a"
    BY <1>3, <1>4, <2>2, Zenon
  <2> QED BY <2>1, <2>2
<1>7. ifname' = IF Upto("-i", k)' = {} THEN Alone!Line!None
      ELSE argv[Alone!Line!Max(Upto("-i", k)') + 1]
  <2>1. CASE argv[k] = "-i"
    BY <1>3, <2>1, Zenon
  <2>2. CASE argv[k] # "-i"
    BY <1>3, <1>4, <2>2, Zenon
  <2> QED BY <2>1, <2>2
<1>8. ReadUpto(k)'
  BY <1>4, <1>5, <1>6, <1>7 DEF ReadUpto
<1>9. port' \in Alone!Line!PortNumber
  <2>1. k + 1 \in 1 .. Len(argv)
    BY DEF Alone!Line!PairAt, LineInv, AllPairs, Alone!Line!Starts
  <2>2. argv[k + 1] \in Alone!Line!Word
    BY <2>1, ElementOfSeq DEF LineInv
  <2>3. port \in Alone!Line!PortNumber
    BY DEF LineInv
  <2> QED BY <2>2, <2>3, PortBounds, Zenon
<1> QED BY <1>2, <1>8, <1>9 DEF LineInv

LEMMA LineNext == LineInv /\ [Alone!Line!Next]_(Alone!Line!vars) => LineInv'
<1> SUFFICES ASSUME LineInv, [Alone!Line!Next]_(Alone!Line!vars) PROVE LineInv'
  OBVIOUS
<1>1. ASSUME Alone!Line!Address \/ Alone!Line!Port \/ Alone!Line!Iface PROVE LineInv'
  <2>1. /\ outcome = "reading" /\ k <= Len(argv) /\ argv[k] \in {"-a", "-p", "-i"}
        /\ UNCHANGED <<prog, argv>>
    BY <1>1 DEF Alone!Line!Address, Alone!Line!Port, Alone!Line!Iface, Alone!Line!Option,
                Alone!Line!Reads, Alone!Line!Ends, Alone!Line!line
  <2>2. CASE Alone!Line!PairAt(k)
    <3>1. CASE Alone!Line!Address
      <4>1. argv[k] = "-a" /\ Alone!Line!Takes(Alone!Line!Addresses)
        BY <2>1, <2>2, <3>1, TakesPairs DEF Alone!Line!Address, Alone!Line!Option
      <4>2. addr' = argv[k + 1] /\ UNCHANGED <<port, ifname, outcome>> /\ k' = k + 2
        BY <3>1, <4>1 DEF Alone!Line!Address, Alone!Line!Reads, Alone!Line!Value
      <4> QED BY <2>1, <2>2, <4>1, <4>2, LineGoesOn
    <3>2. CASE Alone!Line!Port
      <4>1. argv[k] = "-p" /\ Alone!Line!Takes(Alone!Line!Ports)
        BY <2>1, <2>2, <3>2, TakesPairs DEF Alone!Line!Port, Alone!Line!Option
      <4>2. port' = Alone!Line!PortOf(argv[k + 1]) /\ UNCHANGED <<addr, ifname, outcome>>
            /\ k' = k + 2
        BY <3>2, <4>1 DEF Alone!Line!Port, Alone!Line!Reads, Alone!Line!Value
      <4> QED BY <2>1, <2>2, <4>1, <4>2, LineGoesOn
    <3>3. CASE Alone!Line!Iface
      <4>1. argv[k] = "-i" /\ Alone!Line!Takes(Alone!Line!Interfaces)
        BY <2>1, <2>2, <3>3, TakesPairs DEF Alone!Line!Iface, Alone!Line!Option
      <4>2. ifname' = argv[k + 1] /\ UNCHANGED <<port, addr, outcome>> /\ k' = k + 2
        BY <3>3, <4>1 DEF Alone!Line!Iface, Alone!Line!Reads, Alone!Line!Value
      <4> QED BY <2>1, <2>2, <4>1, <4>2, LineGoesOn
    <3> QED BY <1>1, <3>1, <3>2, <3>3
  <2>3. CASE ~Alone!Line!PairAt(k)
    <3>1. outcome' = "end" /\ UNCHANGED k
      <4>1. CASE Alone!Line!Address
        BY <2>1, <2>3, <4>1, TakesPairs DEF Alone!Line!Address, Alone!Line!Option, Alone!Line!Ends
      <4>2. CASE Alone!Line!Port
        BY <2>1, <2>3, <4>2, TakesPairs DEF Alone!Line!Port, Alone!Line!Option
      <4>3. CASE Alone!Line!Iface
        BY <2>1, <2>3, <4>3, TakesPairs DEF Alone!Line!Iface, Alone!Line!Option, Alone!Line!Ends
      <4> QED BY <1>1, <4>1, <4>2, <4>3
    <3>2. ~(prog = "server" /\ argv[k] = "-h")
      BY <2>1
    <3>3. port' \in Alone!Line!PortNumber
      <4>1. port' \in {0, port}
        <5>1. k' # k + 2
          BY <3>1 DEF LineInv
        <5>2. CASE Alone!Line!Address
          BY <5>1, <5>2 DEF Alone!Line!Address, Alone!Line!Ends, Alone!Line!settings,
                            Alone!Line!Reads
        <5>3. CASE Alone!Line!Port
          BY <5>1, <5>3 DEF Alone!Line!Port, Alone!Line!Reads
        <5>4. CASE Alone!Line!Iface
          BY <5>1, <5>4 DEF Alone!Line!Iface, Alone!Line!Ends, Alone!Line!settings, Alone!Line!Reads
        <5> QED BY <1>1, <5>2, <5>3, <5>4
      <4>2. port \in Alone!Line!PortNumber
        BY DEF LineInv
      <4> QED BY <4>1, <4>2, ZeroPort
    <3> QED BY <2>1, <2>3, <3>1, <3>2, <3>3, LineEnds
  <2> QED BY <2>2, <2>3
<1>2. CASE Alone!Line!IfaceUnknown \/ UNCHANGED Alone!Line!vars
  <2>1. UNCHANGED <<prog, argv, k, port, addr, ifname, outcome>>
    BY <1>2 DEF Alone!Line!IfaceUnknown, Alone!Line!vars
  <2>2. /\ \A e : (AllPairs(e)' <=> AllPairs(e)) /\ (Alone!Line!PairAt(e)' <=> Alone!Line!PairAt(e))
        /\ \A o, e : Upto(o, e)' = Upto(o, e)
    BY <2>1, LineStays DEF Alone!Line!line
  <2>3. ReadUpto(k)' <=> ReadUpto(k)
    BY <2>1, <2>2 DEF ReadUpto, Alone!Line!Unset
  <2>4. (AllPairs(k)' <=> AllPairs(k)) /\ (Alone!Line!PairAt(k)' <=> Alone!Line!PairAt(k))
    BY <2>1, <2>2
  <2> QED BY <2>1, <2>3, <2>4 DEF LineInv
<1>3. CASE Alone!Line!Help \/ Alone!Line!Other
  <2>1. /\ outcome = "reading" /\ k <= Len(argv) /\ UNCHANGED <<prog, argv, k, port, addr, ifname>>
        /\ argv[k] \notin {"-a", "-p", "-i"}
        /\ \/ outcome' = "end" /\ ~(prog = "server" /\ argv[k] = "-h")
           \/ outcome' = "run" /\ prog = "server" /\ argv[k] = "-h"
    BY <1>3 DEF Alone!Line!Help, Alone!Line!Other, Alone!Line!Option, Alone!Line!Options,
                Alone!Line!Ends, Alone!Line!line, Alone!Line!settings
  <2>2. ~Alone!Line!PairAt(k)
    BY <2>1, TakesPairs
  <2> QED BY <2>1, <2>2, LineEnds DEF LineInv
<1>4. CASE Alone!Line!AllRead
  <2>1. /\ outcome = "reading" /\ k > Len(argv) /\ UNCHANGED <<prog, argv, k, port, addr, ifname>>
        /\ IF argv = <<>> THEN outcome' = "end" ELSE outcome' = "run"
    BY <1>4 DEF Alone!Line!AllRead, Alone!Line!Ends, Alone!Line!line, Alone!Line!settings
  <2>2. ~Alone!Line!PairAt(k)
    <3>1. k \in Nat /\ Len(argv) \in Nat
      BY DEF LineInv
    <3> QED BY <2>1, <3>1 DEF Alone!Line!PairAt
  <2> QED BY <2>1, <2>2, LineEnds DEF LineInv
<1> QED BY <1>1, <1>2, <1>3, <1>4 DEF Alone!Line!Next

(* The place where a program stopped is the first one without a pair.       *)
LEMMA LineRight == LineInv => Alone!Line!LineObeyed
<1> SUFFICES ASSUME LineInv PROVE Alone!Line!LineObeyed
  OBVIOUS
<1>1. k \in Nat /\ Len(argv) \in Nat /\ \A i \in Alone!Line!Starts : i \in Nat
  BY DEF LineInv, Alone!Line!Starts
<1>2. ~Alone!Line!PairAt(k) => Alone!Line!Stop = k
  <2> SUFFICES ASSUME ~Alone!Line!PairAt(k) PROVE Alone!Line!Stop = k
    OBVIOUS
  <2>1. /\ k \in Alone!Line!Starts /\ ~Alone!Line!PairAt(k)
        /\ \A j \in Alone!Line!Starts : j < k => Alone!Line!PairAt(j)
    BY DEF LineInv, AllPairs
  <2>2. /\ Alone!Line!Stop \in Alone!Line!Starts /\ ~Alone!Line!PairAt(Alone!Line!Stop)
        /\ \A j \in Alone!Line!Starts : j < Alone!Line!Stop => Alone!Line!PairAt(j)
    BY <2>1 DEF Alone!Line!Stop
  <2>3. ~(k < Alone!Line!Stop) /\ ~(Alone!Line!Stop < k)
    BY <2>1, <2>2
  <2> QED BY <1>1, <2>1, <2>2, <2>3
<1>3. outcome # "reading" => Alone!Line!Stop = k
  BY <1>2 DEF LineInv
<1>4. outcome # "reading" =>
        (outcome = "run" <=>
           \/ argv # <<>> /\ Alone!Line!Stop > Len(argv)
           \/ prog = "server" /\ Alone!Line!Stop <= Len(argv) /\ argv[Alone!Line!Stop] = "-h")
  <2>1. argv = <<>> => Len(argv) = 0
    OBVIOUS
  <2>2. CASE outcome = "run"
    <3>1. \/ argv # <<>> /\ k > Len(argv)
          \/ prog = "server" /\ k <= Len(argv) /\ argv[k] = "-h"
      BY <2>2, Zenon DEF LineInv
    <3> QED BY <1>3, <2>2, <3>1
  <2>3. CASE outcome = "end"
    <3>1. \/ argv = <<>>
          \/ k <= Len(argv) /\ ~(prog = "server" /\ argv[k] = "-h")
      BY <2>3, Zenon DEF LineInv
    <3>2. Alone!Line!Stop = k /\ k \in Nat /\ k >= 1 /\ (argv = <<>> => k > Len(argv))
      BY <1>1, <1>3, <2>1, <2>3 DEF LineInv, AllPairs, Alone!Line!Starts
    <3> QED BY <1>1, <2>3, <3>1, <3>2
  <2> QED BY <2>2, <2>3 DEF LineInv
<1>5. ASSUME outcome = "run"
      PROVE  /\ \E p \in Alone!Line!Unset : port = Alone!Line!LastValue("-p", p, Alone!Line!PortOf)
             /\ addr = Alone!Line!LastValue("-a", Alone!Line!None, LAMBDA w : w)
             /\ ifname = Alone!Line!LastValue("-i", Alone!Line!None, LAMBDA w : w)
             /\ port \in Alone!Line!PortNumber
  <2>1. ReadUpto(Alone!Line!Stop)
    BY <1>3, <1>5 DEF LineInv
  <2>2. /\ \E p \in Alone!Line!Unset : port = Alone!Line!LastValue("-p", p, Alone!Line!PortOf)
        /\ addr = Alone!Line!LastValue("-a", Alone!Line!None, LAMBDA w : w)
        /\ ifname = Alone!Line!LastValue("-i", Alone!Line!None, LAMBDA w : w)
    BY <2>1 DEF ReadUpto, Alone!Line!LastValue, Upto
  <2>3. port \in Alone!Line!PortNumber
    BY DEF LineInv
  <2> QED BY <2>2, <2>3
<1> QED BY <1>4, <1>5 DEF Alone!Line!LineObeyed

(* The programs run with what their command lines say, or not at all, with  *)
(* as many words as there are.                                              *)
THEOREM LineRead == Spec => []LineObeyed
<1>1. Init => LineInv
  BY AloneBegins, LineInitial
<1>2. LineInv /\ [Next]_vars => LineInv'
  BY AloneSteps, LineNext
<1>3. LineInv => LineObeyed
  BY LineRight DEF LineObeyed
<1> QED BY <1>1, <1>2, <1>3, PTL DEF Spec

-----------------------------------------------------------------------------
(* ex2.4.c.  After co whole rounds a square is left that has Side to a      *)
(* side; the sides of a round that are written never make more than it, and *)
(* so no number is beyond N * N.                                            *)

Side == size - 2 * co

(* The numbers written in this round.                                       *)
InRound ==
  CASE status = 0 -> 0
    [] status = 1 -> IF co = 0 THEN Side ELSE Side - 1
    [] status = 2 -> IF co = 0 THEN 2 * Side - 2 ELSE 2 * Side - 1
    [] OTHER -> 3 * Side - 3

SnailInv ==
  /\ Alone!Snail!TypeOK
  /\ turn = 4 * co + status /\ (status = 0 => counter = 0)
  /\ next = size * size - Side * Side + 1 + InRound

LEMMA Squares ==
  /\ \A x \in Int : x >= 1 => x <= x * x
  /\ \A x \in Int : x >= 2 => 2 * x - 1 <= x * x /\ 3 * x - 3 <= x * x
  /\ \A x \in Int : (x - 2) * (x - 2) = x * x - (4 * x - 4)
  /\ \A x \in Int : x * x >= 0 /\ x * x \in Int
<1>1. \A x \in Int : x * x >= 0 /\ x * x \in Int /\ (x - 1) * (x - 1) = x * x - 2 * x + 1
  OBVIOUS
<1>2. \A x \in Int : (x - 2) * (x - 2) = x * x - (4 * x - 4)
  OBVIOUS
<1>3. \A x \in Int : x >= 1 => x <= x * x
  OBVIOUS
<1>4. ASSUME NEW x \in Int, x >= 2 PROVE 2 * x - 1 <= x * x /\ 3 * x - 3 <= x * x
  <2>1. x * x >= 2 * x
    BY <1>4
  <2>2. (x - 2) * (x - 2) >= x - 2 - 1
    <3>1. CASE x = 2
      BY <3>1
    <3>2. CASE x # 2
      <4>1. x - 2 \in Int /\ x - 2 >= 1
        BY <1>4, <3>2
      <4> QED BY <1>3, <4>1
    <3> QED BY <3>1, <3>2
  <2>3. x * x \in Int /\ (x - 2) * (x - 2) = x * x - (4 * x - 4)
    BY <1>1, <1>2
  <2> QED BY <1>4, <2>1, <2>2, <2>3
<1> QED BY <1>1, <1>2, <1>3, <1>4

LEMMA SnailInitial == Alone!Snail!Init => SnailInv
<1> SUFFICES ASSUME Alone!Snail!Init PROVE SnailInv
  OBVIOUS
<1>1. size \in Nat /\ size >= 1 /\ size \in Sizes
  BY SequentialAssumed DEF Alone!Snail!Init, Alone!Snail!SpiralAssumption
<1>2. size * size \in Nat /\ size * size >= 1
  BY <1>1, Squares
<1>3. Alone!Snail!TypeOK
  BY <1>1, <1>2 DEF Alone!Snail!Init, Alone!Snail!TypeOK
<1>4. Side = size
  BY <1>1 DEF Alone!Snail!Init, Side
<1> QED BY <1>1, <1>2, <1>3, <1>4 DEF Alone!Snail!Init, SnailInv, InRound

(* Numbers that go on from a and do not pass N * N.                         *)
LEMMA FilledTyped ==
  ASSUME size \in Nat, next \in Nat, m \in [Alone!Snail!Cell -> 0..(size * size)],
         NEW n \in Nat, next + n <= size * size + 1,
         NEW line, DOMAIN line = 0..(n - 1)
  PROVE  /\ Alone!Snail!Filled(line) \in [Alone!Snail!Cell -> 0..(size * size)]
         /\ \A number, cell : Alone!Snail!Completed(Alone!Snail!Filled(line), number, cell) \in
              [Alone!Snail!Cell -> 0..(size * size)]
<1>1. size * size \in Nat
  BY Squares
<1>2. ASSUME NEW c \in Alone!Snail!Cell PROVE Alone!Snail!Filled(line)[c] \in 0..(size * size)
  <2>1. CASE \E i \in DOMAIN line : c = line[i]
    <3> DEFINE j == CHOOSE i \in DOMAIN line : c = line[i]
    <3>1. j \in 0..(n - 1)
      BY <2>1
    <3>2. Alone!Snail!Filled(line)[c] = next + j
      BY <2>1 DEF Alone!Snail!Filled
    <3> HIDE DEF j
    <3>3. j \in Nat /\ j <= n - 1
      BY <3>1
    <3> QED BY <1>1, <3>2, <3>3
  <2>2. CASE ~ \E i \in DOMAIN line : c = line[i]
    BY <2>2 DEF Alone!Snail!Filled
  <2> QED BY <2>1, <2>2
<1>3. Alone!Snail!Filled(line) \in [Alone!Snail!Cell -> 0..(size * size)]
  BY <1>2 DEF Alone!Snail!Filled
<1> HIDE DEF Alone!Snail!Filled
<1>4. size * size \in 0..(size * size)
  BY <1>1
<1> QED BY <1>3, <1>4 DEF Alone!Snail!Completed

(* Where the square left has a side of s, and the round so far k numbers,   *)
(* n more are no more than there is room for.                               *)
LEMMA RoundFits ==
  ASSUME SnailInv, turn < 2 * size - 1
  PROVE  /\ size \in Nat /\ size >= 1 /\ size * size \in Nat /\ co \in Nat /\ Side \in Nat
              /\ Side >= 1
         /\ Side * Side \in Nat /\ next \in Nat /\ size = Side + 2 * co
         /\ status \in {1, 2, 3} => Side >= 2
         /\ status = 3 => Side >= 3
<1>1. size \in Nat /\ size >= 1 /\ co \in Nat /\ status \in 0..3 /\ turn = 4 * co + status
  BY SequentialAssumed DEF SnailInv, Alone!Snail!TypeOK, Alone!Snail!SpiralAssumption
<1>2. 4 * co + status < 2 * size - 1 /\ Side = size - 2 * co
  BY <1>1 DEF Side
<1>3. Side \in Nat /\ Side >= 1 /\ size = Side + 2 * co
  BY <1>1, <1>2
<1>4. /\ status \in {1, 2, 3} => Side >= 2
      /\ status = 3 => Side >= 3
  BY <1>1, <1>2, <1>3
<1>5. size * size \in Nat /\ Side * Side \in Nat
  BY <1>1, <1>3, Squares
<1>6. next \in Nat
  BY <1>5 DEF SnailInv, Alone!Snail!TypeOK
<1> QED BY <1>1, <1>3, <1>4, <1>5, <1>6

LEMMA TopKept == ASSUME SnailInv, Alone!Snail!Top PROVE SnailInv'
<1> DEFINE n == IF co = 0 THEN size ELSE Alone!Snail!Rounds(size - 2 * co - 1)
           row == [i \in 0..(n - 1) |-> <<counter + co, co + i>>]
<1>1. /\ turn < 2 * size - 1 /\ status = 0 /\ turn' = turn + 1 /\ status' = 1
           /\ UNCHANGED <<size, co>>
      /\ m' = (IF size % 2 = 1
           THEN Alone!Snail!Completed(Alone!Snail!Filled(row), next, <<size \div 2, size \div 2>>)
               ELSE Alone!Snail!Filled(row))
      /\ next' = next + n /\ counter' = (IF n = 0 THEN counter ELSE size) - 1
  BY DEF Alone!Snail!Top, Alone!Snail!Turn
<1>2. /\ size \in Nat /\ size >= 1 /\ size * size \in Nat /\ co \in Nat /\ Side \in Nat /\ Side >= 1
      /\ Side * Side \in Nat /\ next \in Nat /\ size = Side + 2 * co
  BY <1>1, RoundFits
<1>3. n = (IF co = 0 THEN Side ELSE Side - 1) /\ n \in Nat
  BY <1>2 DEF Alone!Snail!Rounds
<1>4. DOMAIN row = 0..(n - 1)
  OBVIOUS
<1> HIDE DEF n, row
<1>5. next = size * size - Side * Side + 1
  BY <1>1, <1>2 DEF SnailInv, InRound
<1>6. next + n <= size * size + 1
  <2>1. Side <= Side * Side
    BY <1>2, Squares
  <2> QED BY <1>2, <1>3, <1>5, <2>1
<1>7. m' \in [Alone!Snail!Cell' -> 0..(size' * size')]
  <2>1. m \in [Alone!Snail!Cell -> 0..(size * size)] /\ Alone!Snail!Cell' = Alone!Snail!Cell
    BY <1>1 DEF SnailInv, Alone!Snail!TypeOK, Alone!Snail!Cell
  <2>2. m' \in [Alone!Snail!Cell -> 0..(size * size)]
    BY <1>1, <1>2, <1>3, <1>4, <1>6, <2>1, FilledTyped
  <2> QED BY <1>1, <2>1, <2>2
<1>8. turn' \in 0..(2 * size - 1) /\ next' \in 1..(size * size + 1) /\ counter' \in -1..size
  <2>1. turn \in Nat /\ counter = 0 /\ next \in 1..(size * size + 1)
    BY <1>1, <1>2 DEF SnailInv, Alone!Snail!TypeOK
  <2> QED BY <1>1, <1>2, <1>3, <1>6, <2>1
<1>9. Alone!Snail!TypeOK'
  BY <1>1, <1>7, <1>8 DEF SnailInv, Alone!Snail!TypeOK
<1>10. next' = size' * size' - Side' * Side' + 1 + InRound'
  <2>1. Side' = Side /\ InRound' = n
    BY <1>1, <1>3 DEF Side, InRound
  <2> QED BY <1>1, <1>2, <1>3, <1>5, <2>1
<1>11. turn' = 4 * co' + status'
  BY <1>1, <1>2 DEF SnailInv
<1> QED BY <1>1, <1>9, <1>10, <1>11 DEF SnailInv

LEMMA RightKept == ASSUME SnailInv, Alone!Snail!Right PROVE SnailInv'
<1> DEFINE first == IF co = 0 THEN 1 ELSE co
           n == Alone!Snail!Rounds(size - 2 * first)
           column == [i \in 0..(n - 1) |-> <<first + i, counter - co>>]
<1>1. /\ turn < 2 * size - 1 /\ status = 1 /\ turn' = turn + 1 /\ status' = 2
           /\ UNCHANGED <<size, co, counter>>
      /\ m' = (IF size % 2 = 0
           THEN Alone!Snail!Completed(Alone!Snail!Filled(column), next + n, <<size \div 2,
               size \div 2 - 1>>) ELSE Alone!Snail!Filled(column))
      /\ next' = next + n
  BY DEF Alone!Snail!Right, Alone!Snail!Turn
<1>2. /\ size \in Nat /\ size >= 1 /\ size * size \in Nat /\ co \in Nat /\ Side \in Nat /\ Side >= 2
      /\ Side * Side \in Nat /\ next \in Nat /\ size = Side + 2 * co
  BY <1>1, RoundFits
<1>3. n = (IF co = 0 THEN Side - 2 ELSE Side) /\ n \in Nat
  BY <1>2 DEF Alone!Snail!Rounds
<1>4. DOMAIN column = 0..(n - 1)
  OBVIOUS
<1> HIDE DEF n, column
<1>5. next = size * size - Side * Side + 1 + (IF co = 0 THEN Side ELSE Side - 1)
  BY <1>1, <1>2 DEF SnailInv, InRound
<1>6. next + n <= size * size + 1
  <2>1. 2 * Side - 1 <= Side * Side
    BY <1>2, Squares
  <2> QED BY <1>2, <1>3, <1>5, <2>1
<1>7. m' \in [Alone!Snail!Cell' -> 0..(size' * size')]
  <2>1. m \in [Alone!Snail!Cell -> 0..(size * size)] /\ Alone!Snail!Cell' = Alone!Snail!Cell
    BY <1>1 DEF SnailInv, Alone!Snail!TypeOK, Alone!Snail!Cell
  <2>2. m' \in [Alone!Snail!Cell -> 0..(size * size)]
    BY <1>1, <1>2, <1>3, <1>4, <1>6, <2>1, FilledTyped
  <2> QED BY <1>1, <2>1, <2>2
<1>8. turn' \in 0..(2 * size - 1) /\ next' \in 1..(size * size + 1)
  <2>1. turn \in Nat /\ next \in 1..(size * size + 1)
    BY <1>1, <1>2 DEF SnailInv, Alone!Snail!TypeOK
  <2> QED BY <1>1, <1>2, <1>3, <1>6, <2>1
<1>9. Alone!Snail!TypeOK'
  BY <1>1, <1>7, <1>8 DEF SnailInv, Alone!Snail!TypeOK
<1>10. next' = size' * size' - Side' * Side' + 1 + InRound'
  <2>1. Side' = Side /\ InRound' = IF co = 0 THEN 2 * Side - 2 ELSE 2 * Side - 1
    BY <1>1 DEF Side, InRound
  <2> QED BY <1>1, <1>2, <1>3, <1>5, <2>1
<1>11. turn' = 4 * co' + status'
  BY <1>1, <1>2 DEF SnailInv
<1> QED BY <1>1, <1>9, <1>10, <1>11 DEF SnailInv

LEMMA BottomKept == ASSUME SnailInv, Alone!Snail!Bottom PROVE SnailInv'
<1> DEFINE first == IF co = 0 THEN size - 1 ELSE size - co - 2
           n == Alone!Snail!Rounds(first - co)
           row == [i \in 0..(n - 1) |-> <<counter - co, first - i>>]
<1>1. /\ turn < 2 * size - 1 /\ status = 2 /\ turn' = turn + 1 /\ status' = 3
           /\ UNCHANGED <<size, co>>
      /\ m' = Alone!Snail!Filled(row) /\ next' = next + n /\ counter' = 0
  BY DEF Alone!Snail!Bottom, Alone!Snail!Turn
<1>2. /\ size \in Nat /\ size >= 1 /\ size * size \in Nat /\ co \in Nat /\ Side \in Nat /\ Side >= 2
      /\ Side * Side \in Nat /\ next \in Nat /\ size = Side + 2 * co
  BY <1>1, RoundFits
<1>3. n = (IF co = 0 THEN Side - 1 ELSE Side - 2) /\ n \in Nat
  BY <1>2 DEF Alone!Snail!Rounds
<1>4. DOMAIN row = 0..(n - 1)
  OBVIOUS
<1> HIDE DEF n, row
<1>5. next = size * size - Side * Side + 1 + (IF co = 0 THEN 2 * Side - 2 ELSE 2 * Side - 1)
  BY <1>1, <1>2 DEF SnailInv, InRound
<1>6. next + n <= size * size + 1
  <2>1. 3 * Side - 3 <= Side * Side
    BY <1>2, Squares
  <2> QED BY <1>2, <1>3, <1>5, <2>1
<1>7. m' \in [Alone!Snail!Cell' -> 0..(size' * size')]
  <2>1. m \in [Alone!Snail!Cell -> 0..(size * size)] /\ Alone!Snail!Cell' = Alone!Snail!Cell
    BY <1>1 DEF SnailInv, Alone!Snail!TypeOK, Alone!Snail!Cell
  <2>2. m' \in [Alone!Snail!Cell -> 0..(size * size)]
    BY <1>1, <1>2, <1>3, <1>4, <1>6, <2>1, FilledTyped
  <2> QED BY <1>1, <2>1, <2>2
<1>8. turn' \in 0..(2 * size - 1) /\ next' \in 1..(size * size + 1) /\ counter' \in -1..size
  <2>1. turn \in Nat /\ next \in 1..(size * size + 1)
    BY <1>1, <1>2 DEF SnailInv, Alone!Snail!TypeOK
  <2> QED BY <1>1, <1>2, <1>3, <1>6, <2>1
<1>9. Alone!Snail!TypeOK'
  BY <1>1, <1>7, <1>8 DEF SnailInv, Alone!Snail!TypeOK
<1>10. next' = size' * size' - Side' * Side' + 1 + InRound'
  <2>1. Side' = Side /\ InRound' = 3 * Side - 3
    BY <1>1 DEF Side, InRound
  <2> QED BY <1>1, <1>2, <1>3, <1>5, <2>1
<1>11. turn' = 4 * co' + status'
  BY <1>1, <1>2 DEF SnailInv
<1> QED BY <1>1, <1>9, <1>10, <1>11 DEF SnailInv

LEMMA LeftKept == ASSUME SnailInv, Alone!Snail!Left PROVE SnailInv'
<1> DEFINE n == Alone!Snail!Rounds(size - 1 - 2 * co)
           column == [i \in 0..(n - 1) |-> <<size - 1 - co - i, counter + co>>]
<1>1. /\ turn < 2 * size - 1 /\ status = 3 /\ turn' = turn + 1 /\ status' = 0 /\ UNCHANGED size
      /\ m' = Alone!Snail!Filled(column) /\ next' = next + n /\ counter' = 0 /\ co' = co + 1
  BY DEF Alone!Snail!Left, Alone!Snail!Turn
<1>2. /\ size \in Nat /\ size >= 1 /\ size * size \in Nat /\ co \in Nat /\ Side \in Nat /\ Side >= 3
      /\ Side * Side \in Nat /\ next \in Nat /\ size = Side + 2 * co
  BY <1>1, RoundFits
<1>3. n = Side - 1 /\ n \in Nat
  BY <1>2 DEF Alone!Snail!Rounds
<1>4. DOMAIN column = 0..(n - 1)
  OBVIOUS
<1> HIDE DEF n, column
<1>5. next = size * size - Side * Side + 1 + (3 * Side - 3)
  BY <1>1, <1>2 DEF SnailInv, InRound
<1>6. (Side - 2) * (Side - 2) = Side * Side - (4 * Side - 4) /\ (Side - 2) * (Side - 2) \in Nat
  BY <1>2, Squares
<1>7. next + n <= size * size + 1
  BY <1>2, <1>3, <1>5, <1>6
<1>8. m' \in [Alone!Snail!Cell' -> 0..(size' * size')]
  <2>1. m \in [Alone!Snail!Cell -> 0..(size * size)] /\ Alone!Snail!Cell' = Alone!Snail!Cell
    BY <1>1 DEF SnailInv, Alone!Snail!TypeOK, Alone!Snail!Cell
  <2>2. m' \in [Alone!Snail!Cell -> 0..(size * size)]
    BY <1>1, <1>2, <1>3, <1>4, <1>7, <2>1, FilledTyped
  <2> QED BY <1>1, <2>1, <2>2
<1>9. turn' \in 0..(2 * size - 1) /\ next' \in 1..(size * size + 1) /\ counter' \in -1..size
      /\ co' \in 0..size
  <2>1. turn \in Nat /\ next \in 1..(size * size + 1)
    BY <1>1, <1>2 DEF SnailInv, Alone!Snail!TypeOK
  <2> QED BY <1>1, <1>2, <1>3, <1>7, <2>1
<1>10. Alone!Snail!TypeOK'
  BY <1>1, <1>8, <1>9 DEF SnailInv, Alone!Snail!TypeOK
<1>11. next' = size' * size' - Side' * Side' + 1 + InRound'
  <2>1. Side' = Side - 2 /\ InRound' = 0
    BY <1>1, <1>2 DEF Side, InRound
  <2>2. Side' * Side' = Side * Side - (4 * Side - 4)
    BY <1>6, <2>1
  <2> QED BY <1>1, <1>2, <1>3, <1>5, <2>1, <2>2
<1>12. turn' = 4 * co' + status'
  BY <1>1, <1>2 DEF SnailInv
<1> QED BY <1>1, <1>10, <1>11, <1>12 DEF SnailInv

LEMMA SnailNext == SnailInv /\ [Alone!Snail!Next]_(Alone!Snail!vars) => SnailInv'
<1> SUFFICES ASSUME SnailInv, [Alone!Snail!Next]_(Alone!Snail!vars) PROVE SnailInv'
  OBVIOUS
<1>1. CASE UNCHANGED Alone!Snail!vars
  BY <1>1 DEF Alone!Snail!vars, SnailInv, Alone!Snail!TypeOK, Side, InRound, Alone!Snail!Cell
<1> QED BY <1>1, TopKept, RightKept, BottomKept, LeftKept DEF Alone!Snail!Next

-----------------------------------------------------------------------------
(* The way of ex2.4.c along its square.                                     *)

(* Straight on from r for who comes from q, and to the right; and the way   *)
(* of who goes straight on wherever a cell of the set is there.             *)
On(q, r)        == <<2 * r[1] - q[1], 2 * r[2] - q[2]>>
Turned(q, r)    == <<r[1] + (r[2] - q[2]), r[2] - (r[1] - q[1])>>
GoesTo(q, r, S) == IF On(q, r) \in S THEN On(q, r) ELSE Turned(q, r)

(* The cells of square sq that are free when v has been written.            *)
Above(sq, v) == {c \in Alone!Snail!Cell : sq[c] = 0 \/ sq[c] > v}

(* The numbers 1 to l are in sq, each at its place, and no other.           *)
Numbered(sq, place, l) ==
  /\ place \in [1..l -> Alone!Snail!Cell] /\ \A v \in 1..l : sq[place[v]] = v
  /\ \A c \in Alone!Snail!Cell : sq[c] # 0 => sq[c] \in 1..l /\ place[sq[c]] = c

(* The places are along the spiral.                                         *)
Winds(sq, place, l) ==
  /\ l > 0 => place[1] = <<0, 0>>
  /\ l > 1 => place[2] = <<0, 1>>
  /\ \A v \in 2..(l - 1) : place[v + 1] = GoesTo(place[v - 1], place[v], Above(sq, v))

(* The n cells of line, from line[0] on, get the numbers after l.           *)
Writes(sq, new, l, n, line) ==
  /\ line \in [0..(n - 1) -> Alone!Snail!Cell]
  /\ \A i, j \in 0..(n - 1) : line[i] = line[j] => i = j
  /\ \A i \in 0..(n - 1) : sq[line[i]] = 0 /\ new[line[i]] = l + 1 + i
  /\ \A c \in Alone!Snail!Cell : (\A i \in 0..(n - 1) : c # line[i]) => new[c] = sq[c]

Longer(place, l, n, line) == [v \in 1..(l + n) |-> IF v <= l THEN place[v] ELSE line[v - l - 1]]

(* What is written leaves the places as they were and adds those of line.   *)
LEMMA NumberedOn ==
  ASSUME NEW l \in Nat, NEW n \in Nat, NEW sq, NEW new, NEW place, NEW line,
         Numbered(sq, place, l), Writes(sq, new, l, n, line)
  PROVE  Numbered(new, Longer(place, l, n, line), l + n)
<1> DEFINE p == Longer(place, l, n, line)
<1>1. \A v \in 1..(l + n) : v > l => v - l - 1 \in 0..(n - 1)
  OBVIOUS
<1>2. \A v \in 1..(l + n) : IF v <= l THEN p[v] = place[v] ELSE p[v] = line[v - l - 1]
  BY DEF Longer
<1>3. p \in [1..(l + n) -> Alone!Snail!Cell]
  BY <1>1 DEF Longer, Numbered, Writes
<1> HIDE DEF p
<1>4. ASSUME NEW v \in 1..(l + n) PROVE new[p[v]] = v
  <2>1. CASE v <= l
    <3>1. v \in 1..l /\ p[v] = place[v] /\ sq[place[v]] = v /\ place[v] \in Alone!Snail!Cell
      BY <1>2, <2>1 DEF Numbered
    <3>2. \A i \in 0..(n - 1) : place[v] # line[i]
      BY <3>1 DEF Writes
    <3> QED BY <3>1, <3>2 DEF Writes
  <2>2. CASE v > l
    <3>1. v - l - 1 \in 0..(n - 1) /\ p[v] = line[v - l - 1]
      BY <1>1, <1>2, <2>2
    <3>2. new[line[v - l - 1]] = l + 1 + (v - l - 1)
      BY <3>1 DEF Writes
    <3> QED BY <3>1, <3>2
  <2> QED BY <2>1, <2>2
<1>5. ASSUME NEW c \in Alone!Snail!Cell, new[c] # 0
      PROVE  new[c] \in 1..(l + n) /\ p[new[c]] = c
  <2>1. CASE \E i \in 0..(n - 1) : c = line[i]
    <3>1. PICK i \in 0..(n - 1) : c = line[i]
      BY <2>1
    <3>2. new[c] = l + 1 + i /\ l + 1 + i \in 1..(l + n) /\ ~(l + 1 + i <= l)
      BY <3>1 DEF Writes
    <3>3. (l + 1 + i) - l - 1 = i
      OBVIOUS
    <3> QED BY <1>2, <3>1, <3>2, <3>3
  <2>2. CASE ~ \E i \in 0..(n - 1) : c = line[i]
    <3>1. new[c] = sq[c] /\ sq[c] \in 1..l /\ place[sq[c]] = c
      BY <1>5, <2>2 DEF Writes, Numbered
    <3> QED BY <1>2, <3>1
  <2> QED BY <2>1, <2>2
<1> QED BY <1>3, <1>4, <1>5 DEF Numbered, p

(* What was free at a number before the line is so after it, and at the     *)
(* first of the line all that was free but its cell.                        *)
LEMMA AboveOn ==
  ASSUME NEW l \in Nat, NEW n \in Nat, NEW sq, NEW new, NEW place, NEW line,
         Numbered(sq, place, l), Writes(sq, new, l, n, line)
  PROVE  /\ \A v \in 1..l : Above(new, v) = Above(sq, v)
         /\ n > 0 => Above(new, l + 1) = Above(sq, l) \ {line[0]}
<1>1. ASSUME NEW c \in Alone!Snail!Cell
      PROVE  \/ \E i \in 0..(n - 1) : c = line[i] /\ sq[c] = 0 /\ new[c] = l + 1 + i
             \/ /\ \A i \in 0..(n - 1) : c # line[i]
                /\ new[c] = sq[c] /\ sq[c] \in 0..l
  BY <1>1 DEF Writes, Numbered
<1>2. ASSUME NEW v \in 1..l, NEW c \in Alone!Snail!Cell
      PROVE  (new[c] = 0 \/ new[c] > v) <=> (sq[c] = 0 \/ sq[c] > v)
  BY <1>1
<1>3. ASSUME n > 0, NEW c \in Alone!Snail!Cell
      PROVE  (new[c] = 0 \/ new[c] > l + 1) <=> (sq[c] = 0 \/ sq[c] > l) /\ c # line[0]
  <2>1. 0 \in 0..(n - 1) /\ new[line[0]] = l + 1
    BY <1>3 DEF Writes
  <2>2. \A i \in 0..(n - 1) : c = line[i] /\ c # line[0] => new[c] > l + 1
    BY DEF Writes
  <2> QED BY <1>1, <2>1, <2>2
<1> QED BY <1>2, <1>3 DEF Above

(* The way to the line and along it is the spiral's.                        *)
LeadsOn(sq, place, l, n, line) ==
  /\ IF l = 0
       THEN (n > 0 => line[0] = <<0, 0>>) /\ (n > 1 => line[1] = <<0, 1>>)
       ELSE /\ l > 1
            /\ n > 0 => line[0] = GoesTo(place[l - 1], place[l], Above(sq, l))
            /\ n > 1 => line[1] = GoesTo(place[l], line[0], Above(sq, l) \ {line[0]})
  /\ \A i \in 2..(n - 1) : line[i] = On(line[i - 2], line[i - 1])

(* A line that leads on keeps the numbers on the spiral.                    *)
LEMMA WindsOn ==
  ASSUME NEW l \in Nat, NEW n \in Nat, NEW sq, NEW new, NEW place, NEW line,
         Numbered(sq, place, l), Writes(sq, new, l, n, line),
         Winds(sq, place, l), LeadsOn(sq, place, l, n, line)
  PROVE  Winds(new, Longer(place, l, n, line), l + n)
<1> DEFINE p == Longer(place, l, n, line)
<1>1. \A v \in 1..(l + n) : IF v <= l THEN p[v] = place[v] ELSE p[v] = line[v - l - 1]
  BY DEF Longer
<1>2. (\A v \in 1..l : p[v] = place[v]) /\ (n > 0 => p[l + 1] = line[0])
      /\ (n > 1 => p[l + 2] = line[1])
  BY <1>1
<1> HIDE DEF p
<1>3. l + n > 0 => p[1] = <<0, 0>>
  BY <1>2 DEF LeadsOn, Winds
<1>4. l + n > 1 => p[2] = <<0, 1>>
  BY <1>2 DEF LeadsOn, Winds
<1>5. ASSUME NEW v \in 2..(l + n - 1)
      PROVE  p[v + 1] = GoesTo(p[v - 1], p[v], Above(new, v))
  <2>1. CASE v < l
    <3>1. p[v - 1] = place[v - 1] /\ p[v] = place[v] /\ p[v + 1] = place[v + 1]
      BY <1>2, <2>1
    <3>2. v \in 1..l /\ v \in 2..(l - 1)
      BY <2>1
    <3>3. Above(new, v) = Above(sq, v)
      BY <3>2, AboveOn
    <3> QED BY <3>1, <3>2, <3>3 DEF Winds
  <2>2. CASE v = l
    <3>1. p[l - 1] = place[l - 1] /\ p[l] = place[l] /\ p[l + 1] = line[0] /\ n > 0 /\ l # 0
      BY <1>2, <2>2
    <3>2. Above(new, l) = Above(sq, l)
      BY <2>2, AboveOn
    <3> QED BY <2>2, <3>1, <3>2 DEF LeadsOn
  <2>3. CASE v = l + 1
    <3>1. p[l] = place[l] /\ p[l + 1] = line[0] /\ p[l + 2] = line[1] /\ n > 1 /\ l # 0
      BY <1>2, <2>3
    <3>2. Above(new, l + 1) = Above(sq, l) \ {line[0]}
      BY <3>1, AboveOn
    <3>3. v - 1 = l /\ v + 1 = l + 2
      BY <2>3
    <3> QED BY <2>3, <3>1, <3>2, <3>3 DEF LeadsOn
  <2>4. CASE v > l + 1
    <3> DEFINE i == v - l
    <3>1. i \in 2..(n - 1) /\ i \in 0..(n - 1) /\ v = l + i
      BY <2>4
    <3>2. p[v + 1] = line[i] /\ p[v] = line[i - 1] /\ p[v - 1] = line[i - 2]
      <4>1. v + 1 \in 1..(l + n) /\ v - 1 \in 1..(l + n) /\ v + 1 > l /\ v - 1 > l
        BY <2>4
      <4>2. (v + 1) - l - 1 = i /\ v - l - 1 = i - 1 /\ (v - 1) - l - 1 = i - 2
        OBVIOUS
      <4> QED BY <1>1, <2>4, <4>1, <4>2
    <3>3. line[i] \in Above(new, v)
      <4>1. line[i] \in Alone!Snail!Cell /\ new[line[i]] = l + 1 + i
        BY <3>1 DEF Writes
      <4> QED BY <3>1, <4>1 DEF Above
    <3>4. line[i] = On(line[i - 2], line[i - 1])
      BY <3>1 DEF LeadsOn
    <3> QED BY <3>2, <3>3, <3>4 DEF GoesTo
  <2> QED BY <2>1, <2>2, <2>3, <2>4
<1> QED BY <1>3, <1>4, <1>5 DEF Winds, p

(* What the loops of a side write is a line, and so is the last number.     *)
LEMMA FilledWrites ==
  ASSUME NEW l \in Nat, next = l + 1, NEW n \in Nat, NEW line \in [0..(n - 1) -> Alone!Snail!Cell],
         \A i, j \in 0..(n - 1) : line[i] = line[j] => i = j,
         \A i \in 0..(n - 1) : m[line[i]] = 0
  PROVE  Writes(m, Alone!Snail!Filled(line), l, n, line)
<1>1. ASSUME NEW i \in 0..(n - 1) PROVE Alone!Snail!Filled(line)[line[i]] = l + 1 + i
  <2>1. (CHOOSE j \in 0..(n - 1) : line[i] = line[j]) = i
    OBVIOUS
  <2>2. line[i] \in Alone!Snail!Cell
    OBVIOUS
  <2> QED BY <2>1, <2>2 DEF Alone!Snail!Filled
<1>2. \A c \in Alone!Snail!Cell :
        (\A i \in 0..(n - 1) : c # line[i]) => Alone!Snail!Filled(line)[c] = m[c]
  BY DEF Alone!Snail!Filled
<1> QED BY <1>1, <1>2 DEF Writes

LEMMA LastWrites ==
  ASSUME NEW l \in Nat, NEW sq, DOMAIN sq = Alone!Snail!Cell,
         NEW cell \in Alone!Snail!Cell, sq[cell] = 0
  PROVE  Writes(sq, [sq EXCEPT ![cell] = l + 1], l, 1, [i \in 0..0 |-> cell])
BY DEF Writes

(* The property counts with its own copy of the operator.                   *)
LEMMA SnailSets ==
  \A A : Alone!Snail!Cardinality(A) = Cardinality(A)
BY DEF Alone!Snail!Cardinality, Cardinality, Alone!Snail!IsFiniteSet, IsFiniteSet

(* A square numbered along the way is as the property asks.                 *)
LEMMA Followed ==
  ASSUME NEW l \in Nat, NEW place, Numbered(m, place, l), Winds(m, place, l),
         turn = 2 * size - 1 /\ size # 2 => l = size * size
  PROVE  Alone!Snail!SpiralFollowed
<1> DEFINE W == Alone!Snail!Written
<1>1. W = {place[v] : v \in 1..l} /\ {m[c] : c \in W} = 1..l
  BY DEF Alone!Snail!Written, Numbered
<1>2. Cardinality(W) = l
  <2>1. IsFiniteSet(1..l) /\ Cardinality(1..l) = l
    BY FS_Interval
  <2>2. place \in Surjection(1..l, W) /\ place \in Injection(1..l, W)
    <3>1. \A v, w \in 1..l : place[v] = place[w] => v = w
      BY DEF Numbered
    <3>2. place \in [1..l -> W] /\ \A c \in W : \E v \in 1..l : place[v] = c
      BY <1>1 DEF Numbered
    <3> HIDE DEF W
    <3> QED BY <3>1, <3>2 DEF Surjection, Injection, IsInjective
  <2> QED BY <2>1, <2>2, FS_Surjection
<1>3. ASSUME NEW v \in 1..l PROVE Alone!Snail!Place(v) = place[v]
  <2>1. place[v] \in W /\ m[place[v]] = v /\ \A c \in W : m[c] = v => c = place[v]
    BY DEF Numbered, Alone!Snail!Written
  <2> QED BY <2>1 DEF Alone!Snail!Place
<1>4. ASSUME NEW v \in 1..(l - 1)
      PROVE  Alone!Snail!Way(v) = <<place[v + 1][1] - place[v][1], place[v + 1][2] - place[v][2]>>
  BY <1>3 DEF Alone!Snail!Way
<1>5. \A v \in 1..l : place[v] \in Int \X Int
  BY SequentialAssumed DEF Numbered, Alone!Snail!Cell
<1>6. ASSUME NEW v \in 2..(l - 1)
      PROVE  Alone!Snail!Way(v) =
               IF Alone!Snail!StraightOn(v) \in Alone!Snail!FreeAfter(v)
                 THEN Alone!Snail!Way(v - 1) ELSE Alone!Snail!RightOf(Alone!Snail!Way(v - 1))
  <2>1. v - 1 \in 1..(l - 1) /\ v \in 1..(l - 1) /\ v + 1 \in 1..l /\ v - 1 \in 1..l /\ v \in 1..l
        /\ (v - 1) + 1 = v
    OBVIOUS
  <2> DEFINE q == place[v - 1]
             r == place[v]
             s == place[v + 1]
  <2>2. q \in Int \X Int /\ r \in Int \X Int /\ s \in Int \X Int
    BY <1>5, <2>1
  <2>3. /\ Alone!Snail!Way(v) = <<s[1] - r[1], s[2] - r[2]>>
        /\ Alone!Snail!Way(v - 1) = <<r[1] - q[1], r[2] - q[2]>>
    BY <1>4, <2>1
  <2>4. Alone!Snail!StraightOn(v) = On(q, r)
    <3>1. Alone!Snail!StraightOn(v) = <<r[1] + (r[1] - q[1]), r[2] + (r[2] - q[2])>>
      BY <1>3, <2>1, <2>3 DEF Alone!Snail!StraightOn
    <3> HIDE DEF q, r
    <3> QED BY <2>2, <3>1 DEF On
  <2>5. Alone!Snail!FreeAfter(v) = Above(m, v)
    BY DEF Alone!Snail!FreeAfter, Above
  <2>6. s = GoesTo(q, r, Above(m, v))
    BY DEF Winds
  <2> HIDE DEF q, r, s
  <2>7. CASE On(q, r) \in Above(m, v)
    <3>1. s = <<2 * r[1] - q[1], 2 * r[2] - q[2]>>
      BY <2>6, <2>7 DEF GoesTo, On
    <3>2. s[1] - r[1] = r[1] - q[1] /\ s[2] - r[2] = r[2] - q[2]
      BY <2>2, <3>1
    <3> QED BY <2>3, <2>4, <2>5, <2>7, <3>2
  <2>8. CASE On(q, r) \notin Above(m, v)
    <3>1. s = <<r[1] + (r[2] - q[2]), r[2] - (r[1] - q[1])>>
      BY <2>6, <2>8 DEF GoesTo, Turned
    <3>2. s[1] - r[1] = r[2] - q[2] /\ s[2] - r[2] = -(r[1] - q[1])
      BY <2>2, <3>1
    <3> QED BY <2>3, <2>4, <2>5, <2>8, <3>2 DEF Alone!Snail!RightOf
  <2> QED BY <2>7, <2>8
<1>7. (l > 0 => Alone!Snail!Place(1) = <<0, 0>>) /\ (l > 1 => Alone!Snail!Way(1) = <<0, 1>>)
  <2>1. l > 0 => Alone!Snail!Place(1) = <<0, 0>>
    BY <1>3 DEF Winds
  <2>2. l > 1 => Alone!Snail!Way(1) = <<0, 1>>
    BY <1>4 DEF Winds
  <2> QED BY <2>1, <2>2
<1> HIDE DEF W
<1> QED BY <1>1, <1>2, <1>6, <1>7, SnailSets DEF Alone!Snail!SpiralFollowed, W

(* A line that leads on from the last place makes the places go on.         *)
LEMMA Goes ==
  ASSUME NEW l \in Nat, NEW n \in Nat, NEW sq, NEW new, NEW place, NEW line,
         Numbered(sq, place, l), Winds(sq, place, l),
         Writes(sq, new, l, n, line), LeadsOn(sq, place, l, n, line)
  PROVE  \E p :
           /\ Numbered(new, p, l + n) /\ Winds(new, p, l + n)
           /\ n > 0 => p[l + n] = line[n - 1]
           /\ n > 1 => p[l + n - 1] = line[n - 2]
           /\ l > 0 => p[l] = place[l]
<1> DEFINE p == Longer(place, l, n, line)
<1>1. Numbered(new, p, l + n) /\ Winds(new, p, l + n)
  BY NumberedOn, WindsOn
<1>2. n > 0 => p[l + n] = line[n - 1]
  <2>1. n > 0 => l + n \in 1..(l + n) /\ ~(l + n <= l) /\ (l + n) - l - 1 = n - 1
    OBVIOUS
  <2> QED BY <2>1 DEF Longer
<1>3. n > 1 => p[l + n - 1] = line[n - 2]
  <2>1. n > 1 => l + n - 1 \in 1..(l + n) /\ ~(l + n - 1 <= l) /\ (l + n - 1) - l - 1 = n - 2
    OBVIOUS
  <2> QED BY <2>1 DEF Longer
<1>4. l > 0 => p[l] = place[l]
  <2>1. l > 0 => l \in 1..(l + n) /\ l <= l
    OBVIOUS
  <2> QED BY <2>1 DEF Longer
<1> HIDE DEF p
<1> QED BY <1>1, <1>2, <1>3, <1>4

(* Where who comes to <<i, j>> goes, from the cell <<x, y>> ahead.          *)
LEMMA Heads ==
  ASSUME NEW q \in Int \X Int, NEW i \in Int, NEW j \in Int, NEW x \in Int, NEW y \in Int,
         On(q, <<i, j>>) = <<x, y>>, NEW S
  PROVE  /\ <<x, y>> \in S => GoesTo(q, <<i, j>>, S) = <<x, y>>
         /\ <<x, y>> \notin S => GoesTo(q, <<i, j>>, S) = <<i + (y - j), j - (x - i)>>
<1>1. x = 2 * i - q[1] /\ y = 2 * j - q[2]
  BY DEF On
<1>2. i + (j - q[2]) = i + (y - j) /\ j - (i - q[1]) = j - (x - i)
  BY <1>1
<1> QED BY <1>2 DEF GoesTo, Turned

(* The invariant: the square left after co rounds ends at Edge; how far the *)
(* four sides of the round have come says what is blank and where the last  *)
(* number is, and the numbers written have their places along the spiral.   *)
Edge == size - 1 - co

(* The last number is in its place, which is not that of the loop.          *)
Closing ==
  \/ size % 2 = 1 /\ status = 1 /\ 2 * co = size - 1
  \/ size % 2 = 0 /\ size > 2 /\ status \in {2, 3} /\ 2 * co = size - 2

(* What is not written, otherwise.                                          *)
Blank(c) ==
  /\ co <= c[1] /\ co <= c[2] /\ c[1] <= Edge /\ c[2] <= Edge
  /\ status = 1 => c[1] > co \/ (co > 0 /\ c[2] = Edge)
  /\ status = 2 => c[1] > co /\ (c[2] < Edge \/ (co = 0 /\ c[1] = Edge))
  /\ status = 3 => c[1] > co /\ c[2] < Edge /\ (c[1] < Edge \/ c[2] = co)

(* Where the last number is, and the cell ahead of it.                      *)
Last ==
  CASE status = 0 -> <<co, co - 1>>
    [] status = 1 -> IF co = 0 THEN <<0, Edge>> ELSE <<co, Edge - 1>>
    [] status = 2 -> IF co = 0 THEN <<Edge - 1, Edge>> ELSE <<Edge, Edge>>
    [] OTHER -> <<Edge, co + 1>>

Ahead ==
  CASE status = 0 -> <<co - 1, co - 1>>
    [] status = 1 -> IF co = 0 THEN <<0, size>> ELSE <<co, Edge>>
    [] status = 2 -> IF size = 2 THEN <<0, 2>>
                       ELSE IF co = 0 THEN <<Edge, Edge>> ELSE <<Edge + 1, Edge>>
    [] OTHER -> <<Edge, co>>

Underway(place, l) ==
  /\ l = next - 1
  /\ \A c \in Alone!Snail!Cell : m[c] = 0 <=> Blank(c)
  /\ turn > 0 => l > 1
  /\ (turn > 0 /\ (size = 2 => status # 3)) => place[l] = Last /\ On(place[l - 1], place[l]) = Ahead

Laid(place, l) ==
  /\ Numbered(m, place, l) /\ Winds(m, place, l)
  /\ IF Closing THEN l = size * size ELSE Underway(place, l)

SpiralInv ==
  /\ SnailInv
  /\ Side > 1 /\ status \in {1, 2} => counter = size - 1
  /\ status = 3 => counter = 0
  /\ \E l \in Nat : \E place : Laid(place, l)

(* Nothing is written at first.                                             *)
LEMMA SpiralInitial == Alone!Snail!Init => SpiralInv
<1> SUFFICES ASSUME Alone!Snail!Init PROVE SpiralInv
  OBVIOUS
<1>0. size \in Nat \ {0}
  BY SequentialAssumed DEF Alone!Snail!Init, Alone!Snail!SpiralAssumption
<1>1. SnailInv
  BY SnailInitial
<1>2. \A c \in Alone!Snail!Cell : m[c] = 0 /\ Blank(c)
  BY <1>0 DEF Alone!Snail!Init, Blank, Edge, Alone!Snail!Cell
<1>3. Numbered(m, <<>>, 0) /\ Winds(m, <<>>, 0)
  BY <1>2 DEF Numbered, Winds
<1>4. Laid(<<>>, 0)
  BY <1>0, <1>2, <1>3 DEF Alone!Snail!Init, Laid, Closing, Underway
<1> QED BY <1>1, <1>4 DEF SpiralInv, Alone!Snail!Init

(* At the end all is written.                                               *)
LEMMA SpiralEnds == SpiralInv => Alone!Snail!SpiralFollowed
<1> SUFFICES ASSUME SpiralInv PROVE Alone!Snail!SpiralFollowed
  OBVIOUS
<1>1. PICK l, place : l \in Nat /\ Laid(place, l)
  BY DEF SpiralInv
<1>2. ASSUME turn = 2 * size - 1, size # 2 PROVE l = size * size
  <2>1. size \in Nat \ {0} /\ co \in Nat /\ status \in 0..3 /\ turn = 4 * co + status
    BY SequentialAssumed DEF SpiralInv, SnailInv, Alone!Snail!TypeOK, Alone!Snail!SpiralAssumption
  <2>2. Closing
    BY <1>2, <2>1 DEF Closing
  <2> QED BY <1>1, <2>2 DEF Laid
<1> QED BY <1>1, <1>2, Followed DEF Laid

(* The cells above the last number are those that are blank.                *)
LEMMA Blanks ==
  ASSUME NEW l \in Nat, NEW place, NEW sq, Numbered(sq, place, l)
  PROVE  Above(sq, l) = {c \in Alone!Snail!Cell : sq[c] = 0}
BY DEF Numbered, Above

(* What a step that writes a line needs of the invariant.                   *)
LEMMA Begun ==
  ASSUME SpiralInv, turn < 2 * size - 1, ~Closing
  PROVE  /\ m \in [Alone!Snail!Cell -> Nat] /\ turn = 4 * co + status
         /\ Alone!Snail!Cell \subseteq Int \X Int
         /\ \E l \in Nat : \E place :
              /\ Numbered(m, place, l) /\ Winds(m, place, l) /\ next = l + 1
              /\ \A c \in Alone!Snail!Cell : m[c] = 0 <=> Blank(c)
              /\ Above(m, l) = {c \in Alone!Snail!Cell : Blank(c)}
              /\ turn > 0 => /\ l > 1 /\ place[l] \in Int \X Int /\ place[l - 1] \in Int \X Int
                             /\ place[l] = Last /\ On(place[l - 1], place[l]) = Ahead
<1>1. /\ size \in Nat /\ size >= 1 /\ co \in Nat /\ status \in 0..3 /\ next \in Nat
      /\ turn = 4 * co + status /\ size * size \in Nat
  BY RoundFits DEF SpiralInv, SnailInv, Alone!Snail!TypeOK
<1>2. m \in [Alone!Snail!Cell -> Nat] /\ Alone!Snail!Cell \subseteq Int \X Int
  BY <1>1 DEF SpiralInv, SnailInv, Alone!Snail!TypeOK, Alone!Snail!Cell
<1>3. PICK l, place : l \in Nat /\ Laid(place, l)
  BY DEF SpiralInv
<1>4. Numbered(m, place, l) /\ Winds(m, place, l) /\ Underway(place, l)
  BY <1>3 DEF Laid
<1>5. next = l + 1
  BY <1>1, <1>4 DEF Underway
<1>6. size = 2 => status # 3
  BY <1>1
<1>7. l > 1 => place[l] \in Alone!Snail!Cell /\ place[l - 1] \in Alone!Snail!Cell
  BY <1>3, <1>4 DEF Numbered
<1>8. Above(m, l) = {c \in Alone!Snail!Cell : Blank(c)}
  BY <1>3, <1>4, Blanks DEF Underway
<1> QED BY <1>1, <1>2, <1>3, <1>4, <1>5, <1>6, <1>7, <1>8 DEF Underway

(* The left side, up to the row below the top of the round.                 *)
LEMMA LeftWinds ==
  ASSUME SpiralInv, Alone!Snail!Left
  PROVE  SpiralInv'
<1> DEFINE n == Alone!Snail!Rounds(size - 1 - 2 * co)
           line == [i \in 0..(n - 1) |-> <<size - 1 - co - i, counter + co>>]
<1>1. /\ turn < 2 * size - 1 /\ status = 3 /\ turn' = turn + 1 /\ status' = 0 /\ UNCHANGED size
      /\ m' = Alone!Snail!Filled(line) /\ next' = next + n /\ counter' = 0 /\ co' = co + 1
  BY DEF Alone!Snail!Left, Alone!Snail!Turn
<1>2. SnailInv /\ SnailInv'
  BY LeftKept DEF SpiralInv
<1>3. size \in Nat /\ co \in Nat /\ Side >= 3 /\ size = Side + 2 * co /\ Side \in Nat
  BY <1>1, <1>2, RoundFits
<1>4. n = size - 1 - 2 * co /\ n \in Nat /\ n > 1
  BY <1>3 DEF Alone!Snail!Rounds
<1>5. line = [i \in 0..(n - 1) |-> <<Edge - i, co>>]
  BY <1>1, <1>3 DEF SpiralInv, Edge
<1> HIDE DEF n, line
<1>6. ~Closing
  BY <1>1, <1>3 DEF Closing
<1>7. PICK l, place :
        /\ l \in Nat
        /\ Numbered(m, place, l) /\ Winds(m, place, l) /\ next = l + 1
        /\ \A c \in Alone!Snail!Cell : m[c] = 0 <=> Blank(c)
        /\ Above(m, l) = {c \in Alone!Snail!Cell : Blank(c)}
        /\ l > 1 /\ place[l] \in Int \X Int /\ place[l - 1] \in Int \X Int
        /\ place[l] = Last /\ On(place[l - 1], place[l]) = Ahead
  BY <1>1, <1>3, <1>6, Begun
<1>8. /\ line \in [0..(n - 1) -> Alone!Snail!Cell]
      /\ \A i, j \in 0..(n - 1) : line[i] = line[j] => i = j
      /\ \A i \in 0..(n - 1) : Blank(line[i])
  BY <1>1, <1>3, <1>4, <1>5 DEF Blank, Edge, Alone!Snail!Cell
<1>9. Writes(m, m', l, n, line)
  BY <1>1, <1>4, <1>7, <1>8, FilledWrites
<1>10. line[0] = <<Edge, co>> /\ line[1] = <<Edge - 1, co>> /\ line[n - 1] = <<co + 1, co>>
       /\ line[n - 2] = <<co + 2, co>> /\ Edge \in Int
  BY <1>3, <1>4, <1>5 DEF Edge
<1>11. LeadsOn(m, place, l, n, line)
  <2>1. place[l] = <<Edge, co + 1>> /\ On(place[l - 1], place[l]) = <<Edge, co>>
    BY <1>1, <1>7 DEF Last, Ahead
  <2>2. line[0] = GoesTo(place[l - 1], place[l], Above(m, l))
    <3>1. <<Edge, co>> \in Above(m, l)
      <4>1. 0 \in 0..(n - 1)
        BY <1>4
      <4>2. line[0] \in Alone!Snail!Cell /\ Blank(line[0])
        BY <1>8, <4>1
      <4> QED BY <1>7, <1>10, <4>2
    <3> QED BY <1>3, <1>7, <1>10, <2>1, <3>1, Heads
  <2>3. line[1] = GoesTo(place[l], line[0], Above(m, l) \ {line[0]})
    <3>1. On(place[l], line[0]) = <<Edge, co - 1>>
      BY <1>3, <1>10, <2>1 DEF On
    <3>2. <<Edge, co - 1>> \notin Above(m, l)
      BY <1>3, <1>7 DEF Blank
    <3>3. co \in Int /\ co - 1 \in Int
      BY <1>3
    <3>4. GoesTo(place[l], line[0], Above(m, l) \ {line[0]})
            = <<Edge + ((co - 1) - co), co - (Edge - Edge)>>
      BY <1>7, <1>10, <3>1, <3>2, <3>3, Heads
    <3> QED BY <1>3, <1>10, <3>4
  <2>4. \A i \in 2..(n - 1) : line[i] = On(line[i - 2], line[i - 1])
    BY <1>3, <1>4, <1>5, <1>10 DEF On
  <2> QED BY <1>7, <2>2, <2>3, <2>4 DEF LeadsOn
<1>12. PICK t, p :
         /\ t \in Nat /\ t = l + n /\ Numbered(m', p, t) /\ Winds(m', p, t)
         /\ p[t] = <<co + 1, co>> /\ p[t - 1] = <<co + 2, co>>
  <2>1. PICK p : /\ Numbered(m', p, l + n) /\ Winds(m', p, l + n)
                 /\ n > 0 => p[l + n] = line[n - 1]
                 /\ n > 1 => p[l + n - 1] = line[n - 2]
    BY <1>4, <1>7, <1>9, <1>11, Goes
  <2>2. l + n \in Nat
    BY <1>4, <1>7
  <2> QED BY <1>4, <1>7, <1>10, <2>1, <2>2
<1>13. UNCHANGED Alone!Snail!Cell
  BY <1>1 DEF Alone!Snail!Cell
<1>14. ASSUME NEW c \in Alone!Snail!Cell PROVE m'[c] = 0 <=> Blank(c)'
  <2>1. m'[c] = 0 <=> Blank(c) /\ \A i \in 0..(n - 1) : c # line[i]
    BY <1>7, <1>8, <1>9 DEF Writes
  <2>2. (\E i \in 0..(n - 1) : c = line[i]) <=> c[2] = co /\ c[1] <= Edge /\ c[1] > co
    <3>1. ASSUME c[2] = co, c[1] <= Edge, c[1] > co
          PROVE  c = line[Edge - c[1]] /\ Edge - c[1] \in 0..(n - 1)
      BY <1>3, <1>4, <1>5, <3>1 DEF Edge, Alone!Snail!Cell
    <3> QED BY <1>3, <1>4, <1>5, <3>1 DEF Edge
  <2> QED BY <1>1, <1>3, <2>1, <2>2 DEF Blank, Edge, Alone!Snail!Cell
<1>15. Laid(p, t)'
  <2>1. ~Closing'
    BY <1>1 DEF Closing
  <2>2. On(p[t - 1], p[t]) = <<co, co>>
    BY <1>3, <1>12 DEF On
  <2>3. Last' = <<co + 1, co>> /\ Ahead' = <<co, co>>
    BY <1>1, <1>3 DEF Last, Ahead
  <2>4. Underway(p, t)'
    BY <1>1, <1>4, <1>7, <1>12, <1>13, <1>14, <2>2, <2>3 DEF Underway
  <2> QED BY <1>12, <1>13, <2>1, <2>4 DEF Laid, Numbered, Winds, Above
<1> QED BY <1>1, <1>2, <1>12, <1>15 DEF SpiralInv

(* The bottom, leftwards; it writes nothing when the last number is written *)
(* and goes around the corner itself when the square has size two.          *)
LEMMA BottomWinds ==
  ASSUME SpiralInv, Alone!Snail!Bottom
  PROVE  SpiralInv'
<1> DEFINE first == IF co = 0 THEN size - 1 ELSE size - co - 2
           n == Alone!Snail!Rounds(first - co)
           line == [i \in 0..(n - 1) |-> <<counter - co, first - i>>]
<1>1. /\ turn < 2 * size - 1 /\ status = 2 /\ turn' = turn + 1 /\ status' = 3
      /\ UNCHANGED <<size, co>>
      /\ m' = Alone!Snail!Filled(line) /\ next' = next + n /\ counter' = 0
  BY DEF Alone!Snail!Bottom, Alone!Snail!Turn
<1>2. SnailInv /\ SnailInv'
  BY BottomKept DEF SpiralInv
<1>3. size \in Nat /\ co \in Nat /\ Side >= 2 /\ size = Side + 2 * co /\ Side \in Nat
  BY <1>1, <1>2, RoundFits
<1>4. /\ first = (IF co = 0 THEN Edge ELSE Edge - 1) /\ first \in Int
      /\ n = first - co /\ n \in Nat /\ Edge \in Int
  BY <1>3 DEF Alone!Snail!Rounds, Edge
<1>5. line = [i \in 0..(n - 1) |-> <<Edge, first - i>>]
  BY <1>1, <1>3 DEF SpiralInv, Edge
<1> HIDE DEF n, line, first
<1>6. UNCHANGED Alone!Snail!Cell
  BY <1>1 DEF Alone!Snail!Cell
<1>7. CASE Closing
  <2>1. n = 0
    BY <1>1, <1>3, <1>4, <1>7 DEF Closing, Edge
  <2>2. m' = m
    <3>1. DOMAIN line = {} /\ m \in [Alone!Snail!Cell -> Nat]
      BY <1>3, <1>5, <2>1 DEF SpiralInv, SnailInv, Alone!Snail!TypeOK
    <3> QED BY <1>1, <3>1 DEF Alone!Snail!Filled
  <2>3. Closing'
    BY <1>1, <1>7 DEF Closing
  <2>4. PICK l, place : l \in Nat /\ Laid(place, l)
    BY DEF SpiralInv
  <2>5. Numbered(m, place, l) /\ Winds(m, place, l) /\ l = size * size
    BY <1>7, <2>4 DEF Laid
  <2>6. Numbered(m, place, l)'
    BY <1>6, <2>2, <2>5 DEF Numbered
  <2>7. Winds(m, place, l)'
    BY <1>6, <2>2, <2>5 DEF Winds, Above
  <2>8. Laid(place, l)'
    BY <1>1, <2>3, <2>5, <2>6, <2>7 DEF Laid
  <2> QED BY <1>1, <1>2, <2>4, <2>8 DEF SpiralInv
<1>8. CASE ~Closing
  <2>1. n > 0 /\ (co # 0 => Side > 2) /\ 2 * co + 2 <= size
    BY <1>1, <1>3, <1>4, <1>8 DEF Closing, Edge
  <2>2. PICK l, place :
          /\ l \in Nat
          /\ Numbered(m, place, l) /\ Winds(m, place, l) /\ next = l + 1
          /\ \A c \in Alone!Snail!Cell : m[c] = 0 <=> Blank(c)
          /\ Above(m, l) = {c \in Alone!Snail!Cell : Blank(c)}
          /\ l > 1 /\ place[l] \in Int \X Int /\ place[l - 1] \in Int \X Int
          /\ place[l] = Last /\ On(place[l - 1], place[l]) = Ahead
    BY <1>1, <1>3, <1>8, Begun
  <2>3. /\ line \in [0..(n - 1) -> Alone!Snail!Cell]
        /\ \A i, j \in 0..(n - 1) : line[i] = line[j] => i = j
        /\ \A i \in 0..(n - 1) : Blank(line[i])
    BY <1>1, <1>3, <1>4, <1>5, <2>1 DEF Blank, Edge, Alone!Snail!Cell
  <2>4. Writes(m, m', l, n, line)
    BY <1>1, <1>4, <2>2, <2>3, FilledWrites
  <2>5. /\ line[0] = <<Edge, first>> /\ line[n - 1] = <<Edge, co + 1>>
        /\ n > 1 => line[1] = <<Edge, first - 1>> /\ line[n - 2] = <<Edge, co + 2>>
    BY <1>3, <1>4, <1>5, <2>1
  <2>6. \A i \in 0..(n - 1) : line[i] \in Above(m, l)
    BY <2>2, <2>3
  <2>7. LeadsOn(m, place, l, n, line)
    <3>1. line[0] = GoesTo(place[l - 1], place[l], Above(m, l))
      <4>1. CASE co = 0 /\ size # 2
        <5>1. place[l] = <<Edge - 1, Edge>> /\ On(place[l - 1], place[l]) = <<Edge, Edge>>
          BY <1>1, <2>2, <4>1 DEF Last, Ahead
        <5>2. <<Edge, Edge>> \in Above(m, l)
          BY <1>4, <2>1, <2>5, <2>6, <4>1
        <5> QED BY <1>4, <2>2, <2>5, <4>1, <5>1, <5>2, Heads
      <4>2. CASE size = 2
        <5>1. co = 0 /\ Edge = 1
          BY <1>3, <2>1, <4>2 DEF Edge
        <5>2. place[l] = <<0, 1>> /\ On(place[l - 1], place[l]) = <<0, 2>>
          BY <1>1, <2>2, <4>2, <5>1 DEF Last, Ahead
        <5>3. <<0, 2>> \notin Above(m, l)
          BY <2>2, <5>1 DEF Blank
        <5>4. GoesTo(place[l - 1], <<0, 1>>, Above(m, l)) = <<0 + (2 - 1), 1 - (0 - 0)>>
          BY <2>2, <5>2, <5>3, Heads
        <5> QED BY <1>4, <2>5, <5>1, <5>2, <5>4
      <4>3. CASE co # 0
        <5>1. place[l] = <<Edge, Edge>> /\ On(place[l - 1], place[l]) = <<Edge + 1, Edge>>
          BY <1>1, <1>3, <2>1, <2>2, <4>3 DEF Last, Ahead
        <5>2. <<Edge + 1, Edge>> \notin Above(m, l)
          BY <1>4, <2>2 DEF Blank
        <5>3. Edge + 1 \in Int
          BY <1>4
        <5>4. GoesTo(place[l - 1], <<Edge, Edge>>, Above(m, l))
                = <<Edge + (Edge - Edge), Edge - ((Edge + 1) - Edge)>>
          BY <1>4, <2>2, <5>1, <5>2, <5>3, Heads
        <5> QED BY <1>4, <2>5, <4>3, <5>1, <5>4
      <4> QED BY <4>1, <4>2, <4>3
    <3>2. ASSUME n > 1 PROVE line[1] = GoesTo(place[l], line[0], Above(m, l) \ {line[0]})
      <4>1. CASE co = 0
        <5>1. place[l] = <<Edge - 1, Edge>> /\ size # 2 /\ first = Edge
          BY <1>1, <1>3, <1>4, <2>2, <3>2, <4>1 DEF Last, Edge
        <5>2. On(place[l], <<Edge, Edge>>) = <<Edge + 1, Edge>> /\ line[0] = <<Edge, Edge>>
          BY <1>4, <2>5, <5>1 DEF On
        <5>3. <<Edge + 1, Edge>> \notin Above(m, l) \ {line[0]}
          BY <1>4, <2>2 DEF Blank
        <5>4. Edge + 1 \in Int
          BY <1>4
        <5>5. ASSUME NEW S, <<Edge + 1, Edge>> \notin S
              PROVE  GoesTo(place[l], <<Edge, Edge>>, S)
                       = <<Edge + (Edge - Edge), Edge - ((Edge + 1) - Edge)>>
          BY <1>4, <2>2, <5>2, <5>4, <5>5, Heads
        <5>6. Edge + (Edge - Edge) = Edge /\ Edge - ((Edge + 1) - Edge) = first - 1
          BY <1>4, <5>1
        <5>7. line[1] = <<Edge, first - 1>>
          BY <2>5, <3>2
        <5> QED BY <5>2, <5>3, <5>5, <5>6, <5>7
      <4>2. CASE co # 0
        <5>1. place[l] = <<Edge, Edge>> /\ first = Edge - 1
          BY <1>1, <1>4, <2>2, <4>2 DEF Last
        <5>2. On(place[l], line[0]) = line[1] /\ line[1] = <<Edge, first - 1>>
          BY <1>4, <2>5, <3>2, <5>1 DEF On
        <5>3. line[1] \in Above(m, l) \ {line[0]}
          BY <1>4, <2>3, <2>6, <3>2
        <5> QED BY <5>2, <5>3 DEF GoesTo
      <4> QED BY <4>1, <4>2
    <3>3. \A i \in 2..(n - 1) : line[i] = On(line[i - 2], line[i - 1])
      BY <1>3, <1>4, <1>5 DEF On
    <3> QED BY <2>2, <3>1, <3>2, <3>3 DEF LeadsOn
  <2>8. PICK t : t \in Nat /\ t = l + n
    BY <1>4, <2>2
  <2>9. PICK p :
          /\ Numbered(m', p, t) /\ Winds(m', p, t)
          /\ p[t] = <<Edge, co + 1>>
          /\ p[t - 1] = IF n > 1 THEN <<Edge, co + 2>> ELSE place[l]
    <3>1. PICK p : /\ Numbered(m', p, l + n) /\ Winds(m', p, l + n)
                   /\ n > 0 => p[l + n] = line[n - 1]
                   /\ n > 1 => p[l + n - 1] = line[n - 2]
                   /\ l > 0 => p[l] = place[l]
      BY <1>4, <2>2, <2>4, <2>7, Goes
    <3>2. ~(n > 1) => l + n - 1 = l
      BY <1>4, <2>1, <2>2
    <3>3. p[l + n] = <<Edge, co + 1>>
      BY <2>1, <2>5, <3>1
    <3>4. n > 1 => p[l + n - 1] = <<Edge, co + 2>>
      BY <2>5, <3>1
    <3>5. ~(n > 1) => p[l + n - 1] = place[l]
      BY <2>2, <3>1, <3>2
    <3>6. p[l + n - 1] = IF n > 1 THEN <<Edge, co + 2>> ELSE place[l]
      BY <3>4, <3>5
    <3>7. Numbered(m', p, t) /\ Winds(m', p, t)
      BY <2>8, <3>1
    <3>8. p[t] = <<Edge, co + 1>> /\ p[t - 1] = IF n > 1 THEN <<Edge, co + 2>> ELSE place[l]
      BY <1>4, <2>2, <2>8, <3>3, <3>6
    <3> QED BY <3>7, <3>8
  <2>10. ASSUME NEW c \in Alone!Snail!Cell PROVE m'[c] = 0 <=> Blank(c)'
    <3>1. m'[c] = 0 <=> Blank(c) /\ \A i \in 0..(n - 1) : c # line[i]
      BY <2>2, <2>3, <2>4 DEF Writes
    <3>2. (\E i \in 0..(n - 1) : c = line[i]) <=> c[1] = Edge /\ c[2] <= first /\ c[2] > co
      <4>1. ASSUME c[1] = Edge, c[2] <= first, c[2] > co
            PROVE  c = line[first - c[2]] /\ first - c[2] \in 0..(n - 1)
        BY <1>3, <1>4, <1>5, <4>1 DEF Edge, Alone!Snail!Cell
      <4> QED BY <1>3, <1>4, <1>5, <4>1 DEF Edge
    <3> QED BY <1>1, <1>3, <1>4, <2>1, <3>1, <3>2 DEF Blank, Edge, Alone!Snail!Cell
  <2>11. ~Closing'
    BY <1>1, <1>8 DEF Closing
  <2>12. Last' = <<Edge, co + 1>> /\ Ahead' = <<Edge, co>>
    BY <1>1 DEF Last, Ahead, Edge
  <2>13. size # 2 => On(p[t - 1], p[t]) = <<Edge, co>>
    <3>1. CASE n > 1
      BY <1>3, <1>4, <2>8, <2>9, <3>1 DEF On
    <3>2. CASE ~(n > 1) /\ size # 2
      <4>1. co # 0 /\ Edge = co + 2
        BY <1>3, <1>4, <2>1, <3>2 DEF Edge
      <4>2. place[l] = <<Edge, Edge>>
        BY <1>1, <2>2, <4>1 DEF Last
      <4> QED BY <1>3, <2>9, <3>2, <4>1, <4>2 DEF On
    <3> QED BY <3>1, <3>2
  <2>14. t > 1 /\ next' = t + 1
    BY <1>1, <1>4, <2>1, <2>2, <2>8
  <2>15. Underway(p, t)'
    BY <1>1, <1>6, <2>8, <2>9, <2>10, <2>12, <2>13, <2>14 DEF Underway
  <2>16. Laid(p, t)'
    BY <1>6, <2>9, <2>11, <2>15 DEF Laid, Numbered, Winds, Above
  <2> QED BY <1>1, <1>2, <2>8, <2>16 DEF SpiralInv
<1> QED BY <1>7, <1>8

(* The right side, down; of an even square the last number comes with it,   *)
(* out of its turn.                                                         *)
LEMMA RightWinds ==
  ASSUME SpiralInv, Alone!Snail!Right
  PROVE  SpiralInv'
<1> DEFINE first == IF co = 0 THEN 1 ELSE co
           n == Alone!Snail!Rounds(size - 2 * first)
           line == [i \in 0..(n - 1) |-> <<first + i, counter - co>>]
           column == Alone!Snail!Filled(line)
           lasts == co # 0 /\ Side = 2
<1>1. /\ turn < 2 * size - 1 /\ status = 1 /\ turn' = turn + 1 /\ status' = 2
      /\ UNCHANGED <<size, co, counter>> /\ next' = next + n
      /\ m' = IF size % 2 = 0
                THEN Alone!Snail!Completed(column, next + n, <<size \div 2, size \div 2 - 1>>)
                ELSE column
  BY DEF Alone!Snail!Right, Alone!Snail!Turn
<1>2. SnailInv /\ SnailInv'
  BY RightKept DEF SpiralInv
<1>3. size \in Nat /\ co \in Nat /\ Side >= 2 /\ size = Side + 2 * co /\ Side \in Nat
  BY <1>1, <1>2, RoundFits
<1>4. /\ first \in Int /\ Edge \in Int /\ Edge = Side + co - 1 /\ counter = size - 1 /\ n \in Nat
      /\ n = IF co = 0 THEN Side - 2 ELSE Side
  BY <1>1, <1>3 DEF Alone!Snail!Rounds, Edge, SpiralInv
<1>5. line = [i \in 0..(n - 1) |-> <<first + i, Edge>>]
  BY <1>3, <1>4 DEF Edge
<1> HIDE DEF n, line, first, column, lasts
<1>6. UNCHANGED Alone!Snail!Cell /\ Edge' = Edge
  BY <1>1 DEF Alone!Snail!Cell, Edge
<1>7. ~Closing /\ (Closing' <=> lasts)
  BY <1>1, <1>3 DEF Closing, lasts
<1>8. PICK l, place :
        /\ l \in Nat
        /\ Numbered(m, place, l) /\ Winds(m, place, l) /\ next = l + 1
        /\ \A c \in Alone!Snail!Cell : m[c] = 0 <=> Blank(c)
        /\ Above(m, l) = {c \in Alone!Snail!Cell : Blank(c)}
        /\ l > 1 /\ place[l] \in Int \X Int /\ place[l - 1] \in Int \X Int
        /\ place[l] = Last /\ On(place[l - 1], place[l]) = Ahead
  BY <1>1, <1>3, <1>7, Begun
<1>9. next + n = size * size <=> lasts
  <2>1. next = size * size - Side * Side + 1 + InRound /\ size * size \in Nat /\ Side * Side \in Nat
    BY <1>1, <1>2, RoundFits DEF SnailInv
  <2>2. InRound + n = IF co = 0 THEN 2 * Side - 2 ELSE 2 * Side - 1
    BY <1>1, <1>3, <1>4 DEF InRound
  <2>3. Side = 2 => Side * Side = 4
    BY <1>3
  <2>4. Side > 2 => Side * Side > 2 * Side
    BY <1>3
  <2>5. InRound \in Int
    BY <1>1, <1>3 DEF InRound
  <2> QED BY <1>3, <1>4, <2>1, <2>2, <2>3, <2>4, <2>5 DEF lasts
<1>10. /\ line \in [0..(n - 1) -> Alone!Snail!Cell]
       /\ \A i, j \in 0..(n - 1) : line[i] = line[j] => i = j
       /\ \A i \in 0..(n - 1) : Blank(line[i])
  BY <1>1, <1>3, <1>4, <1>5 DEF Blank, Alone!Snail!Cell, first
<1>11. Writes(m, column, l, n, line)
  BY <1>1, <1>4, <1>8, <1>10, FilledWrites DEF column
<1>12. /\ n > 0 => line[0] = <<first, Edge>> /\ line[n - 1] = <<first + n - 1, Edge>>
       /\ n > 1 => line[1] = <<first + 1, Edge>> /\ line[n - 2] = <<first + n - 2, Edge>>
  <2>1. \A i \in 0..(n - 1) : line[i] = <<first + i, Edge>>
    BY <1>5
  <2>2. /\ n > 0 => 0 \in 0..(n - 1) /\ n - 1 \in 0..(n - 1)
        /\ n > 1 => 1 \in 0..(n - 1) /\ n - 2 \in 0..(n - 1)
        /\ first + 0 = first /\ first + (n - 1) = first + n - 1 /\ first + (n - 2) = first + n - 2
    BY <1>4
  <2> QED BY <2>1, <2>2
<1>13. \A i \in 0..(n - 1) : line[i] \in Above(m, l)
  BY <1>8, <1>10
<1>14. /\ place[l] = IF co = 0 THEN <<0, Edge>> ELSE <<co, Edge - 1>>
       /\ On(place[l - 1], place[l]) = IF co = 0 THEN <<0, size>> ELSE <<co, Edge>>
  BY <1>1, <1>8 DEF Last, Ahead
<1>15. LeadsOn(m, place, l, n, line)
  <2>1. ASSUME n > 0 PROVE line[0] = GoesTo(place[l - 1], place[l], Above(m, l))
    <3>1. CASE co = 0
      <4>1. <<0, size>> \notin Above(m, l) /\ first = 1 /\ Edge = size - 1
        BY <1>3, <1>4, <1>8, <3>1 DEF Blank, first
      <4>2. ASSUME NEW S, <<0, size>> \notin S
            PROVE  GoesTo(place[l - 1], <<0, Edge>>, S) = <<0 + (size - Edge), Edge - (0 - 0)>>
        BY <1>3, <1>4, <1>8, <1>14, <3>1, <4>2, Heads
      <4>3. 0 + (size - Edge) = 1 /\ Edge - (0 - 0) = Edge
        BY <1>3, <4>1
      <4> QED BY <1>12, <1>14, <2>1, <3>1, <4>1, <4>2, <4>3
    <3>2. CASE co # 0
      <4>1. line[0] = <<co, Edge>> /\ line[0] \in Above(m, l)
        BY <1>4, <1>12, <1>13, <2>1, <3>2 DEF first
      <4> QED BY <1>14, <3>2, <4>1 DEF GoesTo
    <3> QED BY <3>1, <3>2
  <2>2. ASSUME n > 1 PROVE line[1] = GoesTo(place[l], line[0], Above(m, l) \ {line[0]})
    <3>1. CASE co = 0
      <4>1. line[0] = <<1, Edge>> /\ line[1] = <<2, Edge>> /\ place[l] = <<0, Edge>>
        BY <1>4, <1>12, <1>14, <2>2, <3>1 DEF first
      <4>2. On(place[l], line[0]) = line[1]
        BY <1>4, <4>1 DEF On
      <4>3. line[1] \in Above(m, l) \ {line[0]}
        BY <1>4, <1>10, <1>13, <2>2
      <4> QED BY <4>2, <4>3 DEF GoesTo
    <3>2. CASE co # 0
      <4>1. line[0] = <<co, Edge>> /\ line[1] = <<co + 1, Edge>> /\ place[l] = <<co, Edge - 1>>
        BY <1>4, <1>12, <1>14, <2>2, <3>2 DEF first
      <4>2. On(place[l], <<co, Edge>>) = <<co, Edge + 1>> /\ Edge + 1 \in Int
        BY <1>3, <1>4, <4>1 DEF On
      <4>3. <<co, Edge + 1>> \notin Above(m, l) \ {line[0]}
        BY <1>4, <1>8 DEF Blank
      <4>4. ASSUME NEW S, <<co, Edge + 1>> \notin S
            PROVE  GoesTo(place[l], <<co, Edge>>, S)
                     = <<co + ((Edge + 1) - Edge), Edge - (co - co)>>
        BY <1>3, <1>4, <1>8, <4>2, <4>4, Heads
      <4>5. co + ((Edge + 1) - Edge) = co + 1 /\ Edge - (co - co) = Edge
        BY <1>3, <1>4
      <4> QED BY <4>1, <4>3, <4>4, <4>5
    <3> QED BY <3>1, <3>2
  <2>3. \A i \in 2..(n - 1) : line[i] = On(line[i - 2], line[i - 1])
    BY <1>3, <1>4, <1>5 DEF On
  <2> QED BY <1>8, <2>1, <2>2, <2>3 DEF LeadsOn
<1>16. PICK t : t \in Nat /\ t = l + n
  BY <1>4, <1>8
<1>17. ASSUME NEW c \in Alone!Snail!Cell PROVE column[c] = 0 <=> Blank(c)'
  <2>1. column[c] = 0 <=> Blank(c) /\ \A i \in 0..(n - 1) : c # line[i]
    BY <1>8, <1>10, <1>11 DEF Writes
  <2>2. (\E i \in 0..(n - 1) : c = line[i]) <=> c[2] = Edge /\ c[1] >= first /\ c[1] < first + n
    <3>1. ASSUME c[2] = Edge, c[1] >= first, c[1] < first + n
          PROVE  c = line[c[1] - first] /\ c[1] - first \in 0..(n - 1)
      BY <1>3, <1>4, <1>5, <3>1 DEF Alone!Snail!Cell
    <3> QED BY <1>3, <1>4, <1>5, <3>1
  <2>3. c[1] \in Int /\ c[2] \in Int
    BY <1>3 DEF Alone!Snail!Cell
  <2>4. Blank(c) <=> /\ co <= c[1] /\ co <= c[2] /\ c[1] <= Edge /\ c[2] <= Edge
                     /\ c[1] > co \/ (co > 0 /\ c[2] = Edge)
    BY <1>1 DEF Blank
  <2>5. Blank(c)' <=> /\ co <= c[1] /\ co <= c[2] /\ c[1] <= Edge /\ c[2] <= Edge
                      /\ c[1] > co /\ (c[2] < Edge \/ (co = 0 /\ c[1] = Edge))
    BY <1>1, <1>6 DEF Blank
  <2> QED BY <1>3, <1>4, <2>1, <2>2, <2>3, <2>4, <2>5 DEF first
<1>18. CASE n = 0
  <2>1. co = 0 /\ size = 2 /\ Edge = 1 /\ ~lasts
    BY <1>3, <1>4, <1>18 DEF lasts
  <2>2. column = m /\ m' = column
    <3>1. DOMAIN line = {} /\ m \in [Alone!Snail!Cell -> Nat]
      BY <1>3, <1>5, <1>18 DEF SpiralInv, SnailInv, Alone!Snail!TypeOK
    <3>2. column = m
      BY <3>1 DEF Alone!Snail!Filled, column
    <3> QED BY <1>1, <1>9, <2>1, <3>2 DEF Alone!Snail!Completed
  <2>3. Last' = place[l] /\ Ahead' = On(place[l - 1], place[l])
    BY <1>1, <1>6, <1>14, <2>1 DEF Last, Ahead
  <2>4. Underway(place, l)'
    BY <1>1, <1>6, <1>8, <1>17, <1>18, <2>2, <2>3 DEF Underway
  <2>5. Numbered(m, place, l)'
    BY <1>6, <1>8, <2>2 DEF Numbered
  <2>6. Winds(m, place, l)'
    BY <1>6, <1>8, <2>2 DEF Winds, Above
  <2>7. ~Closing'
    BY <1>7, <2>1
  <2>8. Laid(place, l)'
    BY <2>4, <2>5, <2>6, <2>7 DEF Laid
  <2> QED BY <1>1, <1>2, <1>4, <1>8, <2>8 DEF SpiralInv
<1>19. CASE n > 0
  <2>1. PICK p :
          /\ Numbered(column, p, t) /\ Winds(column, p, t)
          /\ p[t] = <<first + n - 1, Edge>>
          /\ p[t - 1] = IF n > 1 THEN <<first + n - 2, Edge>> ELSE place[l]
    <3>1. PICK p : /\ Numbered(column, p, l + n) /\ Winds(column, p, l + n)
                   /\ n > 0 => p[l + n] = line[n - 1]
                   /\ n > 1 => p[l + n - 1] = line[n - 2]
                   /\ l > 0 => p[l] = place[l]
      BY <1>4, <1>8, <1>11, <1>15, Goes
    <3>2. ~(n > 1) => l + n - 1 = l
      BY <1>4, <1>8, <1>19
    <3>3. p[l + n] = <<first + n - 1, Edge>>
      BY <1>12, <1>19, <3>1
    <3>4. n > 1 => p[l + n - 1] = <<first + n - 2, Edge>>
      BY <1>12, <3>1
    <3>5. ~(n > 1) => p[l + n - 1] = place[l]
      BY <1>8, <3>1, <3>2
    <3>6. p[l + n - 1] = IF n > 1 THEN <<first + n - 2, Edge>> ELSE place[l]
      BY <3>4, <3>5
    <3>7. Numbered(column, p, t) /\ Winds(column, p, t)
      BY <1>16, <3>1
    <3>8. /\ p[t] = <<first + n - 1, Edge>>
          /\ p[t - 1] = IF n > 1 THEN <<first + n - 2, Edge>> ELSE place[l]
      BY <1>4, <1>8, <1>16, <3>3, <3>6
    <3> QED BY <3>7, <3>8
  <2>2. t > 1 /\ next' = t + 1
    BY <1>1, <1>4, <1>8, <1>16
  <2>3. CASE ~lasts
    <3>1. m' = column
      BY <1>1, <1>9, <2>3 DEF Alone!Snail!Completed
    <3>2. /\ p[t] = IF co = 0 THEN <<Edge - 1, Edge>> ELSE <<Edge, Edge>>
          /\ On(p[t - 1], p[t]) = IF co = 0 THEN <<Edge, Edge>> ELSE <<Edge + 1, Edge>>
      <4>1. CASE co = 0
        <5>1. first = 1 /\ n = Edge - 1 /\ p[t] = <<Edge - 1, Edge>>
          BY <1>3, <1>4, <2>1, <4>1 DEF first
        <5>2. p[t - 1] = <<Edge - 2, Edge>>
          BY <1>4, <1>14, <1>19, <2>1, <4>1, <5>1
        <5> QED BY <1>4, <4>1, <5>1, <5>2 DEF On
      <4>2. CASE co # 0
        <5>1. first + n - 1 = Edge /\ first + n - 2 = Edge - 1 /\ n > 1
          BY <1>3, <1>4, <4>2 DEF first
        <5>2. p[t] = <<Edge, Edge>> /\ p[t - 1] = <<Edge - 1, Edge>>
          BY <2>1, <5>1
        <5> QED BY <1>4, <4>2, <5>2 DEF On
      <4> QED BY <4>1, <4>2
    <3>3. size # 2
      BY <1>3, <1>4, <1>19
    <3>4. Last' = p[t] /\ Ahead' = On(p[t - 1], p[t])
      BY <1>1, <1>6, <3>2, <3>3 DEF Last, Ahead
    <3>5. Underway(p, t)'
      BY <1>6, <1>16, <1>17, <2>2, <3>1, <3>4 DEF Underway
    <3>6. Numbered(m, p, t)'
      BY <1>6, <2>1, <3>1 DEF Numbered
    <3>7. Winds(m, p, t)'
      BY <1>6, <2>1, <3>1 DEF Winds, Above
    <3>8. ~Closing'
      BY <1>7, <2>3
    <3>9. Laid(p, t)'
      BY <3>5, <3>6, <3>7, <3>8 DEF Laid
    <3> QED BY <1>1, <1>2, <1>4, <1>16, <3>9 DEF SpiralInv
  <2>4. CASE lasts
    <3>1. PICK cell : cell = <<co + 1, co>>
      OBVIOUS
    <3> DEFINE end == [i \in 0..0 |-> cell]
    <3>2. co # 0 /\ Side = 2 /\ size = 2 + 2 * co /\ Edge = co + 1 /\ n = 2 /\ first = co
      BY <1>3, <1>4, <2>4 DEF lasts, first
    <3>3. cell \in Alone!Snail!Cell /\ column[cell] = 0
      <4>1. cell \in Alone!Snail!Cell
        BY <1>3, <3>1, <3>2 DEF Alone!Snail!Cell
      <4>2. Blank(cell)'
        BY <1>1, <1>3, <1>6, <3>1, <3>2 DEF Blank
      <4> QED BY <1>17, <4>1, <4>2
    <3>4. size * size = t + 1 /\ size * size \in Nat
      <4>1. next + n = size * size
        BY <1>9, <2>4
      <4> QED BY <1>1, <1>16, <2>2, <4>1
    <3>5. m' = [column EXCEPT ![cell] = t + 1]
      <4>1. size % 2 = 0 /\ size \div 2 = co + 1 /\ size \div 2 - 1 = co
        BY <1>3, <3>2
      <4>2. m' = [column EXCEPT ![<<size \div 2, size \div 2 - 1>>] = size * size]
        BY <1>1, <1>9, <2>4, <4>1 DEF Alone!Snail!Completed
      <4> QED BY <3>1, <3>4, <4>1, <4>2
    <3>6. Writes(column, m', t, 1, end)
      <4>1. DOMAIN column = Alone!Snail!Cell
        BY DEF column, Alone!Snail!Filled
      <4> QED BY <1>16, <3>3, <3>5, <4>1, LastWrites
    <3>7. p[t] = <<co + 1, Edge>> /\ p[t - 1] = <<co, Edge>>
      <4>1. first + n - 1 = co + 1 /\ first + n - 2 = co /\ n > 1
        BY <1>3, <3>2
      <4> QED BY <2>1, <4>1
    <3>8. end[0] = GoesTo(p[t - 1], p[t], Above(column, t))
      <4>1. On(p[t - 1], <<co + 1, Edge>>) = <<co + 2, Edge>>
        BY <1>3, <1>4, <3>7 DEF On
      <4>2. <<co + 2, Edge>> \notin Above(column, t)
        BY <1>3, <1>6, <1>16, <1>17, <2>1, <3>2, Blanks DEF Blank
      <4>3. co + 1 \in Int /\ co + 2 \in Int /\ p[t - 1] \in Int \X Int
        BY <1>3, <1>4, <3>7
      <4>4. ASSUME NEW S, <<co + 2, Edge>> \notin S
            PROVE  GoesTo(p[t - 1], <<co + 1, Edge>>, S)
                     = <<(co + 1) + (Edge - Edge), Edge - ((co + 2) - (co + 1))>>
        BY <1>4, <4>1, <4>3, <4>4, Heads
      <4>5. (co + 1) + (Edge - Edge) = co + 1 /\ Edge - ((co + 2) - (co + 1)) = co
        BY <1>3, <3>2
      <4> QED BY <3>1, <3>7, <4>2, <4>4, <4>5
    <3>9. LeadsOn(column, p, t, 1, end)
      BY <2>2, <3>8 DEF LeadsOn
    <3>10. PICK z : Numbered(m', z, t + 1) /\ Winds(m', z, t + 1)
      BY <1>16, <2>1, <3>6, <3>9, Goes
    <3>11. Numbered(m, z, t + 1)'
      BY <1>6, <3>10 DEF Numbered
    <3>12. Winds(m, z, t + 1)'
      BY <1>6, <3>10 DEF Winds, Above
    <3>13. Closing' /\ size' * size' = t + 1 /\ t + 1 \in Nat
      BY <1>1, <1>7, <1>16, <2>4, <3>4
    <3>14. Laid(z, t + 1)'
      BY <3>11, <3>12, <3>13 DEF Laid
    <3> QED BY <1>1, <1>2, <1>4, <3>13, <3>14 DEF SpiralInv
  <2> QED BY <2>3, <2>4
<1>20. n = 0 \/ n > 0
  BY <1>3, <1>4
<1> QED BY <1>18, <1>19, <1>20

(* The top, rightwards; of an odd square the last number comes with it.     *)
LEMMA TopWinds ==
  ASSUME SpiralInv, Alone!Snail!Top
  PROVE  SpiralInv'
<1> DEFINE n == IF co = 0 THEN size ELSE Alone!Snail!Rounds(size - 2 * co - 1)
           line == [i \in 0..(n - 1) |-> <<counter + co, co + i>>]
           row == Alone!Snail!Filled(line)
<1>1. /\ turn < 2 * size - 1 /\ status = 0 /\ turn' = turn + 1 /\ status' = 1
      /\ UNCHANGED <<size, co>> /\ next' = next + n
      /\ counter' = (IF n = 0 THEN counter ELSE size) - 1
      /\ m' = IF size % 2 = 1
                THEN Alone!Snail!Completed(row, next, <<size \div 2, size \div 2>>) ELSE row
  BY DEF Alone!Snail!Top, Alone!Snail!Turn
<1>2. SnailInv /\ SnailInv'
  BY TopKept DEF SpiralInv
<1>3. size \in Nat /\ co \in Nat /\ Side >= 1 /\ size = Side + 2 * co /\ Side \in Nat
  BY <1>1, <1>2, RoundFits
<1>4. /\ counter = 0 /\ Edge \in Int /\ Edge = Side + co - 1 /\ n \in Nat
      /\ n = IF co = 0 THEN Side ELSE Side - 1
  BY <1>1, <1>2, <1>3 DEF Alone!Snail!Rounds, Edge, SnailInv
<1>5. line = [i \in 0..(n - 1) |-> <<co, co + i>>]
  BY <1>3, <1>4
<1> HIDE DEF n, line, row
<1>6. UNCHANGED Alone!Snail!Cell /\ Edge' = Edge /\ Side' = Side
  BY <1>1 DEF Alone!Snail!Cell, Edge, Side
<1>7. ~Closing /\ (Closing' <=> Side = 1)
  BY <1>1, <1>3 DEF Closing
<1>8. PICK l, place :
        /\ l \in Nat
        /\ Numbered(m, place, l) /\ Winds(m, place, l) /\ next = l + 1
        /\ \A c \in Alone!Snail!Cell : m[c] = 0 <=> Blank(c)
        /\ Above(m, l) = {c \in Alone!Snail!Cell : Blank(c)}
        /\ turn > 0 => /\ l > 1 /\ place[l] \in Int \X Int /\ place[l - 1] \in Int \X Int
                       /\ place[l] = Last /\ On(place[l - 1], place[l]) = Ahead
  BY <1>1, <1>3, <1>7, Begun
<1>9. next = size * size - Side * Side + 1 /\ size * size \in Nat /\ Side * Side \in Nat
  BY <1>1, <1>2, <1>3, RoundFits DEF SnailInv, InRound
<1>10. (next = size * size <=> Side = 1) /\ (co = 0 => l = 0)
  <2>1. Side = 1 => Side * Side = 1
    BY <1>3
  <2>2. Side > 1 => Side * Side > 1
    BY <1>3
  <2>3. co = 0 => size * size = Side * Side
    BY <1>3
  <2> QED BY <1>3, <1>8, <1>9, <2>1, <2>2, <2>3
<1>11. turn = 4 * co + status
  BY <1>2 DEF SnailInv
<1>12. co # 0 => /\ l > 1 /\ place[l] = <<co, co - 1>> /\ place[l - 1] \in Int \X Int
                 /\ On(place[l - 1], <<co, co - 1>>) = <<co - 1, co - 1>>
  BY <1>1, <1>3, <1>8, <1>11 DEF Last, Ahead
<1>13. co # 0 => GoesTo(place[l - 1], place[l], Above(m, l)) = <<co, co>>
  <2>1. <<co - 1, co - 1>> \notin Above(m, l)
    BY <1>3, <1>8 DEF Blank
  <2>2. ASSUME NEW S, <<co - 1, co - 1>> \notin S, co # 0
        PROVE  GoesTo(place[l - 1], <<co, co - 1>>, S)
                 = <<co + ((co - 1) - (co - 1)), (co - 1) - ((co - 1) - co)>>
    <3>1. co - 1 \in Int /\ co \in Int
      BY <1>3
    <3> QED BY <1>12, <2>2, <3>1, Heads
  <2>3. co + ((co - 1) - (co - 1)) = co /\ (co - 1) - ((co - 1) - co) = co
    BY <1>3
  <2> QED BY <1>12, <2>1, <2>2, <2>3
<1>14. /\ line \in [0..(n - 1) -> Alone!Snail!Cell]
       /\ \A i, j \in 0..(n - 1) : line[i] = line[j] => i = j
       /\ \A i \in 0..(n - 1) : Blank(line[i])
  <2>1. ASSUME NEW i \in 0..(n - 1)
        PROVE  line[i] = <<co, co + i>> /\ line[i] \in Alone!Snail!Cell /\ Blank(line[i])
    <3>1. line[i] = <<co, co + i>> /\ co + i <= Edge /\ Edge <= size - 1 /\ i \in Nat
      BY <1>3, <1>4, <1>5
    <3> QED BY <1>1, <1>3, <1>4, <3>1 DEF Blank, Alone!Snail!Cell
  <2>2. line \in [0..(n - 1) -> Alone!Snail!Cell]
    BY <1>5, <2>1
  <2>3. \A i, j \in 0..(n - 1) : line[i] = line[j] => i = j
    BY <1>3, <2>1
  <2> QED BY <2>1, <2>2, <2>3
<1>15. Writes(m, row, l, n, line)
  BY <1>1, <1>4, <1>8, <1>14, FilledWrites DEF row
<1>16. /\ n > 0 => line[0] = <<co, co>> /\ line[n - 1] = <<co, co + n - 1>>
       /\ n > 1 => line[1] = <<co, co + 1>> /\ line[n - 2] = <<co, co + n - 2>>
  <2>1. \A i \in 0..(n - 1) : line[i] = <<co, co + i>>
    BY <1>5
  <2>2. /\ n > 0 => 0 \in 0..(n - 1) /\ n - 1 \in 0..(n - 1)
        /\ n > 1 => 1 \in 0..(n - 1) /\ n - 2 \in 0..(n - 1)
        /\ co + 0 = co /\ co + (n - 1) = co + n - 1 /\ co + (n - 2) = co + n - 2
    BY <1>3, <1>4
  <2> QED BY <2>1, <2>2
<1>17. LeadsOn(m, place, l, n, line)
  <2>1. ASSUME co # 0, n > 1 PROVE line[1] = GoesTo(place[l], line[0], Above(m, l) \ {line[0]})
    <3>1. On(place[l], line[0]) = line[1]
      <4>1. 2 * co - co = co /\ 2 * co - (co - 1) = co + 1
        BY <1>3
      <4>2. place[l] = <<co, co - 1>> /\ line[0] = <<co, co>> /\ line[1] = <<co, co + 1>>
        BY <1>4, <1>12, <1>16, <2>1
      <4> QED BY <4>1, <4>2 DEF On
    <3>2. line[1] \in Above(m, l) \ {line[0]}
      <4>1. 0 \in 0..(n - 1) /\ 1 \in 0..(n - 1)
        BY <1>4, <2>1
      <4> QED BY <1>8, <1>14, <4>1
    <3> QED BY <3>1, <3>2 DEF GoesTo
  <2>2. \A i \in 2..(n - 1) : line[i] = On(line[i - 2], line[i - 1])
    BY <1>3, <1>4, <1>5 DEF On
  <2>3. CASE co = 0
    <3>1. l = 0 /\ (n > 0 => line[0] = <<0, 0>>) /\ (n > 1 => line[1] = <<0, 1>>)
      BY <1>10, <1>16, <2>3
    <3> QED BY <2>2, <3>1 DEF LeadsOn
  <2>4. CASE co # 0
    BY <1>8, <1>12, <1>13, <1>16, <2>1, <2>2, <2>4 DEF LeadsOn
  <2> QED BY <2>3, <2>4
<1>18. PICK t : t \in Nat /\ t = l + n
  BY <1>4, <1>8
<1>19. next' = t + 1
  BY <1>1, <1>4, <1>8, <1>18
<1>20. ASSUME n > 0
       PROVE  \E p : /\ Numbered(row, p, t) /\ Winds(row, p, t)
                     /\ p[t] = <<co, co + n - 1>>
                     /\ n > 1 => p[t - 1] = <<co, co + n - 2>>
                     /\ n = 1 /\ co # 0 => p[t - 1] = place[l]
  <2>1. PICK p : /\ Numbered(row, p, l + n) /\ Winds(row, p, l + n)
                 /\ n > 0 => p[l + n] = line[n - 1]
                 /\ n > 1 => p[l + n - 1] = line[n - 2]
                 /\ l > 0 => p[l] = place[l]
    BY <1>4, <1>8, <1>15, <1>17, Goes
  <2>2. p[l + n] = <<co, co + n - 1>>
    BY <1>16, <1>20, <2>1
  <2>3. n > 1 => p[l + n - 1] = <<co, co + n - 2>>
    BY <1>16, <2>1
  <2>4. n = 1 /\ co # 0 => p[l + n - 1] = place[l]
    <3>1. n = 1 => l + n - 1 = l
      BY <1>4, <1>8
    <3>2. co # 0 => p[l] = place[l]
      BY <1>8, <1>12, <2>1
    <3> QED BY <3>1, <3>2
  <2>5. Numbered(row, p, t) /\ Winds(row, p, t)
    BY <1>18, <2>1
  <2>6. l + n - 1 = t - 1
    BY <1>4, <1>8, <1>18
  <2> QED BY <1>18, <2>2, <2>3, <2>4, <2>5, <2>6
<1>21. ASSUME NEW c \in Alone!Snail!Cell, Side > 1 PROVE row[c] = 0 <=> Blank(c)'
  <2>1. row[c] = 0 <=> Blank(c) /\ \A i \in 0..(n - 1) : c # line[i]
    BY <1>8, <1>14, <1>15 DEF Writes
  <2>2. (\E i \in 0..(n - 1) : c = line[i]) <=> c[1] = co /\ c[2] >= co /\ c[2] < co + n
    <3>1. ASSUME c[1] = co, c[2] >= co, c[2] < co + n
          PROVE  c = line[c[2] - co] /\ c[2] - co \in 0..(n - 1)
      BY <1>3, <1>4, <1>5, <3>1 DEF Alone!Snail!Cell
    <3> QED BY <1>3, <1>4, <1>5, <3>1
  <2>3. c[1] \in Int /\ c[2] \in Int
    BY <1>3 DEF Alone!Snail!Cell
  <2>4. Blank(c) <=> co <= c[1] /\ co <= c[2] /\ c[1] <= Edge /\ c[2] <= Edge
    BY <1>1 DEF Blank
  <2>5. Blank(c)' <=> /\ co <= c[1] /\ co <= c[2] /\ c[1] <= Edge /\ c[2] <= Edge
                      /\ c[1] > co \/ (co > 0 /\ c[2] = Edge)
    BY <1>1, <1>6 DEF Blank
  <2> QED BY <1>3, <1>4, <1>21, <2>1, <2>2, <2>3, <2>4, <2>5
<1>22. CASE Side > 1
  <2>1. n > 0 /\ counter' = size' - 1 /\ (co = 0 => n > 1)
    <3>1. n > 0 /\ (co = 0 => n > 1)
      BY <1>3, <1>4, <1>22
    <3> QED BY <1>1, <1>4, <3>1
  <2>2. PICK p : /\ Numbered(row, p, t) /\ Winds(row, p, t)
                 /\ p[t] = <<co, co + n - 1>>
                 /\ n > 1 => p[t - 1] = <<co, co + n - 2>>
                 /\ n = 1 /\ co # 0 => p[t - 1] = place[l]
    BY <1>20, <2>1
  <2>3. m' = row /\ ~Closing'
    BY <1>1, <1>3, <1>7, <1>10, <1>22 DEF Alone!Snail!Completed
  <2>4. t > 1
    BY <1>3, <1>4, <1>8, <1>12, <1>18, <2>1
  <2>5. /\ p[t] = IF co = 0 THEN <<0, Edge>> ELSE <<co, Edge - 1>>
        /\ On(p[t - 1], p[t]) = IF co = 0 THEN <<0, size>> ELSE <<co, Edge>>
    <3>1. CASE co = 0
      <4>1. co + n - 1 = Edge /\ co + n - 2 = Edge - 1 /\ n > 1 /\ size = Edge + 1
        BY <1>3, <1>4, <2>1, <3>1
      <4>2. p[t] = <<0, Edge>> /\ p[t - 1] = <<0, Edge - 1>>
        BY <2>2, <3>1, <4>1
      <4> QED BY <1>4, <3>1, <4>1, <4>2 DEF On
    <3>2. CASE co # 0
      <4>1. co + n - 1 = Edge - 1 /\ co + n - 2 = Edge - 2
        BY <1>3, <1>4, <3>2
      <4>2. p[t] = <<co, Edge - 1>>
        BY <2>2, <4>1
      <4>3. p[t - 1] = <<co, Edge - 2>>
        <5>1. CASE n > 1
          BY <2>2, <4>1, <5>1
        <5>2. CASE n = 1
          <6>1. p[t - 1] = <<co, co - 1>> /\ co - 1 = Edge - 2
            BY <1>3, <1>4, <1>12, <2>2, <3>2, <5>2
          <6> QED BY <6>1
        <5>3. n > 1 \/ n = 1
          BY <1>3, <1>4, <2>1
        <5> QED BY <5>1, <5>2, <5>3
      <4> QED BY <1>3, <1>4, <3>2, <4>2, <4>3 DEF On
    <3> QED BY <3>1, <3>2
  <2>6. Last' = p[t] /\ Ahead' = On(p[t - 1], p[t])
    BY <1>1, <1>6, <2>5 DEF Last, Ahead
  <2>7. Underway(p, t)'
    BY <1>6, <1>18, <1>19, <1>21, <1>22, <2>3, <2>4, <2>6 DEF Underway
  <2>8. Numbered(m, p, t)'
    BY <1>6, <2>2, <2>3 DEF Numbered
  <2>9. Winds(m, p, t)'
    BY <1>6, <2>2, <2>3 DEF Winds, Above
  <2>10. Laid(p, t)'
    BY <2>3, <2>7, <2>8, <2>9 DEF Laid
  <2> QED BY <1>1, <1>2, <1>18, <2>1, <2>10 DEF SpiralInv
<1>23. CASE Side = 1
  <2>1. size \div 2 = co /\ size % 2 = 1 /\ size = 1 + 2 * co
    BY <1>3, <1>23
  <2>2. m' = [row EXCEPT ![<<co, co>>] = size * size]
    BY <1>1, <1>10, <1>23, <2>1 DEF Alone!Snail!Completed
  <2>3. <<co, co>> \in Alone!Snail!Cell /\ DOMAIN row = Alone!Snail!Cell
    BY <1>3, <2>1 DEF Alone!Snail!Cell, row, Alone!Snail!Filled
  <2>4. ASSUME NEW v \in Nat, NEW p, v = size * size, Numbered(m', p, v), Winds(m', p, v)
        PROVE  SpiralInv'
    <3>1. Numbered(m, p, v)'
      BY <1>6, <2>4 DEF Numbered
    <3>2. Winds(m, p, v)'
      BY <1>6, <2>4 DEF Winds, Above
    <3>3. Closing' /\ size' * size' = v
      BY <1>1, <1>7, <1>23, <2>4
    <3>4. Laid(p, v)'
      BY <3>1, <3>2, <3>3 DEF Laid
    <3>5. ~(Side' > 1) /\ status' # 3
      BY <1>1, <1>6, <1>23
    <3> QED BY <1>2, <3>4, <3>5 DEF SpiralInv
  <2>5. CASE co = 0
    <3>1. n = 1 /\ t = 1 /\ size * size = 1 /\ l = 0
      BY <1>3, <1>4, <1>10, <1>18, <1>23, <2>1, <2>5
    <3>2. m' = row
      <4>1. row[<<co, co>>] = 1
        <5>1. 0 \in 0..(n - 1) /\ line[0] = <<co, co>> /\ l + 1 + 0 = 1
          BY <1>16, <3>1
        <5> QED BY <1>15, <5>1 DEF Writes
      <4>2. row = [c \in Alone!Snail!Cell |-> row[c]]
        BY DEF row, Alone!Snail!Filled
      <4> QED BY <2>2, <2>3, <3>1, <4>1, <4>2
    <3>3. PICK p : Numbered(row, p, t) /\ Winds(row, p, t)
      BY <1>20, <3>1
    <3> QED BY <1>18, <2>4, <3>1, <3>2, <3>3
  <2>6. CASE co # 0
    <3>1. PICK cell : cell = <<co, co>>
      OBVIOUS
    <3> DEFINE end == [i \in 0..0 |-> cell]
    <3>2. n = 0 /\ l \in Nat /\ l + 1 = size * size
      BY <1>3, <1>4, <1>8, <1>10, <1>23, <2>6
    <3>3. row = m
      <4>1. DOMAIN line = {} /\ m \in [Alone!Snail!Cell -> Nat]
        BY <1>3, <1>5, <3>2 DEF SpiralInv, SnailInv, Alone!Snail!TypeOK
      <4> QED BY <4>1 DEF Alone!Snail!Filled, row
    <3>4. m[cell] = 0
      <4>1. Blank(cell)
        BY <1>1, <1>3, <1>4, <1>23, <3>1 DEF Blank
      <4> QED BY <1>8, <2>3, <3>1, <4>1
    <3>5. m' = [m EXCEPT ![cell] = l + 1]
      BY <2>2, <3>1, <3>2, <3>3
    <3>6. Writes(m, m', l, 1, end)
      BY <2>3, <3>1, <3>2, <3>3, <3>4, <3>5, LastWrites
    <3>7. LeadsOn(m, place, l, 1, end)
      <4>1. end[0] = GoesTo(place[l - 1], place[l], Above(m, l))
        BY <1>13, <2>6, <3>1
      <4> QED BY <1>8, <1>12, <2>6, <4>1 DEF LeadsOn
    <3>8. PICK p : Numbered(m', p, l + 1) /\ Winds(m', p, l + 1)
      BY <1>8, <3>2, <3>6, <3>7, Goes
    <3> QED BY <2>4, <3>2, <3>8
  <2> QED BY <2>5, <2>6
<1>24. Side = 1 \/ Side > 1
  BY <1>3
<1> QED BY <1>22, <1>23, <1>24

(* No turn of the loop leaves the spiral.                                   *)
LEMMA SpiralNext == SpiralInv /\ [Alone!Snail!Next]_(Alone!Snail!vars) => SpiralInv'
<1> SUFFICES ASSUME SpiralInv, [Alone!Snail!Next]_(Alone!Snail!vars) PROVE SpiralInv'
  OBVIOUS
<1>1. CASE UNCHANGED Alone!Snail!vars
  <2>1. UNCHANGED <<size, turn, m, next, counter, status, co>>
    BY <1>1 DEF Alone!Snail!vars
  <2>2. UNCHANGED Alone!Snail!Cell
    BY <2>1 DEF Alone!Snail!Cell
  <2>3. UNCHANGED <<Side, Edge, Closing, Last, Ahead>>
    BY <2>1 DEF Side, Edge, Closing, Last, Ahead
  <2>4. \A c \in Alone!Snail!Cell : Blank(c)' <=> Blank(c)
    BY <2>1, <2>3 DEF Blank
  <2>5. PICK l, place : l \in Nat /\ Laid(place, l)
    BY DEF SpiralInv
  <2>6. Numbered(m, place, l)'
    BY <2>1, <2>2, <2>5 DEF Laid, Numbered
  <2>7. Winds(m, place, l)'
    BY <2>1, <2>2, <2>5 DEF Laid, Winds, Above
  <2>8. CASE Closing
    <3>1. Closing' /\ size' * size' = l
      BY <2>1, <2>3, <2>5, <2>8 DEF Laid
    <3>2. Laid(place, l)'
      BY <2>6, <2>7, <3>1 DEF Laid
    <3> QED BY <1>1, <2>1, <2>3, <2>5, <3>2, SnailNext DEF SpiralInv
  <2>9. CASE ~Closing
    <3>1. ~Closing' /\ Underway(place, l)
      BY <2>3, <2>5, <2>9 DEF Laid
    <3>2. Underway(place, l)'
      BY <2>1, <2>2, <2>3, <2>4, <3>1 DEF Underway
    <3>3. Laid(place, l)'
      BY <2>6, <2>7, <3>1, <3>2 DEF Laid
    <3> QED BY <1>1, <2>1, <2>3, <2>5, <3>3, SnailNext DEF SpiralInv
  <2> QED BY <2>8, <2>9
<1> QED BY <1>1, TopWinds, RightWinds, BottomWinds, LeftWinds DEF Alone!Snail!Next

(* The square of ex2.4.c, of every size, is filled along the spiral: what   *)
(* is written at any turn of the loop are the first numbers, once each,     *)
(* every one ahead of the last or, where no free cell is there, to its      *)
(* right, and in the end there is none left out unless the size is two.     *)
THEOREM SpiralGoesRound == Spec => []SpiralFollowed
<1>1. Init => SpiralInv
  BY AloneBegins, SpiralInitial
<1>2. SpiralInv /\ [Next]_vars => SpiralInv'
  BY AloneSteps, SpiralNext
<1>3. SpiralInv => SpiralFollowed
  BY SpiralEnds DEF SpiralFollowed
<1> QED BY <1>1, <1>2, <1>3, PTL DEF Spec

-----------------------------------------------------------------------------
(* The types of all of them.                                                *)

(* Every variable of the small programs has its type: goods, connections,   *)
(* datagrams and counts stay in their bounds, and no loop of ex2.4.c runs   *)
(* past the numbers of its square.                                          *)
THEOREM ExercisesTypeCorrect == Spec => []ExercisesTyped
<1> DEFINE All ==
      /\ MagazInv /\ Goods /\ Tcp!TypeOK /\ UdpInv /\ CountInv
      /\ ArrayInv /\ HeapInv /\ SnailInv
<1>1. Init => All
  <2>1. Init => Tcp!TypeOK
    BY TcpInitial DEF Init
  <2>2. Init => UdpInv /\ CountInv
    BY ExercisesAssumption, UdpInitial, CountInitial DEF Init
  <2>3. Init => ArrayInv /\ HeapInv /\ SnailInv
    BY AloneBegins, ArrayInitial, HeapInitial, SnailInitial
  <2>4. Init => MagazInv /\ Goods
    BY ExercisesAssumption, MagazInitial, InitGoods DEF Init
  <2> QED BY <2>1, <2>2, <2>3, <2>4
<1>2. All /\ [Next]_vars => All'
  <2>1. Tcp!TypeOK /\ [Next]_vars => Tcp!TypeOK'
    BY TcpSteps, TcpNext
  <2>2. UdpInv /\ [Next]_vars => UdpInv'
    BY ExercisesAssumption, UdpSteps, UdpTypeKept, BalanceKept DEF UdpInv
  <2>3. CountInv /\ [Next]_vars => CountInv'
    BY ExercisesAssumption, CountSteps, CountInductive
  <2>4. ArrayInv /\ HeapInv /\ SnailInv /\ [Next]_vars => ArrayInv' /\ HeapInv' /\ SnailInv'
    BY AloneSteps, ArrayNext, HeapNext, SnailNext
  <2>5. MagazInv /\ Goods /\ [Next]_vars => (MagazInv /\ Goods)'
    BY ExercisesAssumption, MagazSteps, MagazInductive, GoodsKept
  <2> QED BY <2>1, <2>2, <2>3, <2>4, <2>5
<1>3. All => ExercisesTyped
  <2>1. All => Tcp!TypeOK /\ Udp!TypeOK /\ Count!TypeOK
    BY DEF UdpInv, CountInv
  <2>2. All => Alone!TypeOK
    BY ArrayTyped, HeapTyped DEF SnailInv, Alone!TypeOK
  <2>3. All => Magaz!TypeOK
    BY ExercisesAssumption, MagazTyped
  <2> QED BY <2>1, <2>2, <2>3 DEF ExercisesTyped
<1> HIDE DEF All
<1> QED BY <1>1, <1>2, <1>3, PTL DEF Spec

=============================================================================
