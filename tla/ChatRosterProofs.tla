-------------------------- MODULE ChatRosterProofs --------------------------
(***************************************************************************)
(* What ChatRoster guarantees for every number of clients and every room   *)
(* in the queue: TypeOK (so i never goes below -1 nor above the number of  *)
(* clients), CountBalanced, PatientServerSurvives, EntriesDistinct and     *)
(* RosterExact.                                                            *)
(*                                                                         *)
(* The argument is a balance: every step that changes i, a queue or who is *)
(* inside keeps  i + adds unread = clients inside + dels unread.  The      *)
(* dels are of clients that left, so i cannot exceed the clients; and a    *)
(* del is read only right after an add was read or none was there, when    *)
(* the balance makes i at least 0.  With patient clients the unread adds   *)
(* are of clients inside, one each: then i is at least the unread dels,    *)
(* and list[-1] is never written.                                          *)
(*                                                                         *)
(* That the room is right needs more than the count: an add and a del of a *)
(* client are unread at most once each (ComesOnce, LeavesOnce), so that no *)
(* client is listed twice and the del of one takes out its only entry.     *)
(***************************************************************************)
EXTENDS ChatRoster, FiniteSetTheorems, SequenceTheorems, TLAPS

Left == {c \in Client : cpc[c] = "left"}

(* A del is the last word of its client.                                    *)
DelsOfLeft == Len(delq) <= Cardinality(Left)

DelAfterAdd == spc = "del" => i >= 0

Pending == {c \in Client : \E k \in DOMAIN addq : addq[k] = c}

AddsOfInside ==
  /\ Pending \subseteq Inside
  /\ Len(addq) = Cardinality(Pending)
  /\ \A k, l \in DOMAIN addq : addq[k] = addq[l] => k = l
  /\ \A c \in Client : cexit[c] => c \notin Pending /\ cpc[c] # "start"

Sound == spc # "aborted" /\ i >= 0 /\ Intact(list)

IInv ==
  /\ TypeOK /\ CountBalanced /\ DelsOfLeft /\ DelAfterAdd
  /\ patient => AddsOfInside /\ Sound

-----------------------------------------------------------------------------
(* The clients inside and those that left are distinct clients.             *)
LEMMA InsideAndLeft ==
  /\ IsFiniteSet(Inside) /\ IsFiniteSet(Left) /\ IsFiniteSet(Client)
  /\ Cardinality(Inside) \in Nat /\ Cardinality(Left) \in Nat
  /\ Cardinality(Client) \in Nat
  /\ Cardinality(Inside) + Cardinality(Left) <= Cardinality(Client)
<1>1. Inside \in SUBSET Client /\ Left \in SUBSET Client /\ IsFiniteSet(Client)
  BY RosterAssumption DEF Inside, Left
<1>2. IsFiniteSet(Inside) /\ IsFiniteSet(Left)
  BY <1>1, FS_Subset
<1>3. Inside \cap Left = {}
  BY DEF Inside, Left
<1>4. Cardinality(Inside \cup Left) = Cardinality(Inside) + Cardinality(Left)
                                        - Cardinality(Inside \cap Left)
  BY <1>2, FS_Union
<1>5. Cardinality(Inside \cup Left) <= Cardinality(Client)
  <2>1. Inside \cup Left \in SUBSET Client
    BY <1>1
  <2> QED BY <1>1, <2>1, FS_Subset
<1>6. Cardinality(Inside) \in Nat /\ Cardinality(Left) \in Nat /\ Cardinality(Client) \in Nat
  BY <1>1, <1>2, FS_CardinalityType
<1>7. Cardinality(Inside \cap Left) = 0
  BY <1>3, FS_EmptySet
<1> QED BY <1>1, <1>2, <1>4, <1>5, <1>6, <1>7

(* The room and the adds still unread are no more than the clients.         *)
LEMMA RoomBound ==
  ASSUME TypeOK, CountBalanced, DelsOfLeft, Served
  PROVE  i + Len(addq) <= Cardinality(Client)
<1>1. Len(addq) \in Nat /\ Len(delq) \in Nat /\ i \in Int
  BY LenProperties DEF TypeOK
<1> QED BY <1>1, InsideAndLeft DEF CountBalanced, DelsOfLeft

(* The unread adds of patient clients are no more than the clients inside.  *)
LEMMA PendingBound ==
  ASSUME AddsOfInside
  PROVE  /\ Len(addq) <= Cardinality(Inside)
         /\ IsFiniteSet(Pending)
BY InsideAndLeft, FS_Subset DEF AddsOfInside

-----------------------------------------------------------------------------
LEMMA InitInvariant == Init => IInv
<1> SUFFICES ASSUME Init PROVE IInv
  OBVIOUS
<1>1. Inside = {} /\ Left = {} /\ Pending = {}
  BY DEF Init, Inside, Left, Pending
<1>2. Len(addq) = 0 /\ Len(delq) = 0 /\ addq \in Seq(Client) /\ delq \in Seq(Client)
  BY EmptySeq DEF Init
<1>3. Cardinality(Inside) = 0 /\ Cardinality(Left) = 0 /\ Cardinality(Pending) = 0
  BY <1>1, FS_EmptySet
<1>4. TypeOK
  <2>1. list \in [Index -> Client \cup {NoPid}]
    BY DEF Init
  <2>2. i \in -1 .. Cardinality(Client)
    BY InsideAndLeft DEF Init
  <2>3. cpc \in [Client -> {"start", "in", "left", "lost", "failed"}]
    BY DEF Init
  <2>4. cexit \in [Client -> BOOLEAN]
    BY DEF Init
  <2> QED BY <1>2, <2>1, <2>2, <2>3, <2>4 DEF Init, TypeOK
<1>5. CountBalanced /\ DelsOfLeft /\ DelAfterAdd
  BY <1>2, <1>3 DEF Init, CountBalanced, DelsOfLeft, DelAfterAdd
<1>6. AddsOfInside /\ Sound
  BY <1>1, <1>2, <1>3, RosterAssumption DEF Init, AddsOfInside, Sound, Intact, Index
<1> QED BY <1>4, <1>5, <1>6 DEF IInv

(* The steps that change neither the room, nor who is where, nor a queue of *)
(* adds or dels.                                                            *)
LEMMA OtherSteps ==
  ASSUME IInv, TypeOK',
         UNCHANGED <<list, i, addq, delq, cpc, cexit, patient>>,
         Served' => Served,
         spc' = "aborted" => spc = "aborted",
         spc' = "del" => spc \in {"add", "del"} /\ (spc = "add" => addq = <<>>)
  PROVE  IInv'
<1>1. Inside' = Inside /\ Left' = Left /\ Pending' = Pending
  BY DEF Inside, Left, Pending
<1>2. CountBalanced' /\ DelsOfLeft'
  BY <1>1 DEF IInv, CountBalanced, DelsOfLeft
<1>3. DelAfterAdd'
  <2>1. SUFFICES ASSUME spc' = "del", spc = "add" PROVE i >= 0
    BY DEF IInv, DelAfterAdd
  <2>2. Len(addq) = 0 /\ Len(delq) \in Nat /\ i \in Int
    BY <2>1, EmptySeq, LenProperties DEF IInv, TypeOK
  <2>3. i + Len(addq) = Cardinality(Inside) + Len(delq)
    BY <2>1 DEF IInv, CountBalanced, Served
  <2> QED BY <2>2, <2>3, InsideAndLeft
<1>4. patient => AddsOfInside' /\ Sound'
  BY <1>1 DEF IInv, AddsOfInside, Sound, Intact
<1> QED BY <1>2, <1>3, <1>4 DEF IInv

LEMMA ServerOtherStep ==
  ASSUME IInv,
         \/ Start \/ FirstLook \/ AwaitWindow \/ Test \/ TextsRead
         \/ NoAdd \/ NoDel \/ Quit \/ StopServer \/ WindowRuns
  PROVE  IInv'
<1>1. TypeOK'
  BY DEF IInv, TypeOK, Start, FirstLook, AwaitWindow, Test, TextsRead, NoAdd, NoDel,
         Quit, StopServer, WindowRuns, Window, WindowEnds, Room, serverVars, queueVars,
         clientVars
<1>2. /\ UNCHANGED <<list, i, addq, delq, cpc, cexit, patient>>
      /\ Served' => Served
      /\ spc' = "aborted" => spc = "aborted"
      /\ spc' = "del" => spc \in {"add", "del"} /\ (spc = "add" => addq = <<>>)
  BY DEF Start, FirstLook, AwaitWindow, Test, TextsRead, NoAdd, NoDel,
         Quit, StopServer, WindowRuns, Window, WindowEnds, Room, serverVars, queueVars,
         clientVars, Served
<1> QED BY <1>1, <1>2, OtherSteps

(* An add read: one more in the room.                                       *)
LEMMA AddStep == IInv /\ AddClient => IInv'
<1> SUFFICES ASSUME IInv, AddClient PROVE IInv'
  OBVIOUS
<1> USE DEF IInv
<1>1. /\ Head(addq) \in Client /\ addq' = Tail(addq) /\ addq' \in Seq(Client)
      /\ Len(addq') = Len(addq) - 1
      /\ Len(addq) \in Nat /\ Len(delq) \in Nat /\ Len(addq') \in Nat /\ i \in Int
      /\ \A k \in 1 .. Len(addq') : addq'[k] = addq[k+1]
      /\ DOMAIN addq = 1 .. Len(addq) /\ DOMAIN addq' = 1 .. Len(addq')
  BY HeadTailProperties, LenProperties DEF AddClient, TypeOK
<1>2. /\ Inside' = Inside /\ Left' = Left /\ Served
      /\ UNCHANGED <<delq, cpc, cexit, patient>>
  BY DEF AddClient, Inside, Left, clientVars, Served
<1>3. i + Len(addq) <= Cardinality(Client)
  BY <1>2, RoomBound
<1>4. TypeOK'
  <2>1. list' \in [Index -> Client \cup {NoPid}]
    BY <1>1 DEF TypeOK, AddClient, Listed
  <2>2. i' \in -1 .. Cardinality(Client)
    BY <1>1, <1>3, InsideAndLeft DEF TypeOK, AddClient
  <2>3. spc' \in {"del", "aborted"}
    BY DEF AddClient
  <2> QED BY <1>1, <1>2, <2>1, <2>2, <2>3 DEF TypeOK, AddClient
<1>5. CountBalanced' /\ DelsOfLeft'
  BY <1>1, <1>2, InsideAndLeft DEF AddClient, CountBalanced, DelsOfLeft, Served
<1>6. DelAfterAdd'
  BY <1>1 DEF AddClient, DelAfterAdd, TypeOK
<1>7. ASSUME patient PROVE AddsOfInside' /\ Sound'
  <2>1. AddsOfInside /\ Sound
    BY <1>7
  <2>2. Pending' = Pending \ {Head(addq)} /\ Head(addq) \in Pending
    <3>1. Head(addq) = addq[1] /\ 1 \in DOMAIN addq
      BY <1>1
    <3>2. \A k \in DOMAIN addq : k # 1 => addq[k] # addq[1]
      BY <2>1, <3>1 DEF AddsOfInside
    <3>3. \A k \in DOMAIN addq : k # 1 => k - 1 \in DOMAIN addq' /\ addq'[k-1] = addq[k]
      BY <1>1
    <3>4. \A k \in DOMAIN addq' : k + 1 \in DOMAIN addq /\ addq'[k] = addq[k+1]
      BY <1>1
    <3>5. \A k \in DOMAIN addq' : k + 1 # 1
      BY <1>1
    <3>6. Pending' \subseteq Pending \ {Head(addq)}
      BY <3>1, <3>2, <3>4, <3>5 DEF Pending
    <3>7. Pending \ {Head(addq)} \subseteq Pending'
      BY <3>1, <3>3 DEF Pending
    <3>8. Head(addq) \in Pending
      BY <1>1, <3>1 DEF Pending
    <3> QED BY <3>6, <3>7, <3>8
  <2>3. Len(addq') = Cardinality(Pending')
    BY <1>1, <2>1, <2>2, PendingBound, FS_RemoveElement DEF AddsOfInside
  <2>4. \A k, l \in DOMAIN addq' : addq'[k] = addq'[l] => k = l
    <3>1. \A k \in DOMAIN addq' : k \in Int /\ k + 1 \in DOMAIN addq /\ addq'[k] = addq[k+1]
      BY <1>1
    <3>2. ASSUME NEW k \in DOMAIN addq', NEW l \in DOMAIN addq', addq'[k] = addq'[l]
          PROVE  k = l
      <4>1. k + 1 = l + 1
        BY <2>1, <3>1, <3>2 DEF AddsOfInside
      <4> QED BY <3>1, <4>1
    <3> QED BY <3>2
  <2>5. AddsOfInside'
    BY <1>2, <2>1, <2>2, <2>3, <2>4 DEF AddsOfInside
  <2>6. Sound'
    BY <1>1, <2>1, RosterAssumption DEF AddClient, Sound, Intact, Listed, TypeOK, Index
  <2> QED BY <2>5, <2>6
<1> QED BY <1>2, <1>4, <1>5, <1>6, <1>7

(* A del read: one less in the room, found or not.                          *)
LEMMA DelStep == IInv /\ DelClient => IInv'
<1> SUFFICES ASSUME IInv, DelClient PROVE IInv'
  OBVIOUS
<1> USE DEF IInv
<1>1. /\ Head(delq) \in Client /\ delq' = Tail(delq) /\ delq' \in Seq(Client)
      /\ Len(delq') = Len(delq) - 1 /\ Len(delq') \in Nat
      /\ Len(addq) \in Nat /\ Len(delq) \in Nat /\ i \in Int
  BY HeadTailProperties, LenProperties DEF DelClient, TypeOK
<1>2. /\ Inside' = Inside /\ Left' = Left /\ Pending' = Pending /\ Served
      /\ UNCHANGED <<addq, cpc, cexit, patient>>
      /\ i' = i - 1 /\ i >= 0
  BY DEF DelClient, Inside, Left, Pending, clientVars, Served, Shrunk, DelAfterAdd
<1>3. i + Len(addq) = Cardinality(Inside) + Len(delq)
  BY <1>2 DEF CountBalanced
<1>4. Without(Head(delq)) \in [Index -> Client \cup {NoPid}]
  <2>1. i <= Cardinality(Client) /\ Cardinality(Client) < ListRoom /\ ListRoom \in Nat
    BY InsideAndLeft, RosterAssumption DEF TypeOK
  <2>2. ASSUME NEW k \in Index, k < i PROVE k + 1 \in Index
    BY <2>1, <2>2, <1>1, InsideAndLeft DEF Index
  <2> QED BY <2>2 DEF Without, TypeOK
<1>5. TypeOK'
  BY <1>1, <1>2, <1>4, InsideAndLeft DEF TypeOK, DelClient, clientVars
<1>6. CountBalanced' /\ DelsOfLeft'
  BY <1>1, <1>2, <1>3, InsideAndLeft DEF CountBalanced, DelsOfLeft
<1>7. DelAfterAdd'
  BY DEF DelClient, DelAfterAdd
<1>8. ASSUME patient PROVE AddsOfInside' /\ Sound'
  <2>1. AddsOfInside /\ Sound
    BY <1>8
  <2>2. AddsOfInside'
    BY <1>2, <2>1 DEF AddsOfInside
  <2>3. i' >= 0
    BY <1>1, <1>2, <1>3, <2>1, PendingBound, InsideAndLeft
  <2>4. list'[-1] = list[-1]
    <3>1. \A p \in Places(Head(delq)) : ~(p <= -1)
      BY <1>1, <2>1, RosterAssumption DEF Places, Sound, Intact
    <3>2. -1 \in Index
      BY RosterAssumption DEF Index
    <3> QED BY <3>1, <3>2 DEF DelClient, Without
  <2>5. Sound'
    BY <2>1, <2>3, <2>4 DEF Sound, Intact, DelClient
  <2> QED BY <2>2, <2>5
<1> QED BY <1>2, <1>5, <1>6, <1>7, <1>8

(* A client comes: one more inside, and one more add, or neither.           *)
LEMMA JoinStep ==
  ASSUME IInv, NEW c \in Client, NEW room \in BOOLEAN, Join(c, room)
  PROVE  IInv'
<1> USE DEF IInv
<1>1. /\ Left' = Left /\ UNCHANGED <<spc, list, i, delq, cexit, patient>>
      /\ Served' = Served
  BY DEF Join, Left, serverVars, TypeOK, Served
<1>2. CASE alive /\ room /\ addq' = Append(addq, c) /\ cpc' = [cpc EXCEPT ![c] = "in"]
  <2>1. /\ addq' \in Seq(Client) /\ Len(addq') = Len(addq) + 1
        /\ Len(addq) \in Nat /\ Len(delq) \in Nat /\ i \in Int
        /\ \A k \in 1 .. Len(addq) : addq'[k] = addq[k]
        /\ addq'[Len(addq) + 1] = c
        /\ DOMAIN addq = 1 .. Len(addq) /\ DOMAIN addq' = 1 .. Len(addq) + 1
    BY <1>2, AppendProperties, LenProperties DEF TypeOK
  <2>2. Inside' = Inside \cup {c} /\ c \notin Inside
    BY <1>2 DEF Join, Inside, TypeOK
  <2>3. Cardinality(Inside') = Cardinality(Inside) + 1
    BY <2>2, InsideAndLeft, FS_AddElement
  <2>4. TypeOK'
    BY <1>2, <2>1 DEF Join, TypeOK, serverVars
  <2>5. CountBalanced' /\ DelsOfLeft' /\ DelAfterAdd'
    BY <1>1, <2>1, <2>3, InsideAndLeft DEF CountBalanced, DelsOfLeft, DelAfterAdd
  <2>6. ASSUME patient PROVE AddsOfInside' /\ Sound'
    <3>1. AddsOfInside /\ Sound
      BY <2>6
    <3>2. Pending' = Pending \cup {c} /\ c \notin Pending
      <4>1. c \notin Pending
        BY <2>2, <3>1 DEF AddsOfInside
      <4>2. Pending' \subseteq Pending \cup {c}
        BY <2>1 DEF Pending
      <4>3. Pending \cup {c} \subseteq Pending'
        BY <2>1 DEF Pending
      <4> QED BY <4>1, <4>2, <4>3
    <3>3. Len(addq') = Cardinality(Pending')
      <4>1. IsFiniteSet(Pending) /\ Len(addq) = Cardinality(Pending)
        BY <3>1, PendingBound DEF AddsOfInside
      <4>2. Cardinality(Pending \cup {c}) = Cardinality(Pending) + 1
        BY <3>2, <4>1, FS_AddElement
      <4> QED BY <2>1, <3>2, <4>1, <4>2
    <3>4. \A k, l \in DOMAIN addq' : addq'[k] = addq'[l] => k = l
      <4>1. \A k \in DOMAIN addq : addq[k] # c
        BY <3>2 DEF Pending
      <4>2. \A k \in DOMAIN addq' :
              \/ k \in DOMAIN addq /\ addq'[k] = addq[k]
              \/ k = Len(addq) + 1 /\ addq'[k] = c
        BY <2>1
      <4> QED BY <3>1, <4>1, <4>2 DEF AddsOfInside
    <3>5. \A d \in Client : cexit'[d] => d \notin Pending' /\ cpc'[d] # "start"
      BY <1>1, <1>2, <3>1, <3>2 DEF AddsOfInside, Join, TypeOK
    <3>6. AddsOfInside'
      BY <2>2, <3>1, <3>2, <3>3, <3>4, <3>5 DEF AddsOfInside
    <3> QED BY <1>1, <3>1, <3>6 DEF Sound, Intact
  <2> QED BY <1>1, <2>4, <2>5, <2>6
<1>3. CASE cpc' = [cpc EXCEPT ![c] = "failed"] /\ UNCHANGED addq
  <2>1. Inside' = Inside /\ Pending' = Pending
    BY <1>3 DEF Join, Inside, Pending, TypeOK
  <2>2. TypeOK'
    BY <1>3 DEF Join, TypeOK, serverVars
  <2>3. CountBalanced' /\ DelsOfLeft' /\ DelAfterAdd'
    BY <1>1, <1>3, <2>1 DEF CountBalanced, DelsOfLeft, DelAfterAdd
  <2>4. patient => AddsOfInside' /\ Sound'
    BY <1>1, <1>3, <2>1 DEF AddsOfInside, Sound, Intact, TypeOK
  <2> QED BY <1>1, <2>2, <2>3, <2>4
<1> QED BY <1>2, <1>3 DEF Join

(* A client leaves: one less inside, and one more del, or neither.          *)
LEMMA LeaveStep ==
  ASSUME IInv, NEW c \in Client, NEW room \in BOOLEAN, Leave(c, room)
  PROVE  IInv'
<1> USE DEF IInv
<1>1. /\ Pending' = Pending /\ UNCHANGED <<spc, list, i, addq, cexit, patient>>
      /\ Served' = Served
  BY DEF Leave, Pending, serverVars, Served
<1>2. CASE alive /\ room /\ delq' = Append(delq, c) /\ cpc' = [cpc EXCEPT ![c] = "left"]
  <2>1. /\ delq' \in Seq(Client) /\ Len(delq') = Len(delq) + 1
        /\ Len(addq) \in Nat /\ Len(delq) \in Nat /\ i \in Int
    BY <1>2, AppendProperties, LenProperties DEF TypeOK
  <2>2. /\ Inside' = Inside \ {c} /\ c \in Inside
        /\ Left' = Left \cup {c} /\ c \notin Left
    BY <1>2 DEF Leave, Inside, Left, TypeOK
  <2>3. /\ Cardinality(Inside') = Cardinality(Inside) - 1
        /\ Cardinality(Left') = Cardinality(Left) + 1
    BY <2>2, InsideAndLeft, FS_AddElement, FS_RemoveElement
  <2>4. TypeOK'
    BY <1>2, <2>1 DEF Leave, TypeOK, serverVars
  <2>5. CountBalanced' /\ DelsOfLeft' /\ DelAfterAdd'
    BY <1>1, <2>1, <2>3, InsideAndLeft DEF CountBalanced, DelsOfLeft, DelAfterAdd
  <2>6. ASSUME patient PROVE AddsOfInside' /\ Sound'
    <3>1. AddsOfInside /\ Sound /\ c \notin Pending
      BY <2>6 DEF AddsOfInside, Leave
    <3>2. AddsOfInside'
      BY <1>1, <1>2, <2>2, <3>1 DEF AddsOfInside, TypeOK
    <3> QED BY <1>1, <3>1, <3>2 DEF Sound, Intact
  <2> QED BY <1>1, <2>4, <2>5, <2>6
<1>3. CASE cpc' = [cpc EXCEPT ![c] = "lost"] /\ UNCHANGED delq
  <2>1. Inside' = Inside /\ Left' = Left
    BY <1>3 DEF Leave, Inside, Left, TypeOK
  <2>2. TypeOK'
    BY <1>3 DEF Leave, TypeOK, serverVars
  <2>3. CountBalanced' /\ DelsOfLeft' /\ DelAfterAdd'
    BY <1>1, <1>3, <2>1 DEF CountBalanced, DelsOfLeft, DelAfterAdd
  <2>4. patient => AddsOfInside' /\ Sound'
    BY <1>1, <1>3, <2>1 DEF AddsOfInside, Sound, Intact, TypeOK
  <2> QED BY <1>1, <2>2, <2>3, <2>4
<1> QED BY <1>2, <1>3 DEF Leave

(* SIGINT, or a text that does not fit: nobody comes or leaves.             *)
LEMMA OtherClientStep ==
  ASSUME IInv, NEW c \in Client, StopClient(c) \/ Fail(c)
  PROVE  IInv'
<1> USE DEF IInv
<1>1. /\ UNCHANGED <<spc, list, i, addq, delq, patient>>
      /\ Inside' = Inside /\ Left' = Left /\ Pending' = Pending /\ Served' = Served
  BY DEF StopClient, Fail, serverVars, queueVars, Inside, Left, Pending, TypeOK, Served
<1>2. TypeOK'
  BY DEF StopClient, Fail, serverVars, queueVars, TypeOK
<1>3. CountBalanced' /\ DelsOfLeft' /\ DelAfterAdd'
  BY <1>1 DEF CountBalanced, DelsOfLeft, DelAfterAdd
<1>4. ASSUME patient PROVE AddsOfInside' /\ Sound'
  <2>1. AddsOfInside /\ Sound
    BY <1>4
  <2>2. \A d \in Client : cexit'[d] => d \notin Pending /\ cpc'[d] # "start"
    <3>1. CASE StopClient(c)
      BY <1>4, <2>1, <3>1 DEF StopClient, AddsOfInside, Pending, TypeOK
    <3>2. CASE Fail(c)
      BY <2>1, <3>2 DEF Fail, AddsOfInside, TypeOK
    <3> QED BY <3>1, <3>2
  <2> QED BY <1>1, <2>1, <2>2 DEF AddsOfInside, Sound, Intact
<1> QED BY <1>1, <1>2, <1>3, <1>4

-----------------------------------------------------------------------------
LEMMA NextInvariant == IInv /\ [Next]_rosterVars => IInv'
<1> SUFFICES ASSUME IInv, [Next]_rosterVars PROVE IInv'
  OBVIOUS
<1>1. CASE ServerRuns
  BY <1>1, ServerOtherStep, AddStep, DelStep DEF ServerRuns
<1>2. CASE StopServer \/ WindowRuns
  BY <1>2, ServerOtherStep
<1>3. ASSUME NEW c \in Client, ClientActs(c) PROVE IInv'
  <2>1. ASSUME NEW room \in Room, Join(c, room) \/ Leave(c, room) PROVE IInv'
    BY <2>1, JoinStep, LeaveStep DEF Room
  <2> QED BY <1>3, <2>1, OtherClientStep DEF ClientActs
<1>4. CASE UNCHANGED rosterVars
  <2>1. TypeOK'
    BY <1>4 DEF IInv, TypeOK, rosterVars, serverVars, queueVars, clientVars
  <2> QED BY <1>4, <2>1, OtherSteps
         DEF IInv, DelAfterAdd, rosterVars, serverVars, queueVars, clientVars, Served
<1> QED BY <1>1, <1>2, <1>3, <1>4 DEF Next

(* The strengthened invariant holds in every behaviour.                     *)
THEOREM Invariance == SafeSpec => []IInv
<1>1. Init => IInv
  BY InitInvariant
<1>2. IInv /\ [Next]_rosterVars => IInv'
  BY NextInvariant
<1> QED BY <1>1, <1>2, PTL DEF SafeSpec

(* For any number of clients i stays between -1 and that number, whatever   *)
(* order the messages are read in, and the loops stay inside the list.      *)
THEOREM TypeCorrect == SafeSpec => []TypeOK
<1>1. IInv => TypeOK
  BY DEF IInv
<1> QED BY <1>1, Invariance, PTL

(* The number of clients lags behind only by the messages unread.           *)
THEOREM CountRight == SafeSpec => []CountBalanced
<1>1. IInv => CountBalanced
  BY DEF IInv
<1> QED BY <1>1, Invariance, PTL

(* As long as no client leaves before it was listed, list[-1] is not        *)
(* written and no realloc() ends the server.                                *)
THEOREM PatientSafe == SafeSpec => []PatientServerSurvives
<1>1. IInv => PatientServerSurvives
  BY DEF IInv, Sound, PatientServerSurvives
<1> QED BY <1>1, Invariance, PTL

-----------------------------------------------------------------------------
(* Who is in the room.                                                      *)

(* The clients in a queue, which has none of them twice.                    *)
In(q) == {c \in Client : \E k \in DOMAIN q : q[k] = c}
Distinct(q) == \A k, l \in DOMAIN q : q[k] = q[l] => k = l

InRoom == {list[k] : k \in 0 .. i - 1}

(* Every client comes once: it is in one place at most.                     *)
ComesOnce ==
  /\ Distinct(addq) /\ InRoom \subseteq Client
  /\ \A c \in In(addq) \cup InRoom : cpc[c] # "start"
  /\ In(addq) \cap InRoom = {}

LeavesOnce == Distinct(delq) /\ In(delq) \subseteq Left

RoomInv == IInv /\ EntriesDistinct /\ ComesOnce /\ LeavesOnce /\ RosterExact

LEMMA TailDistinct ==
  ASSUME NEW q \in Seq(Client), q # <<>>, Distinct(q)
  PROVE  /\ Head(q) \in Client /\ Head(q) \in In(q)
         /\ Distinct(Tail(q)) /\ In(Tail(q)) = In(q) \ {Head(q)}
<1>1. /\ Head(q) \in Client /\ Tail(q) \in Seq(Client)
      /\ Len(q) \in Nat /\ Len(Tail(q)) = Len(q) - 1 /\ Len(Tail(q)) \in Nat
      /\ \A k \in 1 .. Len(Tail(q)) : Tail(q)[k] = q[k+1]
      /\ DOMAIN q = 1 .. Len(q) /\ DOMAIN Tail(q) = 1 .. Len(Tail(q))
  BY HeadTailProperties, LenProperties
<1>2. Head(q) = q[1] /\ 1 \in DOMAIN q
  BY <1>1
<1>3. \A k \in DOMAIN Tail(q) : k \in Int /\ k + 1 \in DOMAIN q /\ k + 1 # 1 /\ Tail(q)[k] = q[k+1]
  BY <1>1
<1>4. \A k \in DOMAIN q : k # 1 => k - 1 \in DOMAIN Tail(q) /\ Tail(q)[k-1] = q[k]
  BY <1>1
<1>5. Distinct(Tail(q))
  <2>1. ASSUME NEW k \in DOMAIN Tail(q), NEW l \in DOMAIN Tail(q), Tail(q)[k] = Tail(q)[l]
        PROVE  k = l
    <3>1. k + 1 = l + 1
      BY <1>3, <2>1 DEF Distinct
    <3> QED BY <1>3, <3>1
  <2> QED BY <2>1 DEF Distinct
<1>6. \A k \in DOMAIN q : k # 1 => q[k] # q[1]
  BY <1>2 DEF Distinct
<1>7. In(Tail(q)) \subseteq In(q) \ {Head(q)}
  BY <1>2, <1>3, <1>6 DEF In
<1>8. In(q) \ {Head(q)} \subseteq In(Tail(q))
  BY <1>2, <1>4 DEF In
<1>9. Head(q) \in In(q)
  BY <1>1, <1>2 DEF In
<1> QED BY <1>1, <1>5, <1>7, <1>8, <1>9

LEMMA AppendDistinct ==
  ASSUME NEW q \in Seq(Client), NEW c \in Client, Distinct(q), c \notin In(q)
  PROVE  Distinct(Append(q, c)) /\ In(Append(q, c)) = In(q) \cup {c}
<1>1. /\ Len(q) \in Nat /\ Append(q, c) \in Seq(Client) /\ Len(Append(q, c)) = Len(q) + 1
      /\ \A k \in 1 .. Len(q) : Append(q, c)[k] = q[k]
      /\ Append(q, c)[Len(q) + 1] = c
      /\ DOMAIN q = 1 .. Len(q) /\ DOMAIN Append(q, c) = 1 .. Len(q) + 1
  BY AppendProperties, LenProperties
<1>2. \A k \in DOMAIN q : q[k] # c
  BY DEF In
<1>3. \A k \in DOMAIN Append(q, c) :
        \/ k \in DOMAIN q /\ Append(q, c)[k] = q[k]
        \/ k = Len(q) + 1 /\ Append(q, c)[k] = c
  BY <1>1
<1>4. Distinct(Append(q, c))
  BY <1>2, <1>3 DEF Distinct
<1>5. In(Append(q, c)) \subseteq In(q) \cup {c}
  BY <1>3 DEF In
<1>6. \A k \in DOMAIN q : k \in DOMAIN Append(q, c) /\ Append(q, c)[k] = q[k]
  BY <1>1
<1>7. c \in In(Append(q, c))
  BY <1>1 DEF In
<1>8. In(q) \subseteq In(Append(q, c))
  BY <1>6 DEF In
<1> QED BY <1>4, <1>5, <1>7, <1>8

(* What a del does to the room, d being there or not.                       *)
LEMMA RoomAfterDel ==
  ASSUME TypeOK, EntriesDistinct, NEW d \in Client, i >= 0,
         list' = Without(d), i' = i - 1
  PROVE  /\ EntriesDistinct' /\ InRoom' \subseteq InRoom
         /\ Intact(list) /\ d \in InRoom => InRoom' = InRoom \ {d}
<1> DEFINE from(k) == IF \E p \in Places(d) : p <= k THEN k + 1 ELSE k
<1>1. i \in Int /\ i <= Cardinality(Client) /\ Cardinality(Client) < ListRoom
      /\ ListRoom \in Nat /\ Cardinality(Client) \in Nat
  BY InsideAndLeft, RosterAssumption DEF TypeOK
<1>2. \A k \in -1 .. i - 1 : k \in Index
  BY <1>1 DEF Index
<1>3. \A p \in Places(d) : p \in Int
  BY DEF Places
<1>4. \A k \in 0 .. i' - 1 : from(k) \in 0 .. i - 1 /\ list'[k] = list[from(k)]
  <2>1. ASSUME NEW k \in 0 .. i' - 1 PROVE from(k) \in 0 .. i - 1 /\ list'[k] = list[from(k)]
    <3>1. k \in Index /\ k < i /\ k \in Int
      BY <1>1, <1>2
    <3>2. list'[k] = list[from(k)]
      BY <3>1 DEF Without
    <3>3. from(k) \in 0 .. i - 1
      BY <1>1
    <3> QED BY <3>2, <3>3
  <2> QED BY <2>1
<1>5. \A k, l \in 0 .. i' - 1 : k < l => from(k) < from(l)
  BY <1>1, <1>3
<1>6. \A k, l \in 0 .. i' - 1 : k # l => from(k) # from(l)
  <2>1. \A k, l \in 0 .. i' - 1 : k # l => k < l \/ l < k
    BY <1>1
  <2>2. \A k \in 0 .. i' - 1 : from(k) \in Int
    BY <1>4
  <2> HIDE DEF from
  <2> QED BY <1>5, <2>1, <2>2
<1> HIDE DEF from
<1>7. EntriesDistinct'
  <2>1. \A k \in 0 .. i' - 1 : list'[k] # NoPid
    BY <1>4 DEF EntriesDistinct
  <2>2. \A k, l \in 0 .. i' - 1 : k # l => list'[k] # list'[l]
    BY <1>4, <1>6 DEF EntriesDistinct
  <2> QED BY <2>1, <2>2 DEF EntriesDistinct
<1>8. InRoom' \subseteq InRoom
  BY <1>4 DEF InRoom
<1>9. ASSUME Intact(list), d \in InRoom PROVE InRoom' = InRoom \ {d}
  <2>1. PICK p \in 0 .. i - 1 : list[p] = d
    BY <1>9 DEF InRoom
  <2>2. Places(d) = {p}
    <3>1. list[-1] # d
      BY <1>9, RosterAssumption DEF Intact
    <3>2. p \in Places(d)
      BY <2>1 DEF Places
    <3>3. \A k \in -1 .. i - 1 : k = -1 \/ k \in 0 .. i - 1
      BY <1>1
    <3>4. \A k \in Places(d) : k = p
      BY <2>1, <3>1, <3>3 DEF Places, EntriesDistinct
    <3> QED BY <3>2, <3>4
  <2>3. \A k \in 0 .. i' - 1 : from(k) = IF p <= k THEN k + 1 ELSE k
    BY <2>2 DEF from
  <2>4. \A k \in 0 .. i' - 1 : from(k) # p
    BY <1>1, <2>3
  <2>5. d \notin InRoom'
    BY <1>4, <2>1, <2>4 DEF InRoom, EntriesDistinct
  <2>6. ASSUME NEW j \in 0 .. i - 1, j # p PROVE list[j] \in InRoom'
    <3>1. CASE j < p
      <4>1. j \in 0 .. i' - 1 /\ from(j) = j
        BY <1>1, <2>3, <3>1
      <4> QED BY <1>4, <4>1 DEF InRoom
    <3>2. CASE j > p
      <4>1. j - 1 \in 0 .. i' - 1 /\ from(j - 1) = j
        BY <1>1, <2>3, <3>2
      <4> QED BY <1>4, <4>1 DEF InRoom
    <3> QED BY <1>1, <2>6, <3>1, <3>2
  <2>7. InRoom \ {d} \subseteq InRoom'
    BY <2>1, <2>6 DEF InRoom
  <2> QED BY <1>8, <2>5, <2>7
<1> QED BY <1>7, <1>8, <1>9

(* And an add.                                                              *)
LEMMA RoomAfterAdd ==
  ASSUME TypeOK, EntriesDistinct, NEW c \in Client, c \notin InRoom, i < ListRoom,
         list' = Listed(c), i' = i + 1
  PROVE  /\ EntriesDistinct' /\ InRoom' \subseteq InRoom \cup {c}
         /\ i >= 0 => InRoom' = InRoom \cup {c}
<1>1. i \in Int /\ i >= -1 /\ ListRoom \in Nat
  BY InsideAndLeft, RosterAssumption DEF TypeOK
<1>2. i \in Index /\ \A k \in 0 .. i' - 1 : k \in Index /\ (k = i \/ k \in 0 .. i - 1)
  BY <1>1 DEF Index
<1>3. \A k \in Index : list'[k] = IF k = i THEN c ELSE list[k]
  BY <1>2 DEF Listed, TypeOK
<1>4. \A k \in 0 .. i - 1 : k # i /\ k \in 0 .. i' - 1 /\ list[k] # c
  BY <1>1 DEF InRoom
<1>5. c # NoPid
  BY RosterAssumption
<1>6. EntriesDistinct'
  <2>1. \A k \in 0 .. i' - 1 : list'[k] # NoPid
    BY <1>2, <1>3, <1>5 DEF EntriesDistinct
  <2>2. \A k, l \in 0 .. i' - 1 : k # l => list'[k] # list'[l]
    BY <1>2, <1>3, <1>4 DEF EntriesDistinct
  <2> QED BY <2>1, <2>2 DEF EntriesDistinct
<1>7. InRoom' \subseteq InRoom \cup {c}
  BY <1>2, <1>3 DEF InRoom
<1>8. InRoom \subseteq InRoom'
  BY <1>2, <1>3, <1>4 DEF InRoom
<1>9. i >= 0 => c \in InRoom'
  <2>1. i >= 0 => i \in 0 .. i' - 1
    BY <1>1
  <2> QED BY <1>2, <1>3, <2>1 DEF InRoom
<1> QED BY <1>6, <1>7, <1>8, <1>9

(* The room that RosterExact asks for.                                      *)
Expected == {c \in Client : (c \in Inside \/ c \in In(delq)) /\ c \notin In(addq)}

LEMMA ExactMeans == RosterExact <=> (Served /\ patient => InRoom = Expected)
BY DEF RosterExact, InRoom, Expected, In

LEMMA ExactMeansNext == RosterExact' <=> (Served' /\ patient' => InRoom' = Expected')
BY DEF RosterExact, InRoom, Expected, In


LEMMA RoomInit == Init => RoomInv
<1> SUFFICES ASSUME Init PROVE RoomInv
  OBVIOUS
<1>1. In(addq) = {} /\ In(delq) = {} /\ InRoom = {} /\ Inside = {}
  BY DEF Init, In, InRoom, Inside
<1>2. EntriesDistinct /\ Distinct(addq) /\ Distinct(delq)
  BY DEF Init, EntriesDistinct, Distinct
<1>3. ComesOnce /\ LeavesOnce
  BY <1>1, <1>2 DEF ComesOnce, LeavesOnce
<1>4. RosterExact
  <2>1. Expected = {}
    BY <1>1 DEF Expected
  <2> QED BY <1>1, <2>1, ExactMeans
<1> QED BY <1>2, <1>3, <1>4, InitInvariant DEF RoomInv

(* The steps that leave the room and both queues alone.                     *)
LEMMA RoomLeftAlone ==
  ASSUME RoomInv, IInv', UNCHANGED <<list, i, addq, delq, patient>>, Served' => Served,
         Inside' = Inside, Left \subseteq Left',
         \A c \in Client : cpc'[c] = "start" => cpc[c] = "start"
  PROVE  RoomInv'
<1>1. InRoom' = InRoom /\ In(addq)' = In(addq) /\ In(delq)' = In(delq)
  BY DEF InRoom, In
<1>2. EntriesDistinct' /\ ComesOnce' /\ LeavesOnce'
  BY <1>1 DEF RoomInv, EntriesDistinct, ComesOnce, LeavesOnce, Distinct, In
<1>3. RosterExact'
  <2>1. Expected' = Expected
    BY <1>1 DEF Expected
  <2> QED BY <1>1, <2>1, ExactMeans, ExactMeansNext DEF RoomInv
<1> QED BY <1>2, <1>3 DEF RoomInv

LEMMA RoomServerOther ==
  ASSUME RoomInv, IInv',
         \/ Start \/ FirstLook \/ AwaitWindow \/ Test \/ TextsRead
         \/ NoAdd \/ NoDel \/ Quit \/ StopServer \/ WindowRuns
  PROVE  RoomInv'
<1>1. UNCHANGED <<list, i, addq, delq, cpc, patient>> /\ (Served' => Served)
  BY DEF Start, FirstLook, AwaitWindow, Test, TextsRead, NoAdd, NoDel,
         Quit, StopServer, WindowRuns, Window, WindowEnds, serverVars, queueVars,
         clientVars, Served
<1>2. Inside' = Inside /\ Left' = Left
  BY <1>1 DEF Inside, Left
<1> QED BY <1>1, <1>2, RoomLeftAlone

(* Who is listed has been in the queue and in no other place.               *)
LEMMA RoomAddStep == ASSUME RoomInv, IInv', AddClient PROVE RoomInv'
<1> DEFINE c == Head(addq)
<1>1. addq \in Seq(Client) /\ addq # <<>> /\ Distinct(addq)
  BY DEF AddClient, RoomInv, IInv, TypeOK, ComesOnce
<1>2. /\ c \in Client /\ c \in In(addq)
      /\ Distinct(addq') /\ In(addq)' = In(addq) \ {c}
  <2>1. addq' = Tail(addq)
    BY DEF AddClient
  <2>2. In(addq)' = In(Tail(addq))
    BY <2>1 DEF In
  <2> QED BY <1>1, <2>1, <2>2, TailDistinct
<1>3. UNCHANGED <<delq, cpc, patient>> /\ Served
  BY DEF AddClient, clientVars, Served
<1>4. Inside' = Inside /\ In(delq)' = In(delq) /\ Left' = Left
  BY <1>3 DEF Inside, In, Left
<1>5. c \notin InRoom /\ cpc[c] # "start"
  BY <1>2 DEF RoomInv, ComesOnce
<1>6. LeavesOnce'
  BY <1>3, <1>4 DEF RoomInv, LeavesOnce, Distinct
<1>7. CASE Intact(list)
  <2>1. list' = Listed(c) /\ i' = i + 1 /\ Served'
    BY <1>7 DEF AddClient, Served
  <2>2. i < ListRoom
    BY InsideAndLeft, RosterAssumption DEF RoomInv, IInv, TypeOK
  <2>3. /\ EntriesDistinct' /\ InRoom' \subseteq InRoom \cup {c}
        /\ i >= 0 => InRoom' = InRoom \cup {c}
    BY <1>2, <1>5, <2>1, <2>2, RoomAfterAdd DEF RoomInv, IInv
  <2>4. ComesOnce'
    <3>1. InRoom' \subseteq Client /\ In(addq)' \cap InRoom' = {}
      BY <1>2, <2>3 DEF RoomInv, ComesOnce
    <3>2. \A d \in In(addq)' \cup InRoom' : cpc'[d] # "start"
      BY <1>2, <1>3, <1>5, <2>3 DEF RoomInv, ComesOnce
    <3> QED BY <1>2, <3>1, <3>2 DEF ComesOnce
  <2>5. RosterExact'
    <3>1. SUFFICES ASSUME patient PROVE InRoom' = Expected'
      BY <1>3, ExactMeansNext
    <3>2. InRoom = Expected /\ InRoom' = InRoom \cup {c}
      BY <1>3, <2>3, <3>1, ExactMeans DEF RoomInv, IInv, Sound
    <3>3. c \in Inside
      BY <1>2, <3>1 DEF RoomInv, IInv, AddsOfInside, Pending, In
    <3> QED BY <1>2, <1>4, <3>2, <3>3 DEF Expected
  <2> QED BY <1>6, <2>3, <2>4, <2>5 DEF RoomInv
<1>8. CASE ~Intact(list)
  <2>1. UNCHANGED <<list, i>> /\ ~Served'
    BY <1>8 DEF AddClient, Served
  <2>2. InRoom' = InRoom /\ EntriesDistinct'
    BY <2>1 DEF InRoom, RoomInv, EntriesDistinct
  <2>3. ComesOnce'
    BY <1>2, <1>3, <2>2 DEF RoomInv, ComesOnce
  <2> QED BY <1>6, <2>1, <2>2, <2>3, ExactMeansNext DEF RoomInv
<1> QED BY <1>7, <1>8

(* A patient client is in the room when its del is read.                    *)
LEMMA RoomDelStep == ASSUME RoomInv, IInv', DelClient PROVE RoomInv'
<1> DEFINE d == Head(delq)
<1>1. delq \in Seq(Client) /\ delq # <<>> /\ Distinct(delq)
  BY DEF DelClient, RoomInv, IInv, TypeOK, LeavesOnce
<1>2. /\ d \in Client /\ d \in In(delq)
      /\ Distinct(delq') /\ In(delq)' = In(delq) \ {d}
  <2>1. delq' = Tail(delq)
    BY DEF DelClient
  <2>2. In(delq)' = In(Tail(delq))
    BY <2>1 DEF In
  <2> QED BY <1>1, <2>1, <2>2, TailDistinct
<1>3. UNCHANGED <<addq, cpc, patient>> /\ Served /\ list' = Without(d) /\ i' = i - 1 /\ i >= 0
  BY DEF DelClient, clientVars, Served, Shrunk, RoomInv, IInv, DelAfterAdd
<1>4. Inside' = Inside /\ In(addq)' = In(addq) /\ Left' = Left
  BY <1>3 DEF Inside, In, Left
<1>5. /\ EntriesDistinct' /\ InRoom' \subseteq InRoom
      /\ Intact(list) /\ d \in InRoom => InRoom' = InRoom \ {d}
  BY <1>2, <1>3, RoomAfterDel DEF RoomInv, IInv
<1>6. ComesOnce'
  BY <1>3, <1>4, <1>5 DEF RoomInv, ComesOnce, Distinct
<1>7. LeavesOnce'
  BY <1>2, <1>4 DEF RoomInv, LeavesOnce
<1>8. RosterExact'
  <2>1. SUFFICES ASSUME patient PROVE InRoom' = Expected'
    BY <1>3, ExactMeansNext
  <2>2. InRoom = Expected /\ Intact(list)
    BY <1>3, <2>1, ExactMeans DEF RoomInv, IInv, Sound
  <2>3. d \in Left /\ d \notin Inside
    BY <1>2 DEF RoomInv, LeavesOnce, Left, Inside
  <2>4. d \notin In(addq)
    BY <2>1, <2>3 DEF RoomInv, IInv, AddsOfInside, Pending, In
  <2>5. InRoom' = InRoom \ {d}
    BY <1>2, <1>5, <2>2, <2>4 DEF Expected
  <2> QED BY <1>2, <1>4, <2>2, <2>3, <2>5 DEF Expected
<1> QED BY <1>5, <1>6, <1>7, <1>8 DEF RoomInv

LEMMA RoomJoinStep ==
  ASSUME RoomInv, IInv', NEW c \in Client, NEW room \in BOOLEAN, Join(c, room)
  PROVE  RoomInv'
<1>1. UNCHANGED <<spc, list, i, delq, patient>> /\ cpc[c] = "start"
  BY DEF Join, serverVars
<1>2. /\ cpc \in [Client -> {"start", "in", "left", "lost", "failed"}]
      /\ addq \in Seq(Client)
  BY DEF RoomInv, IInv, TypeOK
<1>3. c \notin In(addq) /\ c \notin InRoom
  BY <1>1 DEF RoomInv, ComesOnce
<1>4. CASE addq' = Append(addq, c) /\ cpc' = [cpc EXCEPT ![c] = "in"]
  <2>1. Distinct(addq') /\ In(addq)' = In(addq) \cup {c}
    <3>1. In(addq)' = In(Append(addq, c))
      BY <1>4 DEF In
    <3> QED BY <1>2, <1>3, <1>4, <3>1, AppendDistinct DEF RoomInv, ComesOnce
  <2>2. InRoom' = InRoom /\ In(delq)' = In(delq) /\ EntriesDistinct'
    BY <1>1 DEF InRoom, In, RoomInv, EntriesDistinct
  <2>3. Inside' = Inside \cup {c} /\ Left' = Left
    BY <1>1, <1>2, <1>4 DEF Inside, Left
  <2>4. ComesOnce'
    <3>1. \A d \in Client : cpc'[d] = "start" => cpc[d] = "start" /\ d # c
      BY <1>2, <1>4
    <3>2. In(addq) \subseteq Client
      BY DEF In
    <3> QED BY <1>3, <2>1, <2>2, <3>1, <3>2 DEF RoomInv, ComesOnce
  <2>5. LeavesOnce'
    BY <1>1, <2>2, <2>3 DEF RoomInv, LeavesOnce, Distinct
  <2>6. RosterExact'
    <3>1. Served' = Served
      BY <1>1 DEF Served
    <3>2. c \notin In(delq)
      BY <1>1 DEF RoomInv, LeavesOnce, Left
    <3>3. c \notin Inside
      BY <1>1 DEF Inside
    <3>4. Expected' = Expected
      BY <2>1, <2>2, <2>3, <3>2, <3>3 DEF Expected
    <3> QED BY <1>1, <2>2, <3>1, <3>4, ExactMeans, ExactMeansNext DEF RoomInv
  <2> QED BY <2>2, <2>4, <2>5, <2>6 DEF RoomInv
<1>5. CASE cpc' = [cpc EXCEPT ![c] = "failed"] /\ UNCHANGED addq
  <2>1. Inside' = Inside /\ Left' = Left /\ Served' = Served
    BY <1>1, <1>2, <1>5 DEF Inside, Left, Served
  <2>2. \A d \in Client : cpc'[d] = "start" => cpc[d] = "start"
    BY <1>2, <1>5
  <2> QED BY <1>1, <1>5, <2>1, <2>2, RoomLeftAlone
<1> QED BY <1>4, <1>5 DEF Join

(* Who leaves and says so was inside and is expected until its del is read. *)
LEMMA RoomLeaveStep ==
  ASSUME RoomInv, IInv', NEW c \in Client, NEW room \in BOOLEAN, Leave(c, room)
  PROVE  RoomInv'
<1>1. UNCHANGED <<spc, list, i, addq, patient>> /\ cpc[c] = "in"
  BY DEF Leave, serverVars
<1>2. /\ cpc \in [Client -> {"start", "in", "left", "lost", "failed"}]
      /\ delq \in Seq(Client)
  BY DEF RoomInv, IInv, TypeOK
<1>3. c \notin In(delq) /\ c \in Inside
  BY <1>1 DEF RoomInv, LeavesOnce, Left, Inside
<1>4. CASE delq' = Append(delq, c) /\ cpc' = [cpc EXCEPT ![c] = "left"]
  <2>1. Distinct(delq') /\ In(delq)' = In(delq) \cup {c}
    <3>1. In(delq)' = In(Append(delq, c))
      BY <1>4 DEF In
    <3> QED BY <1>2, <1>3, <1>4, <3>1, AppendDistinct DEF RoomInv, LeavesOnce
  <2>2. InRoom' = InRoom /\ In(addq)' = In(addq) /\ EntriesDistinct'
    BY <1>1 DEF InRoom, In, RoomInv, EntriesDistinct
  <2>3. Inside' = Inside \ {c} /\ Left' = Left \cup {c}
    BY <1>1, <1>2, <1>4 DEF Inside, Left
  <2>4. ComesOnce'
    <3>1. \A d \in Client : cpc'[d] = "start" => cpc[d] = "start"
      BY <1>2, <1>4
    <3>2. In(addq) \subseteq Client
      BY DEF In
    <3> QED BY <1>1, <2>2, <3>1, <3>2 DEF RoomInv, ComesOnce, Distinct
  <2>5. LeavesOnce'
    BY <2>1, <2>3 DEF RoomInv, LeavesOnce
  <2>6. RosterExact'
    <3>1. Served' = Served
      BY <1>1 DEF Served
    <3>2. Expected' = Expected
      BY <1>3, <2>1, <2>2, <2>3 DEF Expected
    <3> QED BY <1>1, <2>2, <3>1, <3>2, ExactMeans, ExactMeansNext DEF RoomInv
  <2> QED BY <2>2, <2>4, <2>5, <2>6 DEF RoomInv
<1>5. CASE cpc' = [cpc EXCEPT ![c] = "lost"] /\ UNCHANGED delq
  <2>1. Inside' = Inside /\ Left' = Left /\ Served' = Served
    BY <1>1, <1>2, <1>5 DEF Inside, Left, Served
  <2>2. \A d \in Client : cpc'[d] = "start" => cpc[d] = "start"
    BY <1>2, <1>5
  <2> QED BY <1>1, <1>5, <2>1, <2>2, RoomLeftAlone
<1> QED BY <1>4, <1>5 DEF Leave

LEMMA RoomOtherClient ==
  ASSUME RoomInv, IInv', NEW c \in Client, StopClient(c) \/ Fail(c)
  PROVE  RoomInv'
<1>1. cpc \in [Client -> {"start", "in", "left", "lost", "failed"}]
  BY DEF RoomInv, IInv, TypeOK
<1>2. /\ UNCHANGED <<list, i, addq, delq, patient>>
      /\ Inside' = Inside /\ Left' = Left /\ Served' = Served
      /\ \A d \in Client : cpc'[d] = "start" => cpc[d] = "start"
  BY <1>1 DEF StopClient, Fail, serverVars, queueVars, Inside, Left, Served
<1> QED BY <1>2, RoomLeftAlone

LEMMA RoomNext == RoomInv /\ [Next]_rosterVars => RoomInv'
<1> SUFFICES ASSUME RoomInv, [Next]_rosterVars PROVE RoomInv'
  OBVIOUS
<1>0. IInv'
  BY NextInvariant DEF RoomInv
<1>1. CASE ServerRuns
  BY <1>0, <1>1, RoomServerOther, RoomAddStep, RoomDelStep DEF ServerRuns
<1>2. CASE StopServer \/ WindowRuns
  BY <1>0, <1>2, RoomServerOther
<1>3. ASSUME NEW c \in Client, ClientActs(c) PROVE RoomInv'
  <2>1. ASSUME NEW room \in Room, Join(c, room) \/ Leave(c, room) PROVE RoomInv'
    BY <1>0, <2>1, RoomJoinStep, RoomLeaveStep DEF Room
  <2> QED BY <1>0, <1>3, <2>1, RoomOtherClient DEF ClientActs
<1>4. CASE UNCHANGED rosterVars
  <2>1. /\ UNCHANGED <<list, i, addq, delq, cpc, patient>> /\ Served' = Served
        /\ Inside' = Inside /\ Left' = Left
    BY <1>4 DEF rosterVars, serverVars, queueVars, clientVars, Served, Inside, Left
  <2> QED BY <1>0, <2>1, RoomLeftAlone
<1> QED BY <1>1, <1>2, <1>3, <1>4 DEF Next

(* What the room owes to the queues holds in every behaviour.               *)
THEOREM RoomInvariance == SafeSpec => []RoomInv
<1>1. Init => RoomInv
  BY RoomInit
<1>2. RoomInv /\ [Next]_rosterVars => RoomInv'
  BY RoomNext
<1> QED BY <1>1, <1>2, PTL DEF SafeSpec

(* The entries of the room are pids, each once, whatever is read when, even *)
(* where a del was read before its add.                                     *)
THEOREM NoneTwice == SafeSpec => []EntriesDistinct
<1>1. RoomInv => EntriesDistinct
  BY DEF RoomInv
<1> QED BY <1>1, RoomInvariance, PTL

(* As long as clients leave only after they were listed, the room is who    *)
(* was listed and has not been taken out, for any number of clients.        *)
THEOREM RoomRight == SafeSpec => []RosterExact
<1>1. RoomInv => RosterExact
  BY DEF RoomInv
<1> QED BY <1>1, RoomInvariance, PTL

=============================================================================
