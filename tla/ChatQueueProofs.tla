-------------------------- MODULE ChatQueueProofs ---------------------------
(***************************************************************************)
(* The chat over a message queue is a ChatRoster, for every number of      *)
(* clients and every room in the queue, so what ChatRosterProofs says of   *)
(* the room holds of it; and its history is what was sent, in the order of *)
(* each author.                                                            *)
(*                                                                         *)
(* That names are right rests on the room: the server asks the queue for   *)
(* the texts of list[f] and writes them under list[f], and EntriesDistinct *)
(* makes that a client, never the zero that would take any message.        *)
(***************************************************************************)
EXTENDS ChatQueue, ChatRosterProofs

-----------------------------------------------------------------------------
(* It is a ChatRoster: where texts take room in the queue a service message *)
(* may not fit that would fit without them, never the other way round.      *)

LEMMA TextsTakeRoom ==
  ASSUME TypeOK PROVE QueueUsed \in Int /\ Used \in Int /\ QueueUsed >= Used
<1>1. Used \in Int
  BY DEF Used, TypeOK
<1>2. IsFiniteSet(Client \X (1 .. MaxTexts))
  <2>1. IsFiniteSet(1 .. MaxTexts)
    BY TextsAssumption, FS_Interval
  <2> QED BY <2>1, RosterAssumption, FS_Product
<1>3. Cardinality(Queued) \in Nat
  BY <1>2, FS_Subset, FS_CardinalityType DEF Queued
<1>4. TextSize * Cardinality(Queued) \in Nat
  BY <1>3, TextsAssumption
<1> QED BY <1>1, <1>4 DEF QueueUsed

LEMMA FitsInRoom == ASSUME TypeOK PROVE Fits(1) \in Room
<1>1. Fits(1) => Used < QueueRoom
  BY TextsTakeRoom, RosterAssumption DEF Fits
<1>2. Fits(1) \in BOOLEAN
  <2>1. CASE Fits(1)
    BY <2>1 DEF Fits
  <2>2. CASE ~Fits(1)
    BY <2>2 DEF Fits
  <2> QED BY <2>1, <2>2
<1> QED BY <1>1, <1>2, Zenon DEF Room

LEMMA ServerImplements == ServerSteps => [ServerRuns]_rosterVars
<1> SUFFICES ASSUME ServerSteps PROVE [ServerRuns]_rosterVars
  OBVIOUS
<1>1. CASE ReadText
  BY <1>1 DEF ReadText
<1>2. CASE TextsDone
  BY <1>2 DEF TextsDone, ServerRuns
<1>3. CASE ServerElse
  BY <1>3 DEF ServerElse, ServerRuns
<1> QED BY <1>1, <1>2, <1>3 DEF ServerSteps

LEMMA ClientImplements ==
  ASSUME TypeOK, NEW c \in Client,
         ClientJoins(c) \/ ClientStops(c) \/ ClientRuns(c) \/ Send(c)
  PROVE  [ClientActs(c)]_rosterVars
<1>1. CASE ClientJoins(c)
  BY <1>1, FitsInRoom DEF ClientJoins, ClientActs
<1>2. CASE ClientStops(c)
  BY <1>2 DEF ClientStops, ClientActs
<1>3. CASE ClientLeaves(c)
  BY <1>3, FitsInRoom DEF ClientLeaves, ClientActs
<1>4. CASE LoopTest(c) \/ NoLine(c)
  BY <1>4 DEF LoopTest, NoLine
<1>5. CASE Send(c)
  BY <1>5 DEF Send, ClientActs
<1> QED BY <1>1, <1>2, <1>3, <1>4, <1>5 DEF ClientRuns

LEMMA StepImplements == TypeOK /\ [ChatNext]_chatVars => [Next]_rosterVars
<1> SUFFICES ASSUME TypeOK, [ChatNext]_chatVars PROVE [Next]_rosterVars
  OBVIOUS
<1>1. CASE ServerSteps
  BY <1>1, ServerImplements DEF Next
<1>2. CASE WindowSteps
  BY <1>2, FitsInRoom DEF WindowSteps, WindowRuns, Next
<1>3. CASE StopServer
  BY <1>3 DEF Next
<1>4. ASSUME NEW c \in Client,
             ClientJoins(c) \/ ClientStops(c) \/ ClientRuns(c) \/ Send(c)
      PROVE  [Next]_rosterVars
  BY <1>4, ClientImplements DEF Next
<1>5. CASE UNCHANGED chatVars
  BY <1>5 DEF chatVars
<1> QED BY <1>1, <1>2, <1>3, <1>4, <1>5 DEF ChatNext

(* The room of this chat is that of a ChatRoster.                           *)
LEMMA RoomHere == ChatSafeSpec => []RoomInv
<1>1. ChatInit => RoomInv
  BY RoomInit DEF ChatInit
<1>2. RoomInv /\ [ChatNext]_chatVars => RoomInv'
  BY StepImplements, RoomNext DEF RoomInv, IInv
<1> QED BY <1>1, <1>2, PTL DEF ChatSafeSpec

(* Every behaviour of the chat is one of ChatRoster, for any number of      *)
(* clients, any size of the texts and any room in the queue.                *)
THEOREM QueueImplementsRoster == ChatSafeSpec => IsRoster
<1>1. ChatInit => Init
  BY DEF ChatInit
<1>2. RoomInv /\ [ChatNext]_chatVars => [Next]_rosterVars
  BY StepImplements DEF RoomInv, IInv
<1> QED BY <1>1, <1>2, RoomHere, PTL DEF ChatSafeSpec, SafeSpec, IsRoster

-----------------------------------------------------------------------------
(* The history.                                                             *)

(* Texts in the queue are numbered on from those that were read.            *)
TextsTyped ==
  /\ textq \in [Client -> Seq(Nat)] /\ typed \in [Client -> Nat] /\ f \in Nat
  /\ history \in Seq([name : Client, text : Client \X Nat])
  /\ \A c \in Client : Len(textq[c]) <= typed[c]

HistoryInv == TextsTyped /\ HistoryFaithful

LEMMA ReadTyped ==
  ASSUME TextsTyped, NEW d \in Client
  PROVE  /\ textq[d] \in Seq(Nat) /\ Len(textq[d]) \in Nat /\ typed[d] \in Nat
         /\ Read(d) \in Nat
BY DEF TextsTyped, Read

LEMMA AppendFacts ==
  ASSUME NEW S, NEW q \in Seq(S), NEW x \in S
  PROVE  /\ Append(q, x) \in Seq(S) /\ Len(q) + 1 \in Nat
         /\ DOMAIN Append(q, x) = DOMAIN q \cup {Len(q) + 1}
         /\ Append(q, x)[Len(q) + 1] = x
         /\ \A k \in DOMAIN q : Append(q, x)[k] = q[k] /\ k \in Nat /\ k < Len(q) + 1
OBVIOUS

LEMMA HistoryInit == ChatInit => HistoryInv
<1> SUFFICES ASSUME ChatInit PROVE HistoryInv
  OBVIOUS
<1>1. TextsTyped
  BY DEF ChatInit, TextsTyped
<1>2. HistoryFaithful
  BY DEF ChatInit, HistoryFaithful, Read
<1> QED BY <1>1, <1>2 DEF HistoryInv

LEMMA HistoryLeftAlone ==
  ASSUME HistoryInv, UNCHANGED <<textq, typed, history>>, f' \in Nat
  PROVE  HistoryInv'
BY DEF HistoryInv, TextsTyped, HistoryFaithful, Read

(* A text is read from the queue of the client it is written down for.      *)
LEMMA ReadKeeps == ASSUME HistoryInv, RoomInv, ReadText PROVE HistoryInv'
<1>1. f \in Nat /\ f < i /\ i \in Int
  <2>1. Cardinality(Client) \in Nat
    BY InsideAndLeft, FS_CardinalityType
  <2> QED BY <2>1 DEF HistoryInv, TextsTyped, ReadText, RoomInv, IInv, TypeOK
<1>2. PICK c \in Client : c = list[f]
  <2>1. f \in 0 .. i - 1 /\ f \in Index
    BY <1>1, InsideAndLeft, RosterAssumption DEF RoomInv, IInv, TypeOK, Index
  <2>2. list[f] # NoPid
    BY <2>1 DEF RoomInv, EntriesDistinct
  <2> QED BY <2>1, <2>2 DEF RoomInv, IInv, TypeOK
<1>3. UNCHANGED typed /\ f' \in Nat
  BY <1>1 DEF ReadText
<1>4. CASE UNCHANGED <<textq, history>>
  BY <1>3, <1>4, HistoryLeftAlone
<1>5. CASE textq[c] # <<>> /\ textq' = [textq EXCEPT ![c] = Tail(@)] /\ Said(c)
  <2> DEFINE h == [name |-> c, text |-> <<c, Head(textq[c])>>]
             last == Len(history) + 1
  <2>1. /\ textq[c] \in Seq(Nat) /\ Len(textq[c]) \in Nat /\ Len(textq[c]) > 0
        /\ typed[c] \in Nat /\ Len(textq[c]) <= typed[c]
    BY <1>2, <1>5, EmptySeq, LenProperties DEF HistoryInv, TextsTyped
  <2>2. /\ textq'[c] = Tail(textq[c]) /\ textq' \in [Client -> Seq(Nat)]
        /\ Len(textq'[c]) = Len(textq[c]) - 1
        /\ \A k \in 1 .. Len(textq'[c]) : textq'[c][k] = textq[c][k + 1]
        /\ \A d \in Client \ {c} : textq'[d] = textq[d]
    BY <1>2, <1>5, <2>1 DEF HistoryInv, TextsTyped
  <2>3. Read(c) \in Nat /\ Read(c)' = Read(c) + 1 /\ \A d \in Client \ {c} : Read(d)' = Read(d)
    <3>1. Read(c) \in Nat
      BY ReadTyped DEF HistoryInv
    <3> QED BY <1>3, <2>1, <2>2, <3>1 DEF Read
  <2>4. Head(textq[c]) = Read(c) + 1
    BY <1>2, <2>1 DEF HistoryInv, HistoryFaithful
  <2>5. /\ h \in [name : Client, text : Client \X Nat]
        /\ h.name = c /\ h.text = <<c, Read(c) + 1>> /\ h = [name |-> c, text |-> <<c, Read(c) + 1>>]
    BY <1>2, <2>3, <2>4
  <2>6. history' = Append(history, h)
    BY <1>2, <1>5 DEF Said
  <2> HIDE DEF h
  <2> DEFINE Line == [name : Client, text : Client \X Nat]
  <2>14. h \in Line /\ history \in Seq(Line)
    BY <2>5 DEF HistoryInv, TextsTyped
  <2> HIDE DEF Line
  <2>7. /\ history' \in Seq(Line) /\ last \in Nat
        /\ DOMAIN history' = DOMAIN history \cup {last} /\ history'[last] = h
        /\ \A k \in DOMAIN history : history'[k] = history[k] /\ k \in Nat /\ k < last
    BY <2>6, <2>14, AppendFacts
  <2> HIDE DEF last
  <2>8. TextsTyped'
    <3>1. Len(textq'[c]) <= typed'[c]
      BY <1>3, <2>1, <2>2
    <3>2. \A d \in Client : Len(textq'[d]) <= typed'[d]
      BY <1>3, <2>2, <3>1 DEF HistoryInv, TextsTyped
    <3> QED BY <1>3, <2>2, <2>7, <3>2 DEF HistoryInv, TextsTyped, Line
  <2>9. ASSUME NEW d \in Client, NEW k \in DOMAIN textq'[d] PROVE textq'[d][k] = Read(d)' + k
    <3>1. CASE d = c
      <4>1. textq'[c] \in Seq(Nat) /\ k \in DOMAIN textq'[c]
        BY <2>2, <2>9, <3>1
      <4>2. k \in 1 .. Len(textq'[c])
        BY <4>1
      <4>3. k + 1 \in DOMAIN textq[c]
        BY <2>1, <2>2, <4>2
      <4>4. textq[c][k + 1] = Read(c) + (k + 1)
        BY <4>3 DEF HistoryInv, HistoryFaithful
      <4> QED BY <2>2, <2>3, <3>1, <4>2, <4>4
    <3>2. CASE d # c
      BY <2>2, <2>3, <2>9, <3>2 DEF HistoryInv, HistoryFaithful
    <3> QED BY <3>1, <3>2
  <2>10. ASSUME NEW d \in Client, NEW n \in 1 .. Read(d)'
         PROVE  \E k \in DOMAIN history' : history'[k] = [name |-> d, text |-> <<d, n>>]
    <3>1. CASE n \in 1 .. Read(d)
      BY <2>7, <3>1 DEF HistoryInv, HistoryFaithful
    <3>2. CASE n \notin 1 .. Read(d)
      <4>1. d = c /\ n = Read(c) + 1
        BY <1>2, <2>3, <2>10, <3>2
      <4> QED BY <2>5, <2>7, <4>1
    <3> QED BY <3>1, <3>2
  <2>11. ASSUME NEW d \in Client, NEW k \in DOMAIN history', history'[k].name = d
         PROVE  \E n \in 1 .. Read(d)' : history'[k].text = <<d, n>>
    <3>1. CASE k = last
      <4>1. d = c /\ history'[k].text = <<c, Read(c) + 1>>
        BY <2>5, <2>7, <2>11, <3>1
      <4>2. Read(c) + 1 \in 1 .. Read(c)'
        BY <2>3
      <4> QED BY <4>1, <4>2
    <3>2. CASE k \in DOMAIN history
      <4>1. PICK n \in 1 .. Read(d) : history[k].text = <<d, n>>
        BY <2>7, <2>11, <3>2 DEF HistoryInv, HistoryFaithful
      <4>2. n \in 1 .. Read(d)'
        BY <2>3
      <4> QED BY <2>7, <3>2, <4>1, <4>2
    <3> QED BY <2>7, <3>1, <3>2
  <2>12. ASSUME NEW d \in Client, NEW k \in DOMAIN history', NEW l \in DOMAIN history', k < l,
                history'[k].name = d, history'[l].name = d
         PROVE  history'[k].text[2] < history'[l].text[2]
    <3>1. k \in DOMAIN history
      BY <2>7, <2>12
    <3>2. CASE l \in DOMAIN history
      BY <2>7, <2>12, <3>1, <3>2 DEF HistoryInv, HistoryFaithful
    <3>3. CASE l = last
      <4>1. d = c /\ history'[l].text[2] = Read(c) + 1
        BY <2>5, <2>7, <2>12, <3>3
      <4>2. PICK n \in 1 .. Read(d) : history[k].text = <<d, n>>
        BY <2>7, <2>12, <3>1 DEF HistoryInv, HistoryFaithful
      <4> QED BY <2>3, <2>7, <3>1, <4>1, <4>2
    <3> QED BY <2>7, <3>2, <3>3
  <2>13. HistoryFaithful'
    BY <2>9, <2>10, <2>11, <2>12 DEF HistoryFaithful
  <2> QED BY <2>8, <2>13 DEF HistoryInv
<1> QED BY <1>2, <1>4, <1>5 DEF ReadText

(* A text that is sent comes after the others of its author.                *)
LEMMA SendKeeps == ASSUME HistoryInv, NEW c \in Client, Send(c) PROVE HistoryInv'
<1>1. UNCHANGED <<f, history>> /\ f \in Nat
  BY DEF Send, HistoryInv, TextsTyped
<1>2. CASE UNCHANGED <<textq, typed>>
  BY <1>1, <1>2, HistoryLeftAlone
<1>3. CASE /\ typed' = [typed EXCEPT ![c] = @ + 1]
           /\ textq' = [textq EXCEPT ![c] = Append(@, typed'[c])]
  <2>1. textq[c] \in Seq(Nat) /\ Len(textq[c]) \in Nat /\ typed[c] \in Nat /\ Len(textq[c]) <= typed[c]
    BY DEF HistoryInv, TextsTyped
  <2>2. /\ typed' \in [Client -> Nat] /\ typed'[c] = typed[c] + 1
        /\ \A d \in Client \ {c} : typed'[d] = typed[d]
    BY <1>3 DEF HistoryInv, TextsTyped
  <2>3. textq'[c] = Append(textq[c], typed[c] + 1) /\ \A d \in Client \ {c} : textq'[d] = textq[d]
    BY <1>3, <2>2 DEF HistoryInv, TextsTyped
  <2>4. /\ textq'[c] \in Seq(Nat) /\ Len(textq'[c]) = Len(textq[c]) + 1
        /\ \A k \in 1 .. Len(textq[c]) : textq'[c][k] = textq[c][k]
        /\ textq'[c][Len(textq[c]) + 1] = typed[c] + 1
    BY <2>1, <2>3
  <2>5. textq' \in [Client -> Seq(Nat)]
    BY <1>3, <2>2, <2>4 DEF HistoryInv, TextsTyped
  <2>6. ASSUME NEW d \in Client PROVE Read(d)' = Read(d) /\ Len(textq'[d]) <= typed'[d]
    <3>1. CASE d = c
      <4>1. typed'[c] = typed[c] + 1 /\ Len(textq'[c]) = Len(textq[c]) + 1
        BY <2>2, <2>4
      <4>2. Read(c)' = typed'[c] - Len(textq'[c])
        BY DEF Read
      <4>3. typed'[c] - Len(textq'[c]) = typed[c] - Len(textq[c])
        <5>1. \A a, b \in Nat : (a + 1) - (b + 1) = a - b
          OBVIOUS
        <5>2. typed[c] \in Nat /\ Len(textq[c]) \in Nat
          BY <2>1
        <5>3. (typed[c] + 1) - (Len(textq[c]) + 1) = typed[c] - Len(textq[c])
          BY <5>1, <5>2, Zenon
        <5> QED BY <4>1, <5>3, Zenon
      <4>4. Read(c)' = Read(c)
        BY <4>2, <4>3 DEF Read
      <4> QED BY <2>1, <3>1, <4>1, <4>4
    <3>2. CASE d # c
      BY <2>2, <2>3, <3>2 DEF Read, HistoryInv, TextsTyped
    <3> QED BY <3>1, <3>2
  <2>7. TextsTyped'
    BY <1>1, <2>2, <2>5, <2>6 DEF HistoryInv, TextsTyped
  <2>8. ASSUME NEW d \in Client, NEW k \in DOMAIN textq'[d] PROVE textq'[d][k] = Read(d)' + k
    <3>1. CASE d = c
      <4>1. k \in 1 .. Len(textq[c]) \/ k = Len(textq[c]) + 1
        BY <2>4, <2>8, <3>1
      <4>2. CASE k \in 1 .. Len(textq[c])
        BY <2>1, <2>4, <2>6, <3>1, <4>2 DEF HistoryInv, HistoryFaithful
      <4>3. CASE k = Len(textq[c]) + 1
        BY <2>1, <2>4, <2>6, <3>1, <4>3 DEF Read
      <4> QED BY <4>1, <4>2, <4>3
    <3>2. CASE d # c
      BY <2>3, <2>6, <2>8, <3>2 DEF HistoryInv, HistoryFaithful
    <3> QED BY <3>1, <3>2
  <2>9. HistoryFaithful'
    BY <1>1, <2>6, <2>8 DEF HistoryInv, HistoryFaithful
  <2> QED BY <2>7, <2>9 DEF HistoryInv
<1> QED BY <1>2, <1>3 DEF Send

LEMMA HistoryNext == HistoryInv /\ RoomInv /\ [ChatNext]_chatVars => HistoryInv'
<1> SUFFICES ASSUME HistoryInv, RoomInv, [ChatNext]_chatVars PROVE HistoryInv'
  OBVIOUS
<1>0. f \in Nat
  BY DEF HistoryInv, TextsTyped
<1>1. CASE ReadText
  BY <1>1, ReadKeeps
<1>2. CASE TextsDone \/ ServerElse \/ WindowSteps \/ (StopServer /\ UNCHANGED textVars)
           \/ UNCHANGED chatVars
  <2>1. UNCHANGED <<textq, typed, history>> /\ f' \in Nat
    BY <1>0, <1>2 DEF TextsDone, ServerElse, WindowSteps, chatVars, textVars
  <2> QED BY <2>1, HistoryLeftAlone
<1>3. ASSUME NEW c \in Client, ClientJoins(c) \/ ClientStops(c) \/ ClientRuns(c)
      PROVE  HistoryInv'
  <2>1. UNCHANGED <<textq, typed, history, f>>
    BY <1>3 DEF ClientJoins, ClientStops, ClientRuns, LoopTest, NoLine, ClientLeaves, textVars
  <2> QED BY <1>0, <2>1, HistoryLeftAlone
<1>4. ASSUME NEW c \in Client, Send(c) PROVE HistoryInv'
  BY <1>4, SendKeeps
<1> QED BY <1>1, <1>2, <1>3, <1>4 DEF ChatNext, ServerSteps

(* For any number of clients and texts, and any room in the queue, what the *)
(* history has under a name is what that client sent, in its order, and the *)
(* rest is still in the queue, however the room changes under the loop.     *)
THEOREM HistoryRight == ChatSafeSpec => []HistoryFaithful
<1>1. ChatInit => HistoryInv
  BY HistoryInit
<1>2. HistoryInv /\ RoomInv /\ [ChatNext]_chatVars => HistoryInv'
  BY HistoryNext
<1>3. HistoryInv => HistoryFaithful
  BY DEF HistoryInv
<1> QED BY <1>1, <1>2, <1>3, RoomHere, PTL DEF ChatSafeSpec

=============================================================================
