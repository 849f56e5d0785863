-------------------------- MODULE ChatMemoryProofs --------------------------
(***************************************************************************)
(* The chat over shared memory is a ChatRoster, for every number of        *)
(* clients, places and texts: so what ChatRosterProofs says of the room    *)
(* holds of it.  Its variables have their types whoever types into which   *)
(* place; and of clients one after the other no text is lost.              *)
(*                                                                         *)
(* The last rests on who may change a place: one that is not marked 2 only *)
(* the client in the chat, one that is marked only the server.  So what a  *)
(* client has in hand is in an unmarked place (InHand), what the server is *)
(* at is marked (AtMarked), and neither spoils what the other does.        *)
(***************************************************************************)
EXTENDS ChatMemory, ChatRosterProofs

(* Whether a message fits is one of the cases of ChatRoster.                *)
LEMMA RoomIsChosen == (Used < QueueRoom) \in Room
<1>1. (Used < QueueRoom) \in BOOLEAN
  <2>1. CASE Used < QueueRoom
    BY <2>1
  <2>2. CASE ~(Used < QueueRoom)
    BY <2>2
  <2> QED BY <2>1, <2>2
<1> QED BY <1>1, Zenon DEF Room

LEMMA ServerImplements == ServerSteps => [ServerRuns]_rosterVars
<1> SUFFICES ASSUME ServerSteps PROVE [ServerRuns]_rosterVars
  OBVIOUS
<1>1. CASE LookAt \/ PrintText \/ MarkRead
  BY <1>1 DEF LookAt, PrintText, MarkRead
<1>2. CASE TextsDone
  BY <1>2 DEF TextsDone, ServerRuns
<1>3. CASE ServerElse
  BY <1>3 DEF ServerElse, ServerRuns
<1> QED BY <1>1, <1>2, <1>3 DEF ServerSteps

LEMMA ClientImplements ==
  ASSUME NEW c \in Client,
         ClientJoins(c) \/ ClientStops(c) \/ ClientRuns(c) \/ TypeLine(c)
  PROVE  [ClientActs(c)]_rosterVars
<1>1. CASE ClientJoins(c)
  BY <1>1, RoomIsChosen DEF ClientJoins, ClientActs
<1>2. CASE ClientStops(c)
  BY <1>2 DEF ClientStops, ClientActs
<1>3. CASE ClientLeaves(c)
  BY <1>3, RoomIsChosen DEF ClientLeaves, ClientActs
<1>4. CASE LoopTest(c) \/ Choose(c) \/ NoLine(c) \/ Sign(c) \/ MarkNew(c) \/ TypeLine(c)
  BY <1>4 DEF LoopTest, Choose, NoLine, Sign, MarkNew, TypeLine
<1> QED BY <1>1, <1>2, <1>3, <1>4 DEF ClientRuns

LEMMA StepImplements == [ChatNext]_chatVars => [Next]_rosterVars
<1> SUFFICES ASSUME [ChatNext]_chatVars PROVE [Next]_rosterVars
  OBVIOUS
<1>1. CASE ServerSteps
  BY <1>1, ServerImplements DEF Next
<1>2. CASE WindowSteps
  BY <1>2, RoomIsChosen DEF WindowSteps, WindowRuns, Next
<1>3. CASE StopServer
  BY <1>3 DEF Next
<1>4. ASSUME NEW c \in Client,
             ClientJoins(c) \/ ClientStops(c) \/ ClientRuns(c) \/ TypeLine(c)
      PROVE  [Next]_rosterVars
  BY <1>4, ClientImplements DEF Next
<1>5. CASE UNCHANGED chatVars
  BY <1>5 DEF chatVars
<1> QED BY <1>1, <1>2, <1>3, <1>4, <1>5 DEF ChatNext

(* Every behaviour of the chat is one of ChatRoster.                        *)
THEOREM ImplementsRoster == ChatSafeSpec => IsRoster
<1>1. ChatInit => Init
  BY DEF ChatInit
<1>2. [ChatNext]_chatVars => [Next]_rosterVars
  BY StepImplements
<1> QED BY <1>1, <1>2, PTL DEF ChatSafeSpec, SafeSpec, IsRoster

-----------------------------------------------------------------------------
(* Types.  What is marked, and what the server has come upon, was typed and *)
(* signed before, whoever typed into that place in between; and the server  *)
(* looks at places only while it is in its loop over the room.              *)

Written ==
  /\ \A c \in Client :
       /\ at[c] \in {"pid", "mark"} => message[f1[c]].buf \in Text
       /\ at[c] = "mark" => message[f1[c]].PID \in Client
       /\ at[c] # "test" => cpc[c] = "in"
  /\ \A p \in Place :
       message[p].message_type = 2 => message[p].buf \in Text /\ message[p].PID \in Client
  /\ tpos # "test" => spc = "texts" /\ f < i /\ message[g].buf \in Text
  /\ tpos = "print" => who \in Client

ChatTyped == TypeOK /\ ChatTypeOK /\ Written

(* The type of a place.                                                     *)
Slot == [message_type : 0 .. 2, buf : Text \cup {NoText}, PID : Client \cup {NoPid}]

(* One store into a place leaves the other places and the rest of it alone. *)
LEMMA StoreText ==
  ASSUME message \in [Place -> Slot], NEW p \in Place, NEW t \in Text,
         message' = [message EXCEPT ![p].buf = t]
  PROVE  /\ message' \in [Place -> Slot]
         /\ \A q \in Place : /\ message'[q].message_type = message[q].message_type
                             /\ message'[q].PID = message[q].PID
                             /\ message'[q].buf = IF q = p THEN t ELSE message[q].buf
<1>1. message[p] \in Slot
  OBVIOUS
<1> DEFINE r == [message[p] EXCEPT !.buf = t]
<1>2. r \in Slot /\ r.buf = t /\ r.message_type = message[p].message_type /\ r.PID = message[p].PID
  BY <1>1 DEF Slot
<1>3. message' = [message EXCEPT ![p] = r]
  OBVIOUS
<1> HIDE DEF r
<1> QED BY <1>2, <1>3

LEMMA StorePid ==
  ASSUME message \in [Place -> Slot], NEW p \in Place, NEW c \in Client,
         message' = [message EXCEPT ![p].PID = c]
  PROVE  /\ message' \in [Place -> Slot]
         /\ \A q \in Place : /\ message'[q].message_type = message[q].message_type
                             /\ message'[q].PID = IF q = p THEN c ELSE message[q].PID
                             /\ message'[q].buf = message[q].buf
<1>1. message[p] \in Slot
  OBVIOUS
<1> DEFINE r == [message[p] EXCEPT !.PID = c]
<1>2. r \in Slot /\ r.PID = c /\ r.message_type = message[p].message_type /\ r.buf = message[p].buf
  BY <1>1 DEF Slot
<1>3. message' = [message EXCEPT ![p] = r]
  OBVIOUS
<1> HIDE DEF r
<1> QED BY <1>2, <1>3

LEMMA StoreMark ==
  ASSUME message \in [Place -> Slot], NEW p \in Place, NEW k \in 0 .. 2,
         message' = [message EXCEPT ![p].message_type = k]
  PROVE  /\ message' \in [Place -> Slot]
         /\ \A q \in Place : /\ message'[q].message_type = IF q = p THEN k ELSE message[q].message_type
                             /\ message'[q].PID = message[q].PID
                             /\ message'[q].buf = message[q].buf
<1>1. message[p] \in Slot
  OBVIOUS
<1> DEFINE r == [message[p] EXCEPT !.message_type = k]
<1>2. r \in Slot /\ r.message_type = k /\ r.buf = message[p].buf /\ r.PID = message[p].PID
  BY <1>1 DEF Slot
<1>3. message' = [message EXCEPT ![p] = r]
  OBVIOUS
<1> HIDE DEF r
<1> QED BY <1>2, <1>3

(* The places follow each other in a circle for a client.                   *)
LEMMA OnwardsTyped ==
  ASSUME ChatTypeOK, NEW c \in Client, Onwards(c)
  PROVE  /\ f1' \in [Client -> Place]
         /\ at' = [at EXCEPT ![c] = "test"]
         /\ \A d \in Client \ {c} : f1'[d] = f1[d]
<1>1. SLOTS \in Nat \ {0} /\ f1[c] \in Nat
  BY MemoryAssumption DEF ChatTypeOK, Place
<1>2. (f1[c] + 1) % SLOTS \in 0 .. SLOTS - 1
  BY <1>1
<1> QED BY <1>2 DEF Onwards, ChatTypeOK, Place

(* And in a row for the server, once for each client of the room.           *)
LEMMA NextPlaceTyped ==
  ASSUME TypeOK, ChatTypeOK, f < i, NextPlace
  PROVE  tpos' = "test" /\ g' \in Place /\ f' \in 0 .. Cardinality(Client)
<1>1. i \in Int /\ Cardinality(Client) \in Nat /\ i <= Cardinality(Client)
  BY InsideAndLeft, FS_CardinalityType DEF TypeOK
<1> QED BY <1>1, MemoryAssumption DEF NextPlace, LastPlace, ChatTypeOK, Place

LEMMA ChatInitTyped == ChatInit => ChatTyped
<1> SUFFICES ASSUME ChatInit PROVE ChatTyped
  OBVIOUS
<1>1. TypeOK
  BY InitInvariant DEF ChatInit, IInv
<1>2. 0 \in Place /\ 0 \in 0 .. Cardinality(Client) /\ 0 \in 0 .. MaxTexts
  BY MemoryAssumption, InsideAndLeft, FS_CardinalityType DEF Place
<1>3. ChatTypeOK
  BY <1>2 DEF ChatInit, ChatTypeOK
<1>4. Written
  BY DEF ChatInit, Written
<1> QED BY <1>1, <1>3, <1>4 DEF ChatTyped

LEMMA ServerTyped == ASSUME ChatTyped, TypeOK', ServerSteps PROVE ChatTyped'
<1>0. message \in [Place -> Slot] /\ g \in Place
  BY DEF ChatTyped, ChatTypeOK, Slot
<1>1. CASE LookAt
  <2>1. UNCHANGED <<spc, i, cpc, message, at, f1, typed, history, alone>> /\ f < i /\ spc = "texts"
    BY <1>1 DEF LookAt, rosterVars, serverVars, clientVars
  <2>2. CASE message[g].message_type = 2 /\ who' = message[g].PID /\ tpos' = "print"
             /\ UNCHANGED <<f, g>>
    <3>1. who' \in Client /\ message[g].buf \in Text
      BY <1>0, <2>2 DEF ChatTyped, Written
    <3>2. ChatTypeOK'
      BY <2>1, <2>2, <3>1 DEF ChatTyped, ChatTypeOK
    <3>3. Written'
      BY <2>1, <2>2, <3>1 DEF ChatTyped, Written
    <3> QED BY <3>2, <3>3 DEF ChatTyped
  <2>3. CASE NextPlace /\ UNCHANGED who
    <3>1. tpos' = "test" /\ g' \in Place /\ f' \in 0 .. Cardinality(Client)
      BY <2>1, <2>3, NextPlaceTyped DEF ChatTyped
    <3>2. ChatTypeOK'
      BY <2>1, <2>3, <3>1 DEF ChatTyped, ChatTypeOK
    <3>3. Written'
      BY <2>1, <3>1 DEF ChatTyped, Written
    <3> QED BY <3>2, <3>3 DEF ChatTyped
  <2> QED BY <1>1, <2>2, <2>3 DEF LookAt
<1>2. CASE PrintText
  <2>1. UNCHANGED <<spc, i, cpc, message, at, f1, typed, f, g, who, alone>> /\ tpos = "print" /\ tpos' = "free"
    BY <1>2 DEF PrintText, rosterVars, serverVars, clientVars
  <2>2. [name |-> who, text |-> message[g].buf] \in [name : Client, text : Text]
    BY <2>1 DEF ChatTyped, Written
  <2>3. history' \in Seq([name : Client, text : Text])
    BY <1>2, <2>2 DEF PrintText, ChatTyped, ChatTypeOK
  <2>4. ChatTypeOK'
    BY <2>1, <2>3 DEF ChatTyped, ChatTypeOK
  <2>5. Written'
    BY <2>1 DEF ChatTyped, Written
  <2> QED BY <2>4, <2>5 DEF ChatTyped
<1>3. CASE MarkRead
  <2>1. UNCHANGED <<spc, i, cpc, at, f1, typed, who, history, alone>> /\ tpos = "free" /\ NextPlace
    BY <1>3 DEF MarkRead, rosterVars, serverVars, clientVars
  <2>2. tpos' = "test" /\ g' \in Place /\ f' \in 0 .. Cardinality(Client)
    BY <2>1, NextPlaceTyped DEF ChatTyped, Written
  <2>3. /\ message' \in [Place -> Slot]
        /\ \A q \in Place : /\ message'[q].message_type = (IF q = g THEN 1 ELSE message[q].message_type)
                            /\ message'[q].PID = message[q].PID /\ message'[q].buf = message[q].buf
    <3>1. 1 \in 0 .. 2 /\ message' = [message EXCEPT ![g].message_type = 1]
      BY <1>3 DEF MarkRead
    <3> QED BY <1>0, <3>1, StoreMark
  <2>4. ChatTypeOK'
    BY <2>1, <2>2, <2>3 DEF ChatTyped, ChatTypeOK, Slot
  <2>5. Written'
    BY <2>1, <2>2, <2>3 DEF ChatTyped, ChatTypeOK, Written
  <2> QED BY <2>4, <2>5 DEF ChatTyped
<1>4. CASE TextsDone
  <2>1. UNCHANGED <<cpc, message, at, f1, typed, g, tpos, who, history, alone>> /\ tpos = "test" /\ f' = 0
    BY <1>4 DEF TextsDone, TextsRead, clientVars
  <2>2. 0 \in 0 .. Cardinality(Client)
    BY InsideAndLeft, FS_CardinalityType
  <2>3. ChatTypeOK'
    BY <2>1, <2>2 DEF ChatTyped, ChatTypeOK
  <2>4. Written'
    BY <2>1 DEF ChatTyped, Written
  <2> QED BY <2>3, <2>4 DEF ChatTyped
<1>5. CASE ServerElse
  <2>1. UNCHANGED <<cpc, message, at, f1, typed, f, g, tpos, who, history, alone>> /\ spc # "texts"
    BY <1>5 DEF ServerElse, memoryVars, Start, FirstLook, AwaitWindow, Test, NoAdd,
                AddClient, NoDel, DelClient, Quit, clientVars
  <2>2. ChatTypeOK'
    BY <2>1 DEF ChatTyped, ChatTypeOK
  <2>3. Written'
    BY <2>1 DEF ChatTyped, Written
  <2> QED BY <2>2, <2>3 DEF ChatTyped
<1> QED BY <1>1, <1>2, <1>3, <1>4, <1>5 DEF ServerSteps

(* The steps that leave the memory alone but for who is in the chat.        *)
LEMMA OutsideTyped ==
  ASSUME ChatTyped, TypeOK', UNCHANGED <<spc, i, memoryVars>>,
         \A c \in Client : at[c] # "test" => cpc'[c] = cpc[c]
  PROVE  ChatTyped'
<1>1. ChatTypeOK'
  BY DEF ChatTyped, ChatTypeOK, memoryVars
<1>2. Written'
  BY DEF ChatTyped, Written, memoryVars
<1> QED BY <1>1, <1>2 DEF ChatTyped

LEMMA ClientTyped ==
  ASSUME ChatTyped, TypeOK', NEW c \in Client,
         ClientJoins(c) \/ ClientStops(c) \/ ClientRuns(c) \/ TypeLine(c)
  PROVE  ChatTyped'
<1>0. /\ message \in [Place -> Slot] /\ f1[c] \in Place
      /\ at \in [Client -> {"test", "place", "fgets", "pid", "mark"}]
      /\ cpc \in [Client -> {"start", "in", "left", "lost", "failed"}]
      /\ f1 \in [Client -> Place]
  BY DEF ChatTyped, ChatTypeOK, Slot, TypeOK
<1>1. CASE ClientJoins(c) \/ ClientStops(c) \/ ClientLeaves(c)
  <2>1. UNCHANGED <<spc, i, memoryVars>>
    BY <1>1 DEF ClientJoins, Join, ClientStops, StopClient, ClientLeaves, Leave, serverVars
  <2>2. \A d \in Client : at[d] # "test" => cpc'[d] = cpc[d]
    BY <1>0, <1>1 DEF ClientJoins, Join, ClientStops, StopClient, ClientLeaves, Leave, ChatTyped, Written
  <2> QED BY <2>1, <2>2, OutsideTyped
<1>2. CASE LoopTest(c) \/ Choose(c) \/ NoLine(c)
  <2>1. UNCHANGED <<spc, i, cpc, message, typed, f, g, tpos, who, history, alone>> /\ cpc[c] = "in"
    BY <1>2 DEF LoopTest, Choose, NoLine, rosterVars, serverVars, clientVars
  <2>2. /\ at' \in [Client -> {"test", "place", "fgets", "pid", "mark"}]
        /\ \E a \in {"test", "place", "fgets"} : at' = [at EXCEPT ![c] = a]
        /\ f1' \in [Client -> Place] /\ \A d \in Client \ {c} : f1'[d] = f1[d]
    BY <1>0, <1>2, OnwardsTyped DEF LoopTest, Choose, NoLine, ChatTyped
  <2>3. ChatTypeOK'
    BY <2>1, <2>2 DEF ChatTyped, ChatTypeOK
  <2>4. Written'
    BY <1>0, <2>1, <2>2 DEF ChatTyped, Written
  <2> QED BY <2>3, <2>4 DEF ChatTyped
<1>3. CASE TypeLine(c)
  <2>1. /\ UNCHANGED <<spc, i, cpc, f1, f, g, tpos, who, history, alone>> /\ cpc[c] = "in"
        /\ at' = [at EXCEPT ![c] = "pid"] /\ typed' = [typed EXCEPT ![c] = @ + 1]
        /\ message' = [message EXCEPT ![f1[c]].buf = <<c, typed'[c]>>]
    BY <1>3 DEF TypeLine, rosterVars, serverVars, clientVars
  <2>2. typed' \in [Client -> 0 .. MaxTexts] /\ typed'[c] \in 1 .. MaxTexts
    BY <1>3, <2>1, MemoryAssumption DEF TypeLine, ChatTyped, ChatTypeOK
  <2>3. <<c, typed'[c]>> \in Text
    BY <2>2 DEF Text
  <2>4. /\ message' \in [Place -> Slot]
        /\ \A q \in Place : /\ message'[q].message_type = message[q].message_type
                            /\ message'[q].PID = message[q].PID
                            /\ message'[q].buf = IF q = f1[c] THEN <<c, typed'[c]>> ELSE message[q].buf
    BY <1>0, <2>1, <2>3, StoreText
  <2>5. ChatTypeOK'
    BY <1>0, <2>1, <2>2, <2>4 DEF ChatTyped, ChatTypeOK, Slot
  <2>6. \A q \in Place : message[q].buf \in Text => message'[q].buf \in Text
    BY <2>3, <2>4
  <2>7. g \in Place /\ message'[f1[c]].buf \in Text
    BY <1>0, <2>3, <2>4 DEF ChatTyped, ChatTypeOK
    <2>8. Written'
    BY <1>0, <2>1, <2>4, <2>6, <2>7 DEF ChatTyped, Written
  <2> QED BY <2>5, <2>8 DEF ChatTyped
<1>4. CASE Sign(c)
  <2>1. /\ UNCHANGED <<spc, i, cpc, f1, typed, f, g, tpos, who, history, alone>> /\ cpc[c] = "in"
        /\ at[c] = "pid" /\ at' = [at EXCEPT ![c] = "mark"]
        /\ message' = [message EXCEPT ![f1[c]].PID = c]
    BY <1>4 DEF Sign, rosterVars, serverVars, clientVars
  <2>2. /\ message' \in [Place -> Slot]
        /\ \A q \in Place : /\ message'[q].message_type = message[q].message_type
                            /\ message'[q].PID = IF q = f1[c] THEN c ELSE message[q].PID
                            /\ message'[q].buf = message[q].buf
    BY <1>0, <2>1, StorePid
  <2>3. ChatTypeOK'
    BY <1>0, <2>1, <2>2 DEF ChatTyped, ChatTypeOK, Slot
  <2>4. Written'
    BY <1>0, <2>1, <2>2 DEF ChatTyped, ChatTypeOK, Written
  <2> QED BY <2>3, <2>4 DEF ChatTyped
<1>5. CASE MarkNew(c)
  <2>1. /\ UNCHANGED <<spc, i, cpc, typed, f, g, tpos, who, history, alone>> /\ cpc[c] = "in"
        /\ at[c] = "mark" /\ Onwards(c)
        /\ message' = [message EXCEPT ![f1[c]].message_type = 2]
    BY <1>5 DEF MarkNew, rosterVars, serverVars, clientVars
  <2>2. /\ f1' \in [Client -> Place] /\ at' = [at EXCEPT ![c] = "test"]
        /\ \A d \in Client \ {c} : f1'[d] = f1[d]
    BY <2>1, OnwardsTyped DEF ChatTyped
  <2>3. /\ message' \in [Place -> Slot]
        /\ \A q \in Place : /\ message'[q].message_type = (IF q = f1[c] THEN 2 ELSE message[q].message_type)
                            /\ message'[q].PID = message[q].PID /\ message'[q].buf = message[q].buf
    <3>1. 2 \in 0 .. 2
      OBVIOUS
    <3> QED BY <1>0, <2>1, <3>1, StoreMark
  <2>4. ChatTypeOK'
    BY <1>0, <2>1, <2>2, <2>3 DEF ChatTyped, ChatTypeOK, Slot
  <2>5. Written'
    BY <1>0, <2>1, <2>2, <2>3 DEF ChatTyped, ChatTypeOK, Written
  <2> QED BY <2>4, <2>5 DEF ChatTyped
<1> QED BY <1>1, <1>2, <1>3, <1>4, <1>5 DEF ClientRuns

LEMMA ChatNextTyped == ASSUME ChatTyped, TypeOK', [ChatNext]_chatVars PROVE ChatTyped'
<1>1. CASE ServerSteps
  BY <1>1, ServerTyped
<1>2. CASE WindowSteps \/ (StopServer /\ UNCHANGED memoryVars) \/ UNCHANGED chatVars
  <2>1. UNCHANGED <<spc, i, cpc, memoryVars>>
    BY <1>2 DEF WindowSteps, Window, WindowEnds, StopServer, chatVars, rosterVars, serverVars, clientVars
  <2> QED BY <2>1, OutsideTyped
<1>3. ASSUME NEW c \in Client,
             ClientJoins(c) \/ ClientStops(c) \/ ClientRuns(c) \/ TypeLine(c)
      PROVE  ChatTyped'
  BY <1>3, ClientTyped
<1> QED BY <1>1, <1>2, <1>3 DEF ChatNext

-----------------------------------------------------------------------------
(* One client in the chat at a time.  Nobody but the client changes a place *)
(* that is not marked and nobody but the server one that is; so a text is   *)
(* in one place from its typing until the server has written it down.       *)

OneInside == \A c, d \in Client : cpc[c] = "in" /\ cpc[d] = "in" => c = d

(* The place a client types into is its own, and holds its last text.       *)
InHand ==
  \A c \in Client :
    /\ at[c] \in {"fgets", "pid", "mark"} => message[f1[c]].message_type # 2
    /\ at[c] \in {"pid", "mark"} => typed[c] >= 1 /\ message[f1[c]].buf = <<c, typed[c]>>
    /\ at[c] = "mark" => message[f1[c]].PID = c

(* t was typed.                                                             *)
Typed(t) == t[2] <= typed[t[1]]

Marked ==
  \A p \in Place :
    message[p].message_type = 2 =>
      Typed(message[p].buf) /\ message[p].PID = message[p].buf[1]

AtMarked ==
  /\ tpos # "test" => message[g].message_type = 2
  /\ tpos = "print" => who = message[g].PID

SaidByAuthor ==
  \A n \in DOMAIN history : Typed(history[n].text) /\ history[n].name = history[n].text[1]

(* In the history and nowhere else, or in one place and not in the history. *)
OnceKept(t) ==
  \/ Waiting(t) = {} /\ \E n : Shown(t) = {n}
  \/ Shown(t) = {} /\ \E p : Waiting(t) = {p}

AllKept == \A t \in Text : Typed(t) => OnceKept(t)

AloneInv == OneInside /\ InHand /\ Marked /\ AtMarked /\ SaidByAuthor /\ AllKept

MemoryInv == ChatTyped /\ (alone => AloneInv)

(* The parts of a text.                                                     *)
LEMMA TextParts ==
  \A t \in Text : t[1] \in Client /\ t[2] \in 1 .. MaxTexts /\ t = <<t[1], t[2]>>
BY DEF Text

LEMMA SaidTexts ==
  ASSUME history \in Seq([name : Client, text : Text])
  PROVE  \A n \in DOMAIN history : history[n].text \in Text
<1> SUFFICES ASSUME NEW n \in DOMAIN history PROVE history[n].text \in Text
  OBVIOUS
<1> DEFINE R == [name : Client, text : Text]
<1>1. history \in Seq(R)
  OBVIOUS
<1> HIDE DEF R
<1>2. history[n] \in R
  BY <1>1
<1> QED BY <1>2 DEF R

LEMMA KeptSame ==
  ASSUME AllKept, UNCHANGED <<typed, history>>, \A t \in Text : Waiting(t)' = Waiting(t)
  PROVE  AllKept'
<1> SUFFICES ASSUME NEW t \in Text, Typed(t)' PROVE OnceKept(t)'
  BY DEF AllKept
<1>1. Typed(t) /\ Shown(t)' = Shown(t) /\ Waiting(t)' = Waiting(t)
  BY DEF Typed, Shown
<1>2. OnceKept(t)
  BY <1>1 DEF AllKept
<1> QED BY <1>1, <1>2 DEF OnceKept

LEMMA AloneInit == ChatInit => AloneInv
<1> SUFFICES ASSUME ChatInit PROVE AloneInv
  OBVIOUS
<1>1. OneInside /\ InHand /\ Marked /\ AtMarked /\ SaidByAuthor
  BY DEF ChatInit, Init, OneInside, InHand, Marked, AtMarked, SaidByAuthor
<1>2. \A t \in Text : ~Typed(t)
  <2> SUFFICES ASSUME NEW t \in Text PROVE ~(t[2] <= typed[t[1]])
    BY DEF Typed
  <2>1. t[1] \in Client /\ t[2] \in 1 .. MaxTexts
    BY TextParts
  <2>2. typed[t[1]] = 0
    BY <2>1 DEF ChatInit
  <2> QED BY <2>1, <2>2, MemoryAssumption
<1> QED BY <1>1, <1>2 DEF AloneInv, AllKept

(* The steps that leave the memory, and who works on it, alone.             *)
LEMMA AloneOutside ==
  ASSUME AloneInv, OneInside', UNCHANGED <<message, at, f1, typed, g, tpos, who, history>>
  PROVE  AloneInv'
<1>1. InHand' /\ Marked' /\ AtMarked' /\ SaidByAuthor'
  BY DEF AloneInv, InHand, Marked, AtMarked, SaidByAuthor, Typed
<1>2. \A t \in Text : Waiting(t)' = Waiting(t)
  BY DEF Waiting
<1>3. AllKept'
  BY <1>2, KeptSame DEF AloneInv
<1> QED BY <1>1, <1>3 DEF AloneInv

LEMMA LookAtKeeps == ASSUME ChatTyped, AloneInv, LookAt PROVE AloneInv'
<1>1. UNCHANGED <<cpc, message, at, f1, typed, history>> /\ tpos = "test" /\ tpos' # "free"
  BY DEF LookAt, NextPlace, rosterVars, clientVars
<1>2. AtMarked'
  BY DEF LookAt, NextPlace, AtMarked
<1>3. OneInside' /\ InHand' /\ Marked' /\ SaidByAuthor'
  BY <1>1 DEF AloneInv, OneInside, InHand, Marked, SaidByAuthor, Typed
<1>4. \A t \in Text : Waiting(t)' = Waiting(t)
  BY <1>1 DEF Waiting
<1>5. AllKept'
  BY <1>1, <1>4, KeptSame DEF AloneInv
<1> QED BY <1>2, <1>3, <1>5 DEF AloneInv

(* The text comes into the history as it goes from its place.               *)
LEMMA PrintKeeps == ASSUME ChatTyped, AloneInv, PrintText PROVE AloneInv'
<1> DEFINE b == message[g].buf
           h == [name |-> who, text |-> b]
<1>1. /\ UNCHANGED <<cpc, message, at, f1, typed, g, who>> /\ tpos = "print" /\ tpos' = "free"
      /\ history' = Append(history, h)
  BY DEF PrintText, rosterVars, clientVars
<1>2. /\ g \in Place /\ message[g].message_type = 2 /\ b \in Text /\ Typed(b) /\ who = b[1]
  BY <1>1 DEF ChatTyped, ChatTypeOK, Written, AloneInv, AtMarked, Marked
<1>3. h.name = who /\ h.text = b
  OBVIOUS
<1> HIDE DEF h
<1>4. /\ Len(history) \in Nat /\ DOMAIN history = 1 .. Len(history)
      /\ DOMAIN history' = 1 .. Len(history) + 1 /\ history'[Len(history) + 1] = h
      /\ \A n \in DOMAIN history : history'[n] = history[n]
  BY <1>1 DEF ChatTyped, ChatTypeOK
<1>5. DOMAIN history' = DOMAIN history \cup {Len(history) + 1}
  BY <1>4
<1>6. OneInside' /\ InHand' /\ Marked' /\ AtMarked'
  BY <1>1 DEF AloneInv, OneInside, InHand, Marked, AtMarked, Typed
<1>7. SaidByAuthor'
  <2>1. \A t : Typed(t)' <=> Typed(t)
    BY <1>1 DEF Typed
  <2> QED BY <1>2, <1>3, <1>4, <1>5, <2>1 DEF AloneInv, SaidByAuthor
<1>8. ASSUME NEW t \in Text, Typed(t)' PROVE OnceKept(t)'
  <2>1. OnceKept(t)
    BY <1>1, <1>8 DEF AloneInv, AllKept, Typed
  <2>2. CASE t = b
    <3>1. g \in Waiting(t)
      BY <1>1, <1>2, <2>2 DEF Waiting
    <3>2. Shown(t) = {} /\ Waiting(t) = {g}
      BY <2>1, <3>1 DEF OnceKept
    <3>3. Shown(t)' = {Len(history) + 1}
      BY <1>3, <1>4, <1>5, <2>2, <3>2 DEF Shown
    <3>4. \A p \in Place : p \in Waiting(t)' => p \in Waiting(t)
      BY <1>1 DEF Waiting
    <3>5. g \notin Waiting(t)'
      <4>1. t[1] \in Client
        BY TextParts
      <4> QED BY <1>1, <1>2, <4>1 DEF Waiting, AloneInv, InHand
    <3>6. Waiting(t)' = {}
      <4>1. Waiting(t)' \subseteq Place
        BY DEF Waiting
      <4> QED BY <3>2, <3>4, <3>5, <4>1
    <3> QED BY <3>3, <3>6 DEF OnceKept
  <2>3. CASE t # b
    <3>1. Shown(t)' = Shown(t)
      BY <1>3, <1>4, <1>5, <2>3 DEF Shown
    <3>2. Waiting(t)' = Waiting(t)
      BY <1>1, <2>3 DEF Waiting
    <3> QED BY <2>1, <3>1, <3>2 DEF OnceKept
  <2> QED BY <2>2, <2>3
<1>9. AllKept'
  BY <1>8 DEF AllKept
<1> QED BY <1>6, <1>7, <1>9 DEF AloneInv

(* The place is given back when nobody counts on it any more.               *)
LEMMA MarkReadKeeps == ASSUME ChatTyped, AloneInv, MarkRead PROVE AloneInv'
<1>1. UNCHANGED <<cpc, at, f1, typed, history>> /\ tpos = "free" /\ tpos' = "test"
  BY DEF MarkRead, NextPlace, rosterVars, clientVars
<1>2. g \in Place /\ message[g].message_type = 2 /\ f1 \in [Client -> Place]
  BY <1>1 DEF ChatTyped, ChatTypeOK, AloneInv, AtMarked
<1>3. \A q \in Place :
         /\ message'[q].message_type = (IF q = g THEN 1 ELSE message[q].message_type)
         /\ message'[q].PID = message[q].PID /\ message'[q].buf = message[q].buf
  <2>1. 1 \in 0 .. 2 /\ message' = [message EXCEPT ![g].message_type = 1]
    BY DEF MarkRead
  <2> QED BY <1>2, <2>1, StoreMark DEF ChatTyped, ChatTypeOK, Slot
<1>4. OneInside' /\ AtMarked' /\ SaidByAuthor'
  BY <1>1 DEF AloneInv, OneInside, AtMarked, SaidByAuthor, Typed
<1>5. InHand'
  BY <1>1, <1>2, <1>3 DEF AloneInv, InHand
<1>6. Marked'
  BY <1>1, <1>3 DEF AloneInv, Marked, Typed
<1>7. ASSUME NEW t \in Text PROVE Waiting(t)' = Waiting(t)
  <2>1. t[1] \in Client /\ f1[t[1]] \in Place
    BY <1>2, TextParts
  <2>2. at[t[1]] \in {"pid", "mark"} => f1[t[1]] # g
    BY <1>2, <2>1 DEF AloneInv, InHand
  <2> QED BY <1>1, <1>3, <2>1, <2>2 DEF Waiting
<1>8. AllKept'
  BY <1>1, <1>7, KeptSame DEF AloneInv
<1> QED BY <1>4, <1>5, <1>6, <1>8 DEF AloneInv

(* On its way to a place the client has nothing in hand.                    *)
LEMMA WalkKeeps ==
  ASSUME ChatTyped, AloneInv, NEW c \in Client, LoopTest(c) \/ Choose(c) \/ NoLine(c)
  PROVE  AloneInv'
<1>1. /\ UNCHANGED <<cpc, message, typed, g, tpos, who, history>>
      /\ at[c] \in {"test", "place", "fgets"}
  BY DEF LoopTest, Choose, NoLine, rosterVars, clientVars
<1>2. /\ at'[c] \in {"test", "place", "fgets"} /\ \A d \in Client \ {c} : at'[d] = at[d] /\ f1'[d] = f1[d]
      /\ at'[c] = "fgets" => message[f1'[c]].message_type # 2
  BY DEF LoopTest, Choose, NoLine, Usable, Onwards, ChatTyped, ChatTypeOK
<1>3. OneInside' /\ Marked' /\ AtMarked' /\ SaidByAuthor'
  BY <1>1 DEF AloneInv, OneInside, Marked, AtMarked, SaidByAuthor, Typed
<1>4. InHand'
  BY <1>1, <1>2 DEF AloneInv, InHand
<1>5. ASSUME NEW t \in Text PROVE Waiting(t)' = Waiting(t)
  <2>1. t[1] \in Client
    BY TextParts
  <2>2. \A p \in Place : (at'[t[1]] \in {"pid", "mark"} /\ f1'[t[1]] = p)
                         <=> (at[t[1]] \in {"pid", "mark"} /\ f1[t[1]] = p)
    BY <1>1, <1>2, <2>1
  <2> QED BY <1>1, <2>2 DEF Waiting
<1>6. AllKept'
  BY <1>1, <1>5, KeptSame DEF AloneInv
<1> QED BY <1>3, <1>4, <1>6 DEF AloneInv

(* What is in the place goes, which no text waits in: nobody else types.    *)
LEMMA TypeLineKeeps ==
  ASSUME ChatTyped, AloneInv, NEW c \in Client, TypeLine(c)
  PROVE  AloneInv'
<1> DEFINE p == f1[c]
           b == <<c, typed'[c]>>
<1>1. /\ UNCHANGED <<cpc, f1, g, tpos, who, history>> /\ cpc[c] = "in" /\ at[c] = "fgets"
      /\ at' = [at EXCEPT ![c] = "pid"] /\ typed' = [typed EXCEPT ![c] = @ + 1]
      /\ message' = [message EXCEPT ![p].buf = b] /\ typed[c] < MaxTexts
  BY MemoryAssumption DEF TypeLine, rosterVars, clientVars, ChatTyped, ChatTypeOK
<1>2. /\ p \in Place /\ f1 \in [Client -> Place] /\ message \in [Place -> Slot]
      /\ typed \in [Client -> 0 .. MaxTexts] /\ history \in Seq([name : Client, text : Text])
      /\ at \in [Client -> {"test", "place", "fgets", "pid", "mark"}]
  BY DEF ChatTyped, ChatTypeOK, Slot
<1>3. /\ typed'[c] = typed[c] + 1 /\ typed'[c] \in 1 .. MaxTexts
      /\ \A d \in Client \ {c} : typed'[d] = typed[d] /\ at'[d] = at[d]
      /\ at'[c] = "pid"
  BY <1>1, <1>2, MemoryAssumption
<1>4. b \in Text /\ b[1] = c /\ b[2] = typed'[c]
  BY <1>3 DEF Text
<1>5. \A q \in Place : /\ message'[q].message_type = message[q].message_type
                       /\ message'[q].PID = message[q].PID
                       /\ message'[q].buf = IF q = p THEN b ELSE message[q].buf
  BY <1>1, <1>2, <1>4, StoreText
<1>6. \A d \in Client : at[d] # "test" => d = c
  BY <1>1 DEF ChatTyped, Written, AloneInv, OneInside
<1>7. message[p].message_type # 2
  BY <1>1 DEF AloneInv, InHand
<1>8. \A t \in Text : Typed(t) => Typed(t)' /\ t # b
  BY <1>2, <1>3, <1>4, TextParts DEF Typed
<1>9. \A t \in Text : Typed(t)' /\ t # b => Typed(t)
  <2> SUFFICES ASSUME NEW t \in Text, t[2] <= typed'[t[1]], t # b PROVE t[2] <= typed[t[1]]
    BY DEF Typed
  <2>1. t[1] \in Client /\ t[2] \in 1 .. MaxTexts /\ t = <<t[1], t[2]>>
    BY TextParts
  <2>2. CASE t[1] = c
    BY <1>2, <1>3, <2>1, <2>2, MemoryAssumption
  <2>3. CASE t[1] # c
    BY <1>3, <2>1, <2>3
  <2> QED BY <2>2, <2>3
<1> HIDE DEF b
<1>10. OneInside' /\ AtMarked'
  <2>1. g \in Place
    BY DEF ChatTyped, ChatTypeOK
  <2> QED BY <1>1, <1>5, <2>1 DEF AloneInv, OneInside, AtMarked
<1>11. InHand'
  BY <1>1, <1>2, <1>3, <1>5, <1>6, <1>7 DEF InHand, b
<1>12. Marked'
  BY <1>5, <1>7, <1>8 DEF AloneInv, Marked, ChatTyped, Written
<1>13. SaidByAuthor'
  <2> QED BY <1>1, <1>2, <1>8, SaidTexts DEF AloneInv, SaidByAuthor
<1>14. ASSUME NEW t \in Text, Typed(t)' PROVE OnceKept(t)'
  <2>1. t[1] \in Client
    BY TextParts
  <2>2. Shown(t)' = Shown(t)
    BY <1>1 DEF Shown
  <2>3. CASE t = b
    <3>1. Shown(t) = {}
      <4>1. \A n \in DOMAIN history : history[n].text \in Text /\ Typed(history[n].text)
        BY <1>2, SaidTexts DEF AloneInv, SaidByAuthor
      <4> QED BY <1>8, <2>3, <4>1 DEF Shown
    <3>2. Waiting(t)' = {p}
      <4>1. p \in Waiting(t)'
        BY <1>1, <1>2, <1>3, <1>4, <1>5, <2>3 DEF Waiting
      <4>2. ASSUME NEW q \in Place, q # p PROVE q \notin Waiting(t)'
        <5>1. message[q].message_type = 2 => message[q].buf # b
          BY <1>8 DEF AloneInv, Marked, ChatTyped, Written
        <5> QED BY <1>1, <1>4, <1>5, <2>3, <4>2, <5>1 DEF Waiting
      <4>3. Waiting(t)' \subseteq Place
        BY DEF Waiting
      <4> QED BY <4>1, <4>2, <4>3
    <3> QED BY <2>2, <3>1, <3>2 DEF OnceKept
  <2>4. CASE t # b
    <3>1. OnceKept(t)
      BY <1>9, <1>14, <2>4 DEF AloneInv, AllKept
    <3>2. p \notin Waiting(t) /\ p \notin Waiting(t)'
      BY <1>1, <1>2, <1>5, <1>6, <1>7, <2>1, <2>4 DEF Waiting
    <3>3. ASSUME NEW q \in Place, q # p PROVE q \in Waiting(t)' <=> q \in Waiting(t)
      <4>1. message'[q].buf = message[q].buf /\ message'[q].message_type = message[q].message_type
        BY <1>5, <3>3
      <4>2. ~(at'[t[1]] \in {"pid", "mark"} /\ f1'[t[1]] = q)
        BY <1>1, <1>3, <1>6, <2>1, <3>3
      <4>3. ~(at[t[1]] \in {"pid", "mark"} /\ f1[t[1]] = q)
        BY <1>1, <1>6, <2>1
      <4> QED BY <1>1, <4>1, <4>2, <4>3 DEF Waiting
    <3>4. Waiting(t)' \subseteq Place /\ Waiting(t) \subseteq Place
      BY DEF Waiting
    <3>5. Waiting(t)' = Waiting(t)
      BY <3>2, <3>3, <3>4
    <3> QED BY <2>2, <3>1, <3>5 DEF OnceKept
  <2> QED BY <2>3, <2>4
<1>15. AllKept'
  BY <1>14 DEF AllKept
<1> QED BY <1>10, <1>11, <1>12, <1>13, <1>15 DEF AloneInv

LEMMA SignKeeps ==
  ASSUME ChatTyped, AloneInv, NEW c \in Client, Sign(c)
  PROVE  AloneInv'
<1> DEFINE p == f1[c]
<1>1. /\ UNCHANGED <<cpc, f1, typed, g, tpos, who, history>> /\ at[c] = "pid"
      /\ at' = [at EXCEPT ![c] = "mark"] /\ message' = [message EXCEPT ![p].PID = c]
      /\ cpc[c] = "in"
  BY DEF Sign, rosterVars, clientVars
<1>2. /\ p \in Place /\ f1 \in [Client -> Place] /\ message \in [Place -> Slot]
      /\ at \in [Client -> {"test", "place", "fgets", "pid", "mark"}] /\ g \in Place
  BY DEF ChatTyped, ChatTypeOK, Slot
<1>3. \A q \in Place : /\ message'[q].message_type = message[q].message_type
                       /\ message'[q].PID = (IF q = p THEN c ELSE message[q].PID)
                       /\ message'[q].buf = message[q].buf
  BY <1>1, <1>2, StorePid
<1>4. message[p].message_type # 2
  BY <1>1 DEF AloneInv, InHand
<1>5. \A d \in Client : at[d] # "test" => d = c
  BY <1>1 DEF ChatTyped, Written, AloneInv, OneInside
<1>6. OneInside' /\ AtMarked' /\ SaidByAuthor' /\ Marked'
  BY <1>1, <1>2, <1>3, <1>4 DEF AloneInv, OneInside, AtMarked, SaidByAuthor, Marked, Typed
<1>7. InHand'
  BY <1>1, <1>2, <1>3, <1>5 DEF AloneInv, InHand
<1>8. ASSUME NEW t \in Text PROVE Waiting(t)' = Waiting(t)
  <2>1. t[1] \in Client
    BY TextParts
  <2> QED BY <1>1, <1>2, <1>3, <2>1 DEF Waiting
<1>9. AllKept'
  BY <1>1, <1>8, KeptSame DEF AloneInv
<1> QED BY <1>6, <1>7, <1>9 DEF AloneInv

(* The text passes from the client's hands to the mark.                     *)
LEMMA MarkNewKeeps ==
  ASSUME ChatTyped, AloneInv, NEW c \in Client, MarkNew(c)
  PROVE  AloneInv'
<1> DEFINE p == f1[c]
<1>1. /\ UNCHANGED <<cpc, typed, g, tpos, who, history>> /\ at[c] = "mark" /\ cpc[c] = "in"
      /\ Onwards(c) /\ message' = [message EXCEPT ![p].message_type = 2]
  BY DEF MarkNew, rosterVars, clientVars
<1>2. /\ p \in Place /\ f1 \in [Client -> Place] /\ message \in [Place -> Slot]
      /\ at \in [Client -> {"test", "place", "fgets", "pid", "mark"}] /\ g \in Place
  BY DEF ChatTyped, ChatTypeOK, Slot
<1>3. \A q \in Place : /\ message'[q].message_type = (IF q = p THEN 2 ELSE message[q].message_type)
                       /\ message'[q].PID = message[q].PID
                       /\ message'[q].buf = message[q].buf
  <2>1. 2 \in 0 .. 2
    OBVIOUS
  <2> QED BY <1>1, <1>2, <2>1, StoreMark
<1>4. at' = [at EXCEPT ![c] = "test"] /\ \A d \in Client \ {c} : f1'[d] = f1[d]
  BY <1>1, OnwardsTyped DEF ChatTyped
<1>5. \A d \in Client : at[d] # "test" => d = c
  BY <1>1 DEF ChatTyped, Written, AloneInv, OneInside
<1>6. /\ message[p].message_type # 2 /\ message[p].PID = c /\ message[p].buf = <<c, typed[c]>>
      /\ typed[c] \in Nat
  BY <1>1 DEF AloneInv, InHand, ChatTyped, ChatTypeOK
<1>7. OneInside' /\ AtMarked' /\ SaidByAuthor'
  BY <1>1, <1>2, <1>3 DEF AloneInv, OneInside, AtMarked, SaidByAuthor, Typed
<1>8. Marked'
  BY <1>1, <1>3, <1>6 DEF AloneInv, Marked, Typed
<1>9. InHand'
  BY <1>2, <1>4, <1>5 DEF InHand
<1>10. tpos = "free" => g # p
  BY <1>6 DEF AloneInv, AtMarked
<1>11. ASSUME NEW t \in Text PROVE Waiting(t)' = Waiting(t)
  <2>1. t[1] \in Client
    BY TextParts
  <2>2. ASSUME NEW q \in Place PROVE q \in Waiting(t)' <=> q \in Waiting(t)
    <3>1. ~(at'[t[1]] \in {"pid", "mark"})
      BY <1>2, <1>4, <1>5, <2>1
    <3>2. CASE q = p
      <4>1. message[p].buf = t => t[1] = c
        BY <1>6
      <4> QED BY <1>1, <1>2, <1>3, <1>6, <1>10, <3>1, <3>2, <4>1 DEF Waiting
    <3>3. CASE q # p
      <4>1. ~(at[t[1]] \in {"pid", "mark"} /\ f1[t[1]] = q)
        BY <1>5, <2>1, <3>3
      <4> QED BY <1>1, <1>3, <3>1, <3>3, <4>1 DEF Waiting
    <3> QED BY <3>2, <3>3
  <2>3. Waiting(t)' \subseteq Place /\ Waiting(t) \subseteq Place
    BY DEF Waiting
  <2> QED BY <2>2, <2>3
<1>12. AllKept'
  BY <1>1, <1>11, KeptSame DEF AloneInv
<1> QED BY <1>7, <1>8, <1>9, <1>12 DEF AloneInv

LEMMA AloneNext ==
  ASSUME MemoryInv, TypeOK', [ChatNext]_chatVars
  PROVE  MemoryInv'
<1>0. ChatTyped' /\ alone' = alone
  <2>1. alone' = alone
    BY DEF ChatNext, ServerSteps, LookAt, PrintText, MarkRead, TextsDone, ServerElse, WindowSteps,
           ClientJoins, ClientStops, ClientRuns, LoopTest, Choose, NoLine, Sign, MarkNew,
           ClientLeaves, TypeLine, memoryVars, chatVars
  <2> QED BY <2>1, ChatNextTyped DEF MemoryInv
<1> SUFFICES ASSUME alone PROVE AloneInv'
  BY <1>0 DEF MemoryInv
<1>1. ChatTyped /\ AloneInv
  BY DEF MemoryInv
<1>2. CASE ServerSteps
  <2>1. CASE TextsDone \/ ServerElse
    <3>1. UNCHANGED <<cpc, message, at, f1, typed, g, tpos, who, history>>
      BY <2>1 DEF TextsDone, TextsRead, ServerElse, memoryVars, Start, FirstLook, AwaitWindow, Test,
                  NoAdd, AddClient, NoDel, DelClient, Quit, clientVars
    <3> QED BY <1>1, <3>1, AloneOutside DEF AloneInv, OneInside
  <2> QED BY <1>1, <1>2, <2>1, LookAtKeeps, PrintKeeps, MarkReadKeeps DEF ServerSteps
<1>3. CASE WindowSteps \/ (StopServer /\ UNCHANGED memoryVars) \/ UNCHANGED chatVars
  <2>1. UNCHANGED <<cpc, message, at, f1, typed, g, tpos, who, history>>
    BY <1>3 DEF WindowSteps, Window, WindowEnds, StopServer, chatVars, memoryVars, rosterVars, clientVars
  <2> QED BY <1>1, <2>1, AloneOutside DEF AloneInv, OneInside
<1>4. ASSUME NEW c \in Client,
             ClientJoins(c) \/ ClientStops(c) \/ ClientRuns(c) \/ TypeLine(c)
      PROVE  AloneInv'
  <2>1. CASE ClientJoins(c) \/ ClientStops(c) \/ ClientLeaves(c)
    <3>1. UNCHANGED <<message, at, f1, typed, g, tpos, who, history>>
      BY <2>1 DEF ClientJoins, ClientStops, ClientLeaves, memoryVars
    <3>2. cpc \in [Client -> {"start", "in", "left", "lost", "failed"}]
      BY <1>1 DEF ChatTyped, TypeOK
    <3>3. OneInside'
      BY <1>1, <2>1, <3>2 DEF ClientJoins, Join, ClientStops, StopClient, ClientLeaves, Leave,
                              AloneInv, OneInside
    <3> QED BY <1>1, <3>1, <3>3, AloneOutside
  <2> QED BY <1>1, <1>4, <2>1, WalkKeeps, TypeLineKeeps, SignKeeps, MarkNewKeeps DEF ClientRuns
<1> QED BY <1>2, <1>3, <1>4 DEF ChatNext

LEMMA MemoryInitial == ChatInit => MemoryInv
BY ChatInitTyped, AloneInit DEF MemoryInv

(* The invariant of the memory.                                             *)
THEOREM MemoryInvariance == ChatSafeSpec => []MemoryInv
<1>1. MemoryInv /\ TypeOK' /\ [ChatNext]_chatVars => MemoryInv'
  BY AloneNext
<1>2. ChatSafeSpec => []TypeOK
  BY ImplementsRoster, TypeCorrect, PTL DEF IsRoster
<1> QED BY <1>1, <1>2, MemoryInitial, PTL DEF ChatSafeSpec

(* Every variable has its type and nobody leaves the places, whoever types  *)
(* into which place at the same time.                                       *)
THEOREM ChatTypeCorrect == ChatSafeSpec => []ChatTypeOK
<1>1. MemoryInv => ChatTypeOK
  BY DEF MemoryInv, ChatTyped
<1> QED BY <1>1, MemoryInvariance, PTL

(* Cardinalities say the same as OnceKept.                                  *)
LEMMA OnceCounted ==
  ASSUME ChatTypeOK, NEW t \in Text, OnceKept(t)
  PROVE  Cardinality(Shown(t)) + Cardinality(Waiting(t)) = 1
<1>1. Cardinality({}) = 0
  BY FS_EmptySet
<1>2. CASE Waiting(t) = {} /\ \E n : Shown(t) = {n}
  <2>1. Cardinality(Shown(t)) = 1
    BY <1>2, FS_Singleton
  <2> QED BY <1>1, <1>2, <2>1
<1>3. CASE Shown(t) = {} /\ \E p : Waiting(t) = {p}
  <2>1. Cardinality(Waiting(t)) = 1
    BY <1>3, FS_Singleton
  <2> QED BY <1>1, <1>3, <2>1
<1> QED BY <1>2, <1>3 DEF OnceKept

(* Clients alone in the chat, one after the other, lose nothing, for any    *)
(* number of clients, places and texts: each is in the history once, under  *)
(* its author's name, or on its way there.                                  *)
THEOREM AloneKept == ChatSafeSpec => []TextsKeptAlone
<1>1. MemoryInv => TextsKeptAlone
  <2> SUFFICES ASSUME MemoryInv, alone PROVE TextsKept
    BY DEF TextsKeptAlone
  <2>1. ASSUME NEW c \in Client, NEW n \in 1 .. typed[c]
        PROVE  Cardinality(Shown(<<c, n>>)) + Cardinality(Waiting(<<c, n>>)) = 1
    <3>1. typed[c] \in 0 .. MaxTexts
      BY DEF MemoryInv, ChatTyped, ChatTypeOK
    <3>2. <<c, n>> \in Text /\ Typed(<<c, n>>)
      BY <3>1, MemoryAssumption DEF Text, Typed
    <3> QED BY <3>2, OnceCounted DEF MemoryInv, ChatTyped, AloneInv, AllKept
  <2>2. \A n \in DOMAIN history : history[n].name = history[n].text[1]
    BY DEF MemoryInv, AloneInv, SaidByAuthor
  <2> QED BY <2>1, <2>2 DEF TextsKept
<1> QED BY <1>1, MemoryInvariance, PTL

=============================================================================
