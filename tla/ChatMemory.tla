----------------------------- MODULE ChatMemory -----------------------------
(***************************************************************************)
(* The chat of ex17/p2: texts travel in shared memory, in SLOTS places     *)
(* that nothing locks.  A client walks the places and types its line into  *)
(* the first that is not marked 2; the line, the pid and the mark are three*)
(* stores.  In every turn the server walks the places once for each client *)
(* in the room, writes what is marked to the history and marks it 1; then  *)
(* it reads an add and a del (ChatRoster).                                 *)
(*                                                                         *)
(* A text is a pair: its author, and the how manyth it is of its author.   *)
(* The memory is never removed (shmctl() is given its address for its id,  *)
(* and fails); the model has one run of the server.                        *)
(***************************************************************************)
EXTENDS ChatRoster

CONSTANTS
  SLOTS,     \* places (5 in the code)
  MaxTexts,  \* bound: texts a client types alone
  MaxMixed,  \* bound: texts a client types among others
  HastyMix,  \* bound: whether clients among others may be impatient
  NoText     \* the contents of a place after memset()

ASSUME MemoryAssumption ==
  /\ SLOTS \in Nat \ {0} /\ HastyMix \in BOOLEAN
  /\ MaxTexts \in Nat /\ MaxMixed \in 0 .. MaxTexts

Place == 0 .. SLOTS - 1
Text  == Client \X (1 .. MaxTexts)

VARIABLES
  message, \* the shared memory
  at,      \* where each client's loop is
  f1,      \* the place each client is at
  typed,   \* how many texts each client has typed
  f, g,    \* the server's loops: over the room, over the places (f1 there)
  tpos,    \* where in the inner loop it is
  who,     \* the pid it has read
  history, \* what the server wrote: who said what
  alone    \* whether a client comes only when no other is there

memoryVars == <<message, at, f1, typed, f, g, tpos, who, history, alone>>
chatVars   == <<rosterVars, memoryVars>>

-----------------------------------------------------------------------------
(* The server.                                                              *)

(* Mutant: one place too many. *)
LastPlace_Beyond == SLOTS

(* Mutant: the last place is not looked at. *)
LastPlace_Short == SLOTS - 2

LastPlace == SLOTS - 1

(* The next place; after the last one, the next client of the room.         *)
NextPlace ==
  /\ tpos' = "test"
  /\ \/ g < LastPlace /\ g' = g + 1 /\ f' = f
     \/ g >= LastPlace /\ g' = 0 /\ f' = f + 1

(* Mutant: the place is given back before it is read. *)
LookAt_FreeFirst ==
  /\ spc = "texts" /\ f < i /\ tpos = "test"
  /\ \/ /\ message[g].message_type = 2
        /\ who' = message[g].PID
        /\ message' = [message EXCEPT ![g].message_type = 1]
        /\ tpos' = "print"
        /\ UNCHANGED <<f, g>>
     \/ message[g].message_type # 2 /\ NextPlace /\ UNCHANGED <<who, message>>
  /\ UNCHANGED <<rosterVars, at, f1, typed, history, alone>>

LookAt ==
  /\ spc = "texts" /\ f < i /\ tpos = "test"
  /\ \/ /\ message[g].message_type = 2
        /\ who' = message[g].PID
        /\ tpos' = "print"
        /\ UNCHANGED <<f, g>>
     \/ message[g].message_type # 2 /\ NextPlace /\ UNCHANGED who
  /\ UNCHANGED <<rosterVars, message, at, f1, typed, history, alone>>

PrintText ==
  /\ tpos = "print"
  /\ history' = Append(history, [name |-> who, text |-> message[g].buf])
  /\ tpos' = "free"
  /\ UNCHANGED <<rosterVars, message, at, f1, typed, f, g, who, alone>>

MarkRead ==
  /\ tpos = "free"
  /\ message' = [message EXCEPT ![g].message_type = 1]
  /\ NextPlace
  /\ UNCHANGED <<rosterVars, at, f1, typed, who, history, alone>>

TextsDone ==
  /\ TextsRead /\ f >= i /\ tpos = "test"
  /\ f' = 0
  /\ UNCHANGED <<message, at, f1, typed, g, tpos, who, history, alone>>

ServerElse ==
  /\ \/ Start \/ FirstLook \/ AwaitWindow \/ Test
     \/ NoAdd \/ AddClient \/ NoDel \/ DelClient \/ Quit
  /\ UNCHANGED memoryVars

ServerSteps == LookAt \/ PrintText \/ MarkRead \/ TextsDone \/ ServerElse

-----------------------------------------------------------------------------
(* The clients.                                                             *)

ClientJoins(c) ==
  /\ alone => \A d \in Client : cpc[d] # "in"
  /\ Join(c, Used < QueueRoom)
  /\ UNCHANGED memoryVars

ClientStops(c) == StopClient(c) /\ UNCHANGED memoryVars

(* Client c goes on to the next place.                                      *)
Onwards(c) ==
  /\ at' = [at EXCEPT ![c] = "test"]
  /\ f1' = [f1 EXCEPT ![c] = (@ + 1) % SLOTS]

LoopTest(c) ==
  /\ cpc[c] = "in" /\ at[c] = "test" /\ ~cexit[c]
  /\ at' = [at EXCEPT ![c] = "place"]
  /\ UNCHANGED <<rosterVars, message, f1, typed, f, g, tpos, who, history, alone>>

(* Whether c may type into place p.                                         *)
Usable(p) == message[p].message_type # 2

Choose(c) ==
  /\ cpc[c] = "in" /\ at[c] = "place"
  /\ \/ Usable(f1[c]) /\ at' = [at EXCEPT ![c] = "fgets"] /\ UNCHANGED f1
     \/ ~Usable(f1[c]) /\ Onwards(c)
  /\ UNCHANGED <<rosterVars, message, typed, f, g, tpos, who, history, alone>>

TypeLine(c) ==
  /\ cpc[c] = "in" /\ at[c] = "fgets" /\ typed[c] < (IF alone THEN MaxTexts ELSE MaxMixed)
  /\ typed' = [typed EXCEPT ![c] = @ + 1]
  /\ message' = [message EXCEPT ![f1[c]].buf = <<c, typed'[c]>>]
  /\ at' = [at EXCEPT ![c] = "pid"]
  /\ UNCHANGED <<rosterVars, f1, f, g, tpos, who, history, alone>>

(* fgets() returns NULL: interrupted.                                       *)
NoLine(c) ==
  /\ cpc[c] = "in" /\ at[c] = "fgets" /\ cexit[c]
  /\ Onwards(c)
  /\ UNCHANGED <<rosterVars, message, typed, f, g, tpos, who, history, alone>>

Sign(c) ==
  /\ cpc[c] = "in" /\ at[c] = "pid"
  /\ message' = [message EXCEPT ![f1[c]].PID = c]
  /\ at' = [at EXCEPT ![c] = "mark"]
  /\ UNCHANGED <<rosterVars, f1, typed, f, g, tpos, who, history, alone>>

MarkNew(c) ==
  /\ cpc[c] = "in" /\ at[c] = "mark"
  /\ message' = [message EXCEPT ![f1[c]].message_type = 2]
  /\ Onwards(c)
  /\ UNCHANGED <<rosterVars, typed, f, g, tpos, who, history, alone>>

ClientLeaves(c) == at[c] = "test" /\ Leave(c, Used < QueueRoom) /\ UNCHANGED memoryVars

-----------------------------------------------------------------------------
ChatInit ==
  /\ Init
  /\ message = [p \in Place |-> [message_type |-> 0, buf |-> NoText, PID |-> NoPid]]
  /\ at = [c \in Client |-> "test"] /\ f1 = [c \in Client |-> 0]
  /\ typed = [c \in Client |-> 0]
  /\ f = 0 /\ g = 0 /\ tpos = "test" /\ who = NoPid /\ history = <<>>
  /\ alone \in BOOLEAN /\ (alone \/ patient \/ HastyMix)

WindowSteps == (Window(Used < QueueRoom) \/ WindowEnds) /\ UNCHANGED memoryVars

ClientRuns(c) ==
  LoopTest(c) \/ Choose(c) \/ NoLine(c) \/ Sign(c) \/ MarkNew(c) \/ ClientLeaves(c)

ChatNext ==
  \/ ServerSteps \/ WindowSteps
  \/ StopServer /\ UNCHANGED memoryVars
  \/ \E c \in Client : ClientJoins(c) \/ ClientStops(c) \/ ClientRuns(c) \/ TypeLine(c)

ChatSafeSpec == ChatInit /\ [][ChatNext]_chatVars

(* The processes run; nobody need type or press Ctrl-C.                     *)
ChatSpec ==
  /\ ChatSafeSpec
  /\ WF_chatVars(ServerSteps)
  /\ WF_chatVars(WindowSteps)
  /\ \A c \in Client : WF_chatVars(ClientRuns(c))

-----------------------------------------------------------------------------
(* Properties.                                                              *)

(* The memory and what goes with it have their types; nobody reads or       *)
(* writes beyond the places.                                                *)
ChatTypeOK ==
  /\ message \in [Place -> [message_type : 0 .. 2, buf : Text \cup {NoText},
                            PID : Client \cup {NoPid}]]
  /\ at \in [Client -> {"test", "place", "fgets", "pid", "mark"}]
  /\ f1 \in [Client -> Place]
  /\ typed \in [Client -> 0 .. MaxTexts]
  /\ f \in 0 .. Cardinality(Client) /\ g \in Place
  /\ tpos \in {"test", "print", "free"} /\ who \in Client \cup {NoPid}
  /\ history \in Seq([name : Client, text : Text]) /\ alone \in BOOLEAN

(* Where text t is on its way: in its author's hands, or marked and not yet *)
(* in the history.                                                          *)
Waiting(t) ==
  {p \in Place :
     /\ message[p].buf = t
     /\ \/ at[t[1]] \in {"pid", "mark"} /\ f1[t[1]] = p
        \/ message[p].message_type = 2 /\ ~(tpos = "free" /\ g = p)}

Shown(t) == {k \in DOMAIN history : history[k].text = t}

(* Every text typed is in the history once, under its author's name, or on  *)
(* its way there.                                                           *)
TextsKept ==
  /\ \A c \in Client : \A n \in 1 .. typed[c] :
       Cardinality(Shown(<<c, n>>)) + Cardinality(Waiting(<<c, n>>)) = 1
  /\ \A k \in DOMAIN history : history[k].name = history[k].text[1]

(* One client alone in the chat, or several one after the other, lose       *)
(* nothing, although nothing is locked: neither overtakes the other in a    *)
(* place.                                                                   *)
TextsKeptAlone == alone => TextsKept

(* Whoever types into which place: what is marked is read, unless the room  *)
(* is empty (then it is not looked at) or the server ends.                  *)
PlacesRead ==
  \A p \in Place :
    (message[p].message_type = 2 /\ spc \in {"test", "texts", "add", "del"})
      ~> (message[p].message_type # 2 \/ i <= 0 \/ ~Served)

(* This chat is a ChatRoster: however texts travel, the room is kept the    *)
(* same way, and what holds of ChatRoster holds here.                       *)
IsRoster == SafeSpec

=============================================================================
