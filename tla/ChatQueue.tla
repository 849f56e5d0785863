----------------------------- MODULE ChatQueue ------------------------------
(***************************************************************************)
(* The chat of ex16/p2: texts travel in the queue too, with the pid of     *)
(* their author as their type.  In every turn the server reads at most one *)
(* text of each client in the room and writes it to the history; then it   *)
(* reads an add, then a del (ChatRoster).                                  *)
(*                                                                         *)
(* A text is a number, the how manyth it is of its author.                 *)
(***************************************************************************)
EXTENDS ChatRoster

CONSTANTS
  MaxTexts, \* bound: texts a client types
  TextSize  \* the part of the queue a text takes, a service message being 1

ASSUME TextsAssumption == MaxTexts \in Nat /\ TextSize \in Nat

VARIABLES
  textq,    \* the texts of each client in the queue
  at,       \* where each client's loop is: before its test, or in fgets()
  typed,    \* how many texts each client has sent
  f,        \* the server's loop over the room
  history   \* what the server wrote: who said what

textVars == <<textq, at, typed, f, history>>
chatVars == <<rosterVars, textVars>>

(* The texts in the queue, by their place among those of their author.      *)
Queued == {t \in Client \X (1 .. MaxTexts) : t[2] \in DOMAIN textq[t[1]]}

QueueUsed == Used + TextSize * Cardinality(Queued)

(* Mutant: one byte too many. *)
Fits_Loose(size) == QueueUsed + size <= QueueRoom + 1

Fits(size) == QueueUsed + size <= QueueRoom

-----------------------------------------------------------------------------
(* The server.                                                              *)

(* Mutant: the name of the last of the room. *)
Said_ByLast(c) ==
  history' = Append(history, [name |-> list[i-1], text |-> <<c, Head(textq[c])>>])

Said(c) == history' = Append(history, [name |-> list[f], text |-> <<c, Head(textq[c])>>])

(* list[f] is a pid (EntriesDistinct), the type asked for.                  *)
ReadText ==
  /\ spc = "texts" /\ f < i
  /\ LET c == list[f] IN
       \/ textq[c] = <<>> /\ UNCHANGED <<textq, history>>
       \/ textq[c] # <<>> /\ textq' = [textq EXCEPT ![c] = Tail(@)] /\ Said(c)
  /\ f' = f + 1
  /\ UNCHANGED <<rosterVars, at, typed>>

(* Mutant: the loop stops before the last of the room. *)
TextsDone_Early ==
  /\ TextsRead /\ f >= i - 1
  /\ f' = 0
  /\ UNCHANGED <<textq, at, typed, history>>

TextsDone ==
  /\ TextsRead /\ f >= i
  /\ f' = 0
  /\ UNCHANGED <<textq, at, typed, history>>

ServerElse ==
  /\ \/ Start \/ FirstLook \/ AwaitWindow \/ Test
     \/ NoAdd \/ AddClient \/ NoDel \/ DelClient \/ Quit
  /\ UNCHANGED textVars

ServerSteps == ReadText \/ TextsDone \/ ServerElse

-----------------------------------------------------------------------------
(* The clients.                                                             *)

ClientJoins(c) == Join(c, Fits(1)) /\ UNCHANGED textVars

ClientStops(c) == StopClient(c) /\ UNCHANGED textVars

LoopTest(c) ==
  /\ cpc[c] = "in" /\ at[c] = "test" /\ ~cexit[c]
  /\ at' = [at EXCEPT ![c] = "fgets"]
  /\ UNCHANGED <<rosterVars, textq, typed, f, history>>

(* A line was typed.                                                        *)
Send(c) ==
  /\ cpc[c] = "in" /\ at[c] = "fgets" /\ typed[c] < MaxTexts
  /\ \/ /\ alive /\ Fits(TextSize)
        /\ typed' = [typed EXCEPT ![c] = @ + 1]
        /\ textq' = [textq EXCEPT ![c] = Append(@, typed'[c])]
        /\ UNCHANGED rosterVars
     \/ ~(alive /\ Fits(TextSize)) /\ Fail(c) /\ UNCHANGED <<textq, typed>>
  /\ at' = [at EXCEPT ![c] = "test"]
  /\ UNCHANGED <<f, history>>

(* fgets() returns NULL: interrupted.                                       *)
NoLine(c) ==
  /\ cpc[c] = "in" /\ at[c] = "fgets" /\ cexit[c]
  /\ at' = [at EXCEPT ![c] = "test"]
  /\ UNCHANGED <<rosterVars, textq, typed, f, history>>

ClientLeaves(c) == at[c] = "test" /\ Leave(c, Fits(1)) /\ UNCHANGED textVars

-----------------------------------------------------------------------------
ChatInit ==
  /\ Init
  /\ textq = [c \in Client |-> <<>>] /\ typed = [c \in Client |-> 0]
  /\ at = [c \in Client |-> "test"]
  /\ f = 0 /\ history = <<>>

WindowSteps == (Window(Fits(1)) \/ WindowEnds) /\ UNCHANGED textVars

ClientRuns(c) == LoopTest(c) \/ NoLine(c) \/ ClientLeaves(c)

ChatNext ==
  \/ ServerSteps \/ WindowSteps
  \/ StopServer /\ UNCHANGED textVars
  \/ \E c \in Client : ClientJoins(c) \/ ClientStops(c) \/ ClientRuns(c) \/ Send(c)

ChatSafeSpec == ChatInit /\ [][ChatNext]_chatVars

(* The processes run; nobody need type or press Ctrl-C.                     *)
ChatSpec ==
  /\ ChatSafeSpec
  /\ WF_chatVars(ServerSteps)
  /\ WF_chatVars(WindowSteps)
  /\ \A c \in Client : WF_chatVars(ClientRuns(c))

-----------------------------------------------------------------------------
(* Properties.                                                              *)

(* How many texts of c the server has read.                                 *)
Read(c) == typed[c] - Len(textq[c])

(* What the history has under the name of c, and what is still in the queue *)
(* after it, is exactly what c sent, in its order: no text is lost, shown   *)
(* twice, put before an earlier one or under another name, however the room *)
(* changes while the server walks through it.                               *)
HistoryFaithful ==
  \A c \in Client :
    /\ \A k \in DOMAIN textq[c] : textq[c][k] = Read(c) + k
    /\ \A n \in 1 .. Read(c) :
         \E k \in DOMAIN history : history[k] = [name |-> c, text |-> <<c, n>>]
    /\ \A k \in DOMAIN history :
         history[k].name = c => \E n \in 1 .. Read(c) : history[k].text = <<c, n>>
    /\ \A k, l \in DOMAIN history :
         k < l /\ history[k].name = c /\ history[l].name = c =>
           history[k].text[2] < history[l].text[2]

(* Once the server is in its loop, a text of a client that does not leave   *)
(* is shown, whoever else comes and goes, if only everybody waits to be     *)
(* listed before leaving.  (Before the loop, a queue full of texts keeps    *)
(* the window's message out, for which the server waits.)                   *)
TextsShown ==
  patient => \A c \in Client :
    (textq[c] # <<>> /\ spc \in {"test", "texts", "add", "del"}) ~> (textq[c] = <<>> \/ cpc[c] # "in" \/ ~Served)

(* This chat is a ChatRoster: however texts travel, the room is kept the    *)
(* same way, and what holds of ChatRoster holds here.                       *)
IsRoster == SafeSpec

=============================================================================
