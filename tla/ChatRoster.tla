----------------------------- MODULE ChatRoster -----------------------------
(***************************************************************************)
(* The room of the two chats, ex16/p2 and ex17/p2: who is in it.  The code *)
(* is the same in both (chat-server.c from msgget to the end but for the   *)
(* reading of texts, the first and the last message of chat-client.c, and  *)
(* iface.c); how texts travel is in ChatQueue and ChatMemory.              *)
(*                                                                         *)
(* A System V queue carries three types of service messages: a client is   *)
(* here (add), a client leaves (del), and the window that shows the        *)
(* history gives its pid (log).  Every receive names a type, so each type  *)
(* is a queue of its own; they share the room in the queue.                *)
(*                                                                         *)
(* The server keeps the pids in list[], i of them.  realloc() is asked for *)
(* i + 4 bytes (i+1*sizeof(pid_t)) and leaves the block of malloc() where  *)
(* it is: it keeps room for ListRoom pids, zero until written, and         *)
(* list[-1] is the upper half of its size: with anything else than zero    *)
(* there the next realloc() ends the process.                              *)
(***************************************************************************)
EXTENDS Integers, Sequences, FiniteSets

CONSTANTS
  Client,      \* the clients: each joins at most once, with a pid of its own
  QueueRoom,   \* bound: how many service messages fit into the queue
  ListRoom,    \* the pids malloc() made room for (chat-server.c: 10)
  NoPid        \* the zero of an entry never written

ASSUME RosterAssumption ==
  /\ IsFiniteSet(Client) /\ NoPid \notin Client
  /\ QueueRoom \in Nat /\ ListRoom \in Nat /\ Cardinality(Client) < ListRoom

VARIABLES
  spc,        \* where the server is
  scexit,     \* its cexit
  alive,      \* whether the queue exists
  addq, delq, \* clients whose add or del message is in the queue
  logq,       \* whether the message of the window is
  list, i,    \* the room
  iface,      \* the window
  cpc, cexit, \* each client: where it is, its cexit
  patient     \* whether clients are listed before they are interrupted

serverVars == <<spc, scexit, list, i>>
queueVars  == <<alive, addq, delq, logq>>
clientVars == <<cpc, cexit, patient>>
rosterVars == <<serverVars, queueVars, iface, clientVars>>

Index == -1 .. ListRoom - 1

(* The service messages in the queue.                                       *)
Used == Len(addq) + Len(delq) + (IF logq THEN 1 ELSE 0)

-----------------------------------------------------------------------------
(* The server.                                                              *)

(* Without an xterm there is no window.                                     *)
Start ==
  /\ spc = "begin"
  /\ alive' = TRUE
  /\ iface' \in {"begin", "done"}
  /\ spc' = "first"
  /\ UNCHANGED <<scexit, list, i, addq, delq, logq, clientVars>>

(* The first look for the window has no room for its pid: should the window *)
(* have been that quick the server takes the error for a broken queue.      *)
FirstLook ==
  /\ spc = "first"
  /\ \/ logq /\ spc' = "done" /\ alive' = FALSE
     \/ ~logq /\ spc' = "wait" /\ UNCHANGED alive
  /\ UNCHANGED <<scexit, list, i, addq, delq, logq, iface, clientVars>>

(* Polls until the pid is there, whatever cexit says.                       *)
AwaitWindow ==
  /\ spc = "wait" /\ logq
  /\ logq' = FALSE
  /\ spc' = "test"
  /\ UNCHANGED <<scexit, alive, addq, delq, list, i, iface, clientVars>>

Test ==
  /\ spc = "test"
  /\ spc' = IF scexit THEN "quit" ELSE "texts"
  /\ UNCHANGED <<scexit, list, i, queueVars, iface, clientVars>>

(* Texts are read here.                                                     *)
TextsRead ==
  /\ spc = "texts"
  /\ spc' = "add"
  /\ UNCHANGED <<scexit, list, i, queueVars, iface, clientVars>>

(* What realloc() makes of l.                                               *)
Intact(l) == l[-1] = NoPid

NoAdd ==
  /\ spc = "add" /\ addq = <<>>
  /\ spc' = "del"
  /\ UNCHANGED <<scexit, list, i, queueVars, iface, clientVars>>

(* Mutant: the new pid takes the place of the last. *)
Listed_Below(c) == [list EXCEPT ![i-1] = c]

(* list with c after the last of the room.                                  *)
Listed(c) == [list EXCEPT ![i] = c]

AddClient ==
  /\ spc = "add" /\ addq # <<>>
  /\ addq' = Tail(addq)
  /\ \/ /\ Intact(list)
        /\ list' = Listed(Head(addq))
        /\ i' = i + 1
        /\ spc' = "del"
     \/ ~Intact(list) /\ spc' = "aborted" /\ UNCHANGED <<list, i>>
  /\ UNCHANGED <<scexit, alive, delq, logq, iface, clientVars>>

NoDel ==
  /\ spc = "del" /\ delq = <<>>
  /\ spc' = "test"
  /\ UNCHANGED <<scexit, list, i, queueVars, iface, clientVars>>

(* Where pid d is; the search looks from i-1 down to -1, of which there is  *)
(* at most one (EntriesDistinct).                                           *)
Places(d) == {k \in -1 .. i - 1 : list[k] = d}

(* Mutant: one entry too few moves down. *)
Without_Above(d) ==
  [k \in Index |-> IF k < i /\ \E p \in Places(d) : p < k THEN list[k+1] ELSE list[k]]

(* The entries above it move down, up to list[i].                           *)
Without(d) ==
  [k \in Index |-> IF k < i /\ \E p \in Places(d) : p <= k THEN list[k+1] ELSE list[k]]

(* Mutant: a pid that is found counts twice. *)
Shrunk_Twice(d) == IF Places(d) = {} THEN i - 1 ELSE i - 2

(* Mutant: i goes down only for a pid that is found. *)
Shrunk_IfFound(d) == IF Places(d) = {} THEN i ELSE i - 1

(* Mutant: i never goes down. *)
Shrunk_Never(d) == i

(* i goes down also when d is not there.                                    *)
Shrunk(d) == i - 1

DelClient ==
  /\ spc = "del" /\ delq # <<>>
  /\ delq' = Tail(delq)
  /\ list' = Without(Head(delq))
  /\ i' = Shrunk(Head(delq))
  /\ spc' = IF Intact(list') THEN "test" ELSE "aborted"
  /\ UNCHANGED <<scexit, alive, addq, logq, iface, clientVars>>

(* Mutant: the window is not told. *)
Quit_Alone ==
  /\ spc = "quit"
  /\ spc' = "done"
  /\ alive' = FALSE
  /\ UNCHANGED <<scexit, list, i, addq, delq, logq, iface, clientVars>>

(* The queue goes, and the window is sent SIGINT.                           *)
Quit ==
  /\ spc = "quit"
  /\ spc' = "done"
  /\ alive' = FALSE
  /\ iface' = IF iface = "tail" THEN "ending" ELSE iface
  /\ UNCHANGED <<scexit, list, i, addq, delq, logq, clientVars>>

(* SIGINT: the handler, at any time.                                        *)
StopServer ==
  /\ spc \notin {"done", "aborted"}
  /\ scexit' = TRUE
  /\ UNCHANGED <<spc, list, i, queueVars, iface, clientVars>>

-----------------------------------------------------------------------------
(* The window.                                                              *)

(* It shows the history from here on, or ends at once: no queue, or a full  *)
(* one.  room: whether a message fits into the queue.                       *)
Window(room) ==
  /\ iface = "begin"
  /\ \/ alive /\ room /\ logq' = TRUE /\ iface' = "tail"
     \/ ~(alive /\ room) /\ iface' = "done" /\ UNCHANGED logq
  /\ UNCHANGED <<alive, addq, delq, serverVars, clientVars>>

WindowEnds ==
  /\ iface = "ending" /\ iface' = "done"
  /\ UNCHANGED <<serverVars, queueVars, clientVars>>

-----------------------------------------------------------------------------
(* The clients.                                                             *)

Join(c, room) ==
  /\ cpc[c] = "start"
  /\ \/ alive /\ room /\ addq' = Append(addq, c) /\ cpc' = [cpc EXCEPT ![c] = "in"]
     \/ ~(alive /\ room) /\ cpc' = [cpc EXCEPT ![c] = "failed"] /\ UNCHANGED addq
  /\ UNCHANGED <<alive, delq, logq, serverVars, iface, cexit, patient>>

(* SIGINT; a patient user looks at the list first.                          *)
StopClient(c) ==
  /\ cpc[c] = "in"
  /\ patient => \A k \in DOMAIN addq : addq[k] # c
  /\ cexit' = [cexit EXCEPT ![c] = TRUE]
  /\ UNCHANGED <<serverVars, queueVars, iface, cpc, patient>>

(* If del cannot be sent the client ends, and the server is not told.       *)
Leave(c, room) ==
  /\ cpc[c] = "in" /\ cexit[c]
  /\ \/ alive /\ room /\ delq' = Append(delq, c) /\ cpc' = [cpc EXCEPT ![c] = "left"]
     \/ ~(alive /\ room) /\ cpc' = [cpc EXCEPT ![c] = "lost"] /\ UNCHANGED delq
  /\ UNCHANGED <<alive, addq, logq, serverVars, iface, cexit, patient>>

(* A text did not fit (ex16/p2, chat-client.c:100): the client ends without *)
(* a del.                                                                   *)
Fail(c) ==
  /\ cpc[c] = "in"
  /\ cpc' = [cpc EXCEPT ![c] = "lost"]
  /\ UNCHANGED <<queueVars, serverVars, iface, cexit, patient>>

-----------------------------------------------------------------------------
Init ==
  /\ spc = "begin" /\ scexit = FALSE
  /\ alive = FALSE /\ addq = <<>> /\ delq = <<>> /\ logq = FALSE
  /\ list = [k \in Index |-> NoPid] /\ i = 0
  /\ iface = "none"
  /\ cpc = [c \in Client |-> "start"] /\ cexit = [c \in Client |-> FALSE]
  /\ patient \in BOOLEAN

ServerRuns ==
  \/ Start \/ FirstLook \/ AwaitWindow \/ Test \/ TextsRead
  \/ NoAdd \/ AddClient \/ NoDel \/ DelClient \/ Quit

(* Whether a message fits: texts may leave less room (ChatQueue).           *)
Room == {room \in BOOLEAN : room => Used < QueueRoom}

WindowRuns == (\E room \in Room : Window(room)) \/ WindowEnds

ClientActs(c) ==
  \/ StopClient(c) \/ Fail(c)
  \/ \E room \in Room : Join(c, room) \/ Leave(c, room)

Next ==
  \/ ServerRuns \/ StopServer \/ WindowRuns
  \/ \E c \in Client : ClientActs(c)

SafeSpec == Init /\ [][Next]_rosterVars

(* The processes run; nobody need press Ctrl-C.                             *)
Spec ==
  /\ SafeSpec
  /\ WF_rosterVars(ServerRuns)
  /\ WF_rosterVars(WindowRuns)
  /\ \A c \in Client : WF_rosterVars(\E room \in Room : Leave(c, room))

-----------------------------------------------------------------------------
(* Properties.                                                              *)

(* The clients that told the server they are here and not that they left.   *)
Inside == {c \in Client : cpc[c] \in {"in", "lost"}}

Served == spc \notin {"done", "aborted"}

(* Every variable has its type; no entry beyond list[i-1] has ever to be    *)
(* written outside the block but list[-1].                                  *)
TypeOK ==
  /\ spc \in {"begin", "first", "wait", "test", "texts", "add", "del", "quit",
              "done", "aborted"}
  /\ scexit \in BOOLEAN /\ alive \in BOOLEAN /\ logq \in BOOLEAN
  /\ addq \in Seq(Client) /\ delq \in Seq(Client)
  /\ list \in [Index -> Client \cup {NoPid}]
  /\ i \in -1 .. Cardinality(Client)
  /\ iface \in {"none", "begin", "tail", "ending", "done"}
  /\ cpc \in [Client -> {"start", "in", "left", "lost", "failed"}]
  /\ cexit \in [Client -> BOOLEAN] /\ patient \in BOOLEAN

(* The number of clients is right whatever overtakes what in the queue: it  *)
(* only lags behind by the messages still there.  (It would not be if i     *)
(* went down only for a pid that was found.)                                *)
CountBalanced ==
  Served => i + Len(addq) = Cardinality(Inside) + Len(delq)

(* The entries of the room are pids, none of them twice: msgrcv() is never  *)
(* asked for type 0, which is any message, and one del takes a client out.  *)
EntriesDistinct ==
  /\ \A k \in 0 .. i - 1 : list[k] # NoPid
  /\ \A k, l \in 0 .. i - 1 : k # l => list[k] # list[l]

(* When a client leaves only after it was listed, the room holds exactly    *)
(* the clients whose add was read and whose del was not.                    *)
RosterExact ==
  Served /\ patient =>
    {list[k] : k \in 0 .. i - 1} =
      {c \in Client : /\ c \in Inside \/ \E k \in DOMAIN delq : delq[k] = c
                      /\ \A k \in DOMAIN addq : addq[k] # c}

(* Only list[-1] tells whether the process will be ended by realloc(), and  *)
(* it stays zero as long as no client leaves before it was listed.          *)
PatientServerSurvives == patient => Intact(list) /\ spc # "aborted"

(* README:7 (ex16/p2, ex17/p2): the server ends by Ctrl-C.                  *)
ServerSurvives == spc # "aborted"

(* Ctrl-C ends the server once the window is there, and the window as well, *)
(* whatever the clients are doing; a window so quick that the first look    *)
(* found it is left behind.                                                 *)
SigintEndsBoth ==
  patient =>
    (scexit /\ iface = "tail" /\ spc \notin {"first", "done"})
      ~> (spc = "done" /\ iface = "done")

=============================================================================
