---------------------------- MODULE ThreadSystem ----------------------------
(***************************************************************************)
(* The programs of ex19/p1 together: ThreadServer, its clients, and the    *)
(* datagrams between them, each socket with its receive queue.  What is    *)
(* sent to a port nobody has bound is lost.                                *)
(*                                                                         *)
(* A client asks for a port, then sends a word and waits for the answer,   *)
(* again and again, until END is answered or SIGINT came.                  *)
(***************************************************************************)
EXTENDS ThreadServer, Sequences

CONSTANTS
  MaxWords,  \* bound: words a client types
  MainPort   \* where requests are sent

(* The server is not started on a port it will give to a thread.            *)
ASSUME SystemAssumption == MainPort \notin Port

VARIABLES
  patient,    \* whether users act only when their thread has bound its port
  cpc, cint,  \* each client: where it is, its cexit
  server,     \* the port it sends to
  msg,        \* what its buffer says
  words,      \* words typed
  mainq,      \* received by the main socket, not yet read
  threadq,    \* the same for each thread's socket
  clientq     \* and for each client's socket

clientVars == <<patient, cpc, cint, server, msg, words>>
netVars    == <<mainq, threadq, clientq>>
sysVars    == <<vars, clientVars, netVars>>

-----------------------------------------------------------------------------
(* Sockets.                                                                 *)

SendToServer(c, k) ==
  \/ /\ server[c] = MainPort
     /\ mainq' = IF mpc = "done" THEN mainq ELSE Append(mainq, c)
     /\ UNCHANGED threadq
  \/ /\ server[c] # MainPort
     /\ threadq' = [t \in Thread |->
                     IF sock[t] = server[c] /\ Lives(t)
                       THEN Append(threadq[t], [from |-> c, kind |-> k])
                       ELSE threadq[t]]
     /\ UNCHANGED mainq

SendToClient(c, m) ==
  clientq' = IF cpc[c] = "done" THEN clientq ELSE [clientq EXCEPT ![c] = Append(@, m)]

-----------------------------------------------------------------------------
(* The server.                                                              *)

MainRuns ==
  \/ (MainStops \/ MainCreate) /\ UNCHANGED <<clientVars, netVars>>
  \/ /\ mainq # <<>> /\ MainReceive(Head(mainq))
     /\ mainq' = Tail(mainq)
     /\ UNCHANGED <<clientVars, threadq, clientq>>
  \/ /\ MainSend /\ SendToClient(client, [kind |-> "port", port |-> Told])
     /\ UNCHANGED <<clientVars, mainq, threadq>>

ThreadRuns(t) ==
  \/ (ReadNumber(t) \/ Bind(t)) /\ UNCHANGED <<clientVars, netVars>>
  \/ /\ threadq[t] # <<>> /\ Receive(t, Head(threadq[t]))
     /\ threadq' = [threadq EXCEPT ![t] = Tail(@)]
     /\ UNCHANGED <<clientVars, mainq, clientq>>
  \/ /\ Reply(t)
     /\ SendToClient(cur[t].from, [kind |-> Answer(t), port |-> NoPort])
     /\ UNCHANGED <<clientVars, mainq, threadq>>

ServerInterrupt == Interrupt /\ UNCHANGED <<clientVars, netVars>>

-----------------------------------------------------------------------------
(* The clients.                                                             *)

Goes(c, where) == cpc' = [cpc EXCEPT ![c] = where]

(* The loop's test of cexit.                                                *)
AfterTest(c) == IF cint[c] THEN "bye" ELSE "scanf"

Request(c) ==
  /\ cpc[c] = "request"
  /\ SendToServer(c, "text")
  /\ Goes(c, "answer")
  /\ UNCHANGED <<patient, cint, server, msg, words, clientq, vars>>

(* Where the words go from now on.                                          *)
PortOf(m) == m.port

GetPort(c) ==
  /\ cpc[c] = "answer" /\ clientq[c] # <<>>
  /\ server' = [server EXCEPT ![c] = PortOf(Head(clientq[c]))]
  /\ clientq' = [clientq EXCEPT ![c] = Tail(@)]
  /\ Goes(c, AfterTest(c))
  /\ UNCHANGED <<patient, cint, msg, words, mainq, threadq, vars>>

(* SIGINT ends the wait for the port; the port stays the main one.          *)
NoPortCame(c) ==
  /\ cpc[c] = "answer" /\ cint[c]
  /\ Goes(c, "bye")
  /\ UNCHANGED <<patient, cint, server, msg, words, netVars, vars>>

(* The thread that c was told of has bound its port, or ended.              *)
Settled(c) == \A t \in Thread : server[c] = t - 1 => tpc[t] \notin {"start", "bind"}

Say(c, w) ==
  /\ msg' = [msg EXCEPT ![c] = w]
  /\ SendToServer(c, w)
  /\ Goes(c, "reply")
  /\ UNCHANGED <<patient, cint, server, clientq, vars>>

Word(c, w) ==
  /\ cpc[c] = "scanf" /\ words[c] < MaxWords
  /\ patient => Settled(c)
  /\ words' = [words EXCEPT ![c] = @ + 1]
  /\ Say(c, w)

(* SIGINT ends scanf(), which leaves the buffer empty: an empty word.       *)
NoWord(c) ==
  /\ cpc[c] = "scanf" /\ cint[c]
  /\ Say(c, "text")
  /\ UNCHANGED words

(* Mutant: END is sent only in answer to END. *)
AfterReply_NoBye(c, m) == IF m = "END" \/ cint[c] THEN "done" ELSE "scanf"

(* msg says END: no need to say so again.                                   *)
AfterReply(c, m) == IF m = "END" THEN "done" ELSE AfterTest(c)

GetReply(c) ==
  /\ cpc[c] = "reply" /\ clientq[c] # <<>>
  /\ msg' = [msg EXCEPT ![c] = Head(clientq[c]).kind]
  /\ Goes(c, AfterReply(c, Head(clientq[c]).kind))
  /\ clientq' = [clientq EXCEPT ![c] = Tail(@)]
  /\ UNCHANGED <<patient, cint, server, words, mainq, threadq, vars>>

(* SIGINT ends the wait; msg is still the word sent.                        *)
NoReply(c) ==
  /\ cpc[c] = "reply" /\ cint[c]
  /\ Goes(c, AfterReply(c, msg[c]))
  /\ UNCHANGED <<patient, cint, server, msg, words, netVars, vars>>

Bye(c) ==
  /\ cpc[c] = "bye"
  /\ SendToServer(c, "END")
  /\ Goes(c, "done")
  /\ UNCHANGED <<patient, cint, server, msg, words, clientq, vars>>

ClientInterrupt(c) ==
  /\ cpc[c] \notin {"request", "done"}
  /\ patient => cpc[c] # "answer" /\ Settled(c)
  /\ cint' = [cint EXCEPT ![c] = TRUE]
  /\ UNCHANGED <<patient, cpc, server, msg, words, netVars, vars>>

-----------------------------------------------------------------------------
SysInit ==
  /\ Init /\ patient \in BOOLEAN
  /\ cpc = [c \in Client |-> "request"] /\ cint = [c \in Client |-> FALSE]
  /\ server = [c \in Client |-> MainPort] /\ msg = [c \in Client |-> "text"]
  /\ words = [c \in Client |-> 0]
  /\ mainq = <<>> /\ threadq = [t \in Thread |-> <<>>]
  /\ clientq = [c \in Client |-> <<>>]

ClientRuns(c) ==
  GetPort(c) \/ NoPortCame(c) \/ NoWord(c) \/ GetReply(c) \/ NoReply(c) \/ Bye(c)

SysNext ==
  \/ MainRuns \/ ServerInterrupt
  \/ \E t \in Thread : ThreadRuns(t)
  \/ \E c \in Client :
       \/ Request(c) \/ ClientRuns(c) \/ ClientInterrupt(c)
       \/ \E w \in {"text", "END"} : Word(c, w)

SysSpec == SysInit /\ [][SysNext]_sysVars

-----------------------------------------------------------------------------
(* Properties.                                                              *)

(* No two clients are sent to one thread, wherever tinfo[] moves and        *)
(* whoever is interrupted when, though their ENDs may be taken for requests.*)
OneClientPerThread ==
  \A c, d \in Client : c # d /\ server[c] # MainPort => server[c] # server[d]

Quiet ==
  /\ mpc = "recv" /\ mainq = <<>>
  /\ \A c \in Client : cpc[c] \in {"request", "done"}
  /\ \A t \in Thread : threadq[t] = <<>> /\ tpc[t] \in {"none", "recv", "done"}

(* When every client has gone every thread has ended that knew its port,    *)
(* however the client ended: by the answer to its END, or by a SIGINT in    *)
(* whatever wait of the session, which leaves answers unread.  Impatient    *)
(* users send END where nobody listens yet, and the thread stays.           *)
SessionEndsThread ==
  patient /\ Quiet => \A t \in Thread : tpc[t] \in {"none", "done"} \/ num[t] = NoPort

=============================================================================
