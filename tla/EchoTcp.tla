------------------------------- MODULE EchoTcp -------------------------------
(***************************************************************************)
(* ex18/p2: a server sends back what the one client it accepts sends it;   *)
(* the client sends a message every two seconds and never reads an echo.   *)
(*                                                                         *)
(* TCP: what is sent waits at the receiver, where there is Room for so     *)
(* many pieces of messages each way; a send with no room left waits.  Who  *)
(* ends with something unread resets the connection, and so does data for  *)
(* a process that has ended.  A reset shows as one error and then as the   *)
(* signal SIGPIPE, for which neither program has a handler.                *)
(***************************************************************************)
EXTENDS Integers

CONSTANTS
  Client,
  Watched, \* the clients that may be interrupted
  Server,  \* the process of the server
  MSGLEN,  \* pieces of a message
  Room,    \* pieces that fit in one direction of a connection
  NoClient

TcpAssumption ==
  /\ Watched \subseteq Client /\ Server \notin Client /\ NoClient \notin Client
  /\ MSGLEN \in Nat \ {0} /\ Room \in Nat \ {0}

VARIABLES
  spc, client, \* where the server and each client are
  cexit,       \* who has seen a SIGINT
  fd,          \* whose connection the server has accepted
  link,        \* the connection of each client
  up, down,    \* pieces on their way to the server and back
  left         \* pieces of its message each process has still to send

vars == <<spc, client, cexit, fd, link, up, down, left>>
streams == <<up, down, left>>

(* closed: by the client; reset, broken: the error to come, and told.  gone:
   by the server; dead: the client will be told.                            *)
Link == {"none", "up", "closed", "reset", "broken", "gone", "dead"}

(* What the server has in fd.                                               *)
Conn == IF fd = NoClient THEN "none" ELSE link[fd]

ServerGoes(where) == spc' = where
ClientGoes(c, where) == client' = [client EXCEPT ![c] = where]

TypeOK ==
  /\ spc \in {"off", "accept", "test", "recv", "check", "send", "done"}
  /\ client \in [Client -> {"off", "test", "send", "sleep", "done"}]
  /\ cexit \in [Client \cup {Server} -> BOOLEAN]
  /\ fd \in Client \cup {NoClient}
  /\ link \in [Client -> Link]
  /\ up \in [Client -> 0..Room] /\ down \in [Client -> 0..Room]
  /\ left \in [Client \cup {Server} -> 0..MSGLEN]

-----------------------------------------------------------------------------
(* The server.                                                              *)

(* The end of the process closes all connections, accepted or not.          *)
ServerEnds ==
  /\ ServerGoes("done")
  /\ link' = [c \in Client |->
       IF link[c] # "up" THEN link[c] ELSE IF c = fd /\ up[c] = 0 THEN "gone" ELSE "dead"]
  /\ UNCHANGED <<client, cexit, fd, streams>>

Listen ==
  /\ spc = "off"
  /\ ServerGoes("accept") \/ ServerGoes("done") \* the port may be taken
  /\ UNCHANGED <<client, cexit, fd, link, streams>>

Accept(c) ==
  /\ spc = "accept" /\ link[c] # "none"
  /\ fd' = c
  /\ ServerGoes("test")
  /\ UNCHANGED <<client, cexit, link, streams>>

(* The program goes on without a connection.                                *)
AcceptFails ==
  /\ spc = "accept"
  /\ ServerGoes("test")
  /\ UNCHANGED <<client, cexit, fd, link, streams>>

ServerTest ==
  /\ spc = "test"
  /\ \/ cexit[Server] /\ ServerEnds
     \/ ~cexit[Server] /\ ServerGoes("recv") /\ UNCHANGED <<client, cexit, fd, link, streams>>

(* What has come is read before an error or the end is told, and may be     *)
(* less than a message.                                                     *)
Recv ==
  /\ spc = "recv"
  /\ \/ /\ Conn # "none"
        /\ \E n \in 1..MSGLEN : n <= up[fd] /\ up' = [up EXCEPT ![fd] = @ - n]
        /\ UNCHANGED link
     \/ /\ Conn # "up" /\ (Conn # "none" => up[fd] = 0)
        /\ link' = [c \in Client |-> IF c = fd /\ Conn = "reset" THEN "broken" ELSE link[c]]
        /\ UNCHANGED up
  /\ ServerGoes("check")
  /\ UNCHANGED <<client, cexit, fd, down, left>>

ServerCheck ==
  /\ spc = "check"
  /\ \/ cexit[Server] /\ ServerEnds
     \/ /\ ~cexit[Server] /\ ServerGoes("send")
        /\ left' = [left EXCEPT ![Server] = MSGLEN]
        /\ UNCHANGED <<client, cexit, fd, link, up, down>>

(* A whole message, whatever was received.                                  *)
Send ==
  /\ spc = "send"
  /\ \/ /\ Conn = "none" /\ ServerGoes("test") /\ UNCHANGED <<link, down, left>>
     \/ /\ Conn = "up"
        /\ \E n \in 1..left[Server] :
             /\ down[fd] + n <= Room
             /\ down' = [down EXCEPT ![fd] = @ + n]
             /\ left' = [left EXCEPT ![Server] = @ - n]
             /\ ServerGoes(IF left[Server] = n THEN "test" ELSE "send")
        /\ UNCHANGED link
     \/ /\ Conn \in {"closed", "reset"}
        /\ link' = [link EXCEPT ![fd] = IF @ = "closed" THEN "reset" ELSE "broken"]
        /\ ServerGoes("test")
        /\ UNCHANGED <<down, left>>
  /\ UNCHANGED <<client, cexit, fd, up>>

(* Mutant: a send to nobody is an error like others, as with MSG_NOSIGNAL. *)
SigpipeServer_Ignored ==
  /\ spc = "send" /\ Conn = "broken"
  /\ ServerGoes("test")
  /\ UNCHANGED <<client, cexit, fd, link, streams>>

SigpipeServer ==
  /\ spc = "send" /\ Conn = "broken"
  /\ ServerEnds

-----------------------------------------------------------------------------
(* The client.                                                              *)

(* Echoes that nobody has read make of the close a reset.                   *)
ClientEnds(c) ==
  /\ ClientGoes(c, "done")
  /\ link' = [link EXCEPT ![c] =
       IF @ # "up" THEN @ ELSE IF down[c] > 0 THEN "reset" ELSE "closed"]
  /\ UNCHANGED <<spc, cexit, fd, streams>>

(* A refused connection is told to the user, and the client goes on.        *)
Connect(c) ==
  /\ client[c] = "off"
  /\ link' = [link EXCEPT ![c] = IF spc \in {"off", "done"} THEN "none" ELSE "up"]
  /\ ClientGoes(c, "test")
  /\ UNCHANGED <<spc, cexit, fd, streams>>

ClientTest(c) ==
  /\ client[c] = "test"
  /\ \/ cexit[c] /\ ClientEnds(c)
     \/ /\ ~cexit[c] /\ ClientGoes(c, "send")
        /\ left' = [left EXCEPT ![c] = MSGLEN]
        /\ UNCHANGED <<spc, cexit, fd, link, up, down>>

ClientSend(c) ==
  /\ client[c] = "send" /\ link[c] \in {"up", "gone"}
  /\ \/ /\ link[c] = "up"
        /\ \E n \in 1..left[c] :
             /\ up[c] + n <= Room
             /\ up' = [up EXCEPT ![c] = @ + n]
             /\ left' = [left EXCEPT ![c] = @ - n]
             /\ ClientGoes(c, IF left[c] = n THEN "sleep" ELSE "send")
        /\ UNCHANGED link
     \/ /\ link[c] = "gone"
        /\ link' = [link EXCEPT ![c] = "dead"]
        /\ ClientGoes(c, "sleep")
        /\ UNCHANGED <<up, left>>
  /\ UNCHANGED <<spc, cexit, fd, down>>

(* An error ends the client, by SIGPIPE or by its own hand; a send that has *)
(* given away a part has succeeded.                                         *)
SendFails(c) ==
  /\ client[c] = "send" /\ link[c] \in {"none", "dead"}
  /\ \/ left[c] = MSGLEN /\ ClientEnds(c)
     \/ left[c] < MSGLEN /\ ClientGoes(c, "sleep") /\ UNCHANGED <<spc, cexit, fd, link, streams>>

(* Mutant: the client takes what has come back meanwhile. *)
Sleep_Reads(c) ==
  /\ client[c] = "sleep"
  /\ ClientGoes(c, "test")
  /\ down' = [down EXCEPT ![c] = 0]
  /\ UNCHANGED <<spc, cexit, fd, link, up, left>>

Sleep(c) ==
  /\ client[c] = "sleep"
  /\ ClientGoes(c, "test")
  /\ UNCHANGED <<spc, cexit, fd, link, streams>>

-----------------------------------------------------------------------------
(* SIGINT is noted, and cuts short the call the process waits in, if it is  *)
(* in one already.                                                          *)
InterruptServer ==
  /\ spc \notin {"off", "done"}
  /\ cexit' = [cexit EXCEPT ![Server] = TRUE]
  /\ \/ UNCHANGED spc
     \/ spc \in {"accept", "send"} /\ ServerGoes("test")
     \/ spc = "recv" /\ ServerGoes("check")
  /\ UNCHANGED <<client, fd, link, streams>>

InterruptClient(c) ==
  /\ client[c] \notin {"off", "done"}
  /\ cexit' = [cexit EXCEPT ![c] = TRUE]
  /\ \/ UNCHANGED client
     \/ client[c] = "sleep" /\ ClientGoes(c, "test")
     \/ client[c] = "send" /\ left[c] < MSGLEN /\ ClientGoes(c, "sleep")
  /\ UNCHANGED <<spc, fd, link, streams>>

(* In a send that has given away nothing it is an error.                    *)
InterruptSend(c) ==
  /\ client[c] = "send" /\ left[c] = MSGLEN
  /\ ClientEnds(c)

Init ==
  /\ spc = "off" /\ client = [c \in Client |-> "off"]
  /\ cexit = [p \in Client \cup {Server} |-> FALSE]
  /\ fd = NoClient /\ link = [c \in Client |-> "none"]
  /\ up = [c \in Client |-> 0] /\ down = up
  /\ left = [p \in Client \cup {Server} |-> 0]

ServerRuns ==
  \/ \E c \in Client : Accept(c)
  \/ ServerTest \/ Recv \/ ServerCheck \/ Send \/ SigpipeServer

ClientRuns(c) == ClientTest(c) \/ ClientSend(c) \/ SendFails(c) \/ Sleep(c)

Next ==
  \/ Listen \/ AcceptFails \/ ServerRuns \/ InterruptServer
  \/ \E c \in Client :
       \/ Connect(c) \/ ClientRuns(c)
       \/ c \in Watched /\ (InterruptClient(c) \/ InterruptSend(c))

(* Processes that can go on do; nobody need start or interrupt one.         *)
Spec ==
  /\ Init /\ [][Next]_vars
  /\ WF_vars(ServerRuns) /\ \A c \in Client : WF_vars(ClientRuns(c))

-----------------------------------------------------------------------------
(* Properties.                                                              *)

(* No process is left alone: the end of the client ends the server that     *)
(* accepted it, and the end of the server ends every client, wherever the   *)
(* other one waits, though neither looks at the results of its calls: again *)
(* and again all those have ended.                                          *)
NeitherOutlives ==
  []<>(/\ \A c \in Client : fd = c /\ client[c] = "done" => spc = "done"
       /\ spc = "done" => \A c \in Client : client[c] \in {"off", "done"})

(* Since nobody reads the echoes, every talk that is not ended ends in the  *)
(* two waiting for each other, each to send, with both directions full.     *)
EndsOrStandsStill ==
  []<>(\A c \in Client : fd = c =>
         \/ spc = "done"
         \/ spc = "send" /\ down[c] = Room /\ client[c] = "send" /\ up[c] = Room)

=============================================================================
