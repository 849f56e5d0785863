----------------------------- MODULE PoolClient -----------------------------
(***************************************************************************)
(* The clients of ex19/p2/client.c, each a process of its own.             *)
(*                                                                         *)
(* A client asks the main server for a port, sends the answer back to that *)
(* port as a greeting, and then sends one word at a time and waits for one *)
(* datagram after each, until it is answered END or interrupted.  One      *)
(* buffer, msg, serves for the answer, the greeting, the words typed and   *)
(* the replies, and one address, server, is both where datagrams go and    *)
(* where recvfrom writes the sender of the last one.                       *)
(*                                                                         *)
(* The actions that send or receive take the datagram as a parameter: the  *)
(* module that composes the system carries it.                             *)
(***************************************************************************)
EXTENDS Integers

CONSTANTS
  Client,    \* the client processes
  Port,      \* the port indices an answer can name
  MainPort,  \* the well-known port
  MaxWords,  \* bound: words a client reads from its standard input
  InputEnds, \* whether the standard input may be at its end
  Interrupts \* whether the clients are sent SIGINT

VARIABLES
  cpc,     \* where each client is
  msg,     \* what its buffer holds: the kind of the last datagram in or
           \* out: zero, hello, text, END or ok
  server,  \* where its next datagram goes
  cexit,   \* its SIGINT flag
  words    \* words it has read so far

vars == <<cpc, msg, server, cexit, words>>

(* Where a client is.                                                       *)
(* request, answer: the first sendto and recvfrom; greet: the sendto of the *)
(* answer; input: scanf; sent: past the sendto of a word; reply: recvfrom;  *)
(* compare: the test for END and of the loop; bye: the sendto of END.       *)
At(c, from, to) == cpc[c] = from /\ cpc' = [cpc EXCEPT ![c] = to]

(* The test of the while loop. *)
LoopTest(c) == IF cexit[c] THEN "bye" ELSE "input"

Init ==
  /\ cpc    = [c \in Client |-> "request"]
  /\ msg    = [c \in Client |-> "zero"]
  /\ server = [c \in Client |-> MainPort]
  /\ cexit  = [c \in Client |-> FALSE]
  /\ words  = [c \in Client |-> 0]

(* The empty datagram that asks for a port.                                 *)
Request(c) ==
  /\ At(c, "request", "answer")
  /\ UNCHANGED <<msg, server, cexit, words>>

(* Mutant: the port of the answer is not taken over. *)
Answer_StayMain(c, k) ==
  /\ At(c, "answer", "greet")
  /\ msg' = [msg EXCEPT ![c] = "hello"]
  /\ UNCHANGED <<server, cexit, words>>

(* The answer names port k.                                                 *)
Answer(c, k) ==
  /\ At(c, "answer", "greet")
  /\ msg' = [msg EXCEPT ![c] = "hello"]
  /\ server' = [server EXCEPT ![c] = k]
  /\ UNCHANGED <<cexit, words>>

(* What msg holds goes to server: the answer, or the empty request once     *)
(* more if there was none.                                                  *)
Greet(c) ==
  /\ At(c, "greet", LoopTest(c))
  /\ UNCHANGED <<msg, server, cexit, words>>

(* scanf reads the word w, and sendto sends it.                             *)
Word(c, w) ==
  /\ words[c] < MaxWords
  /\ At(c, "input", "sent")
  /\ msg' = [msg EXCEPT ![c] = w]
  /\ words' = [words EXCEPT ![c] = @ + 1]
  /\ UNCHANGED <<server, cexit>>

(* scanf fails at the end of the input: nothing is sent.  (The clients that *)
(* client_gen.sh starts in the background read /dev/null.)                  *)
Eof(c) ==
  /\ InputEnds
  /\ At(c, "input", "sent")
  /\ UNCHANGED <<msg, server, cexit, words>>

(* Past the sendto; recvfrom only if SIGINT has not come.                   *)
Sent(c) ==
  /\ At(c, "sent", IF cexit[c] THEN "compare" ELSE "reply")
  /\ UNCHANGED <<msg, server, cexit, words>>

(* recvfrom returns a datagram of kind w sent from port p.                  *)
Reply(c, w, p) ==
  /\ At(c, "reply", "compare")
  /\ msg' = [msg EXCEPT ![c] = w]
  /\ server' = [server EXCEPT ![c] = p]
  /\ UNCHANGED <<cexit, words>>

Compare(c) ==
  /\ At(c, "compare", IF msg[c] = "END" THEN "done" ELSE LoopTest(c))
  /\ UNCHANGED <<msg, server, cexit, words>>

(* After SIGINT: END goes to server, and the client is gone.                *)
Bye(c) ==
  /\ At(c, "bye", "done")
  /\ msg' = [msg EXCEPT ![c] = "END"]
  /\ UNCHANGED <<server, cexit, words>>

(* SIGINT: hdl, and, if a call is blocking, its failure with EINTR.  A      *)
(* signal that comes just before the call does not end it.                  *)
Interrupt(c) ==
  /\ Interrupts
  /\ cpc[c] \notin {"request", "done"} /\ ~cexit[c]
  /\ cexit' = [cexit EXCEPT ![c] = TRUE]
  /\ \/ UNCHANGED cpc
     \/ At(c, "answer", "greet")
     \/ At(c, "input", "sent")
     \/ At(c, "reply", "compare")
  /\ UNCHANGED <<msg, server, words>>

=============================================================================
