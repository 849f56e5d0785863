------------------------------- MODULE EchoUdp -------------------------------
(***************************************************************************)
(* ex18/p1, for IPv4 and IPv6 alike: a server sends every datagram back to *)
(* where it came from; clients send one every two seconds and never read.  *)
(***************************************************************************)
EXTENDS Integers

CONSTANTS
  Client,
  MaxSent, \* datagrams a client sends
  NoClient

UdpAssumption == NoClient \notin Client /\ MaxSent \in Nat

VARIABLES
  pc,      \* where the server is
  stop,    \* its cexit
  from,    \* client, the address recvfrom() has left
  sender,  \* where each client is
  sent,    \* datagrams each client has sent
  queued,  \* those that wait at the socket of the server
  echoes   \* datagrams the server has sent to each client

vars == <<pc, stop, from, sender, sent, queued, echoes>>
clientVars == <<sender, sent>>

TypeOK ==
  /\ pc \in {"off", "test", "recv", "check", "send", "done"}
  /\ stop \in BOOLEAN /\ from \in Client \cup {NoClient}
  /\ sender \in [Client -> {"on", "done"}]
  /\ sent \in [Client -> 0..MaxSent] /\ queued \in [Client -> 0..MaxSent]
  /\ echoes \in [Client -> Nat]

-----------------------------------------------------------------------------
Goes(where) == pc' = where

Bind ==
  /\ pc = "off"
  /\ Goes("test") \/ Goes("done")
  /\ UNCHANGED <<stop, from, clientVars, queued, echoes>>

Test ==
  /\ pc = "test"
  /\ Goes(IF stop THEN "done" ELSE "recv")
  /\ UNCHANGED <<stop, from, clientVars, queued, echoes>>

Receive(c) ==
  /\ pc = "recv" /\ queued[c] > 0
  /\ queued' = [queued EXCEPT ![c] = @ - 1]
  /\ from' = c
  /\ Goes("check")
  /\ UNCHANGED <<stop, clientVars, echoes>>

(* Mutant: cexit is tested before recvfrom() only. *)
Check_Not ==
  /\ pc = "check"
  /\ Goes("send")
  /\ UNCHANGED <<stop, from, clientVars, queued, echoes>>

(* After an interrupted recvfrom() as after one that has read.              *)
Check ==
  /\ pc = "check"
  /\ Goes(IF stop THEN "done" ELSE "send")
  /\ UNCHANGED <<stop, from, clientVars, queued, echoes>>

Send ==
  /\ pc = "send"
  /\ echoes' = [c \in Client |-> IF c = from THEN echoes[c] + 1 ELSE echoes[c]]
  /\ Goes("test")
  /\ UNCHANGED <<stop, from, clientVars, queued>>

(* Seen at once only if the server waits already.                           *)
Interrupt ==
  /\ pc \notin {"off", "done"}
  /\ stop' = TRUE
  /\ UNCHANGED pc \/ (pc = "recv" /\ Goes("check"))
  /\ UNCHANGED <<from, clientVars, queued, echoes>>

(* What is sent arrives, if there is a server, or is lost.                  *)
ClientSends(c) ==
  /\ sender[c] = "on" /\ sent[c] < MaxSent
  /\ sent' = [sent EXCEPT ![c] = @ + 1]
  /\ \/ pc \notin {"off", "done"} /\ queued' = [queued EXCEPT ![c] = @ + 1]
     \/ UNCHANGED queued
  /\ UNCHANGED <<pc, stop, from, sender, echoes>>

(* By SIGINT, or an error of sendto().                                      *)
ClientEnds(c) ==
  /\ sender[c] = "on"
  /\ sender' = [sender EXCEPT ![c] = "done"]
  /\ UNCHANGED <<pc, stop, from, sent, queued, echoes>>

Init ==
  /\ pc = "off" /\ stop = FALSE /\ from = NoClient
  /\ sender = [c \in Client |-> "on"]
  /\ sent = [c \in Client |-> 0] /\ queued = sent /\ echoes = sent

Next ==
  \/ Bind \/ Test \/ Check \/ Send \/ Interrupt
  \/ \E c \in Client : Receive(c) \/ ClientSends(c) \/ ClientEnds(c)

Spec == Init /\ [][Next]_vars

-----------------------------------------------------------------------------
(* Properties.                                                              *)

(* The address and the message of the last datagram stay where they are,    *)
(* yet no SIGINT makes the server send one back again: together with what   *)
(* waits and what is in hand a client has never more echoes than it sent.   *)
NoSecondEcho ==
  \A c \in Client :
    echoes[c] + queued[c] + (IF pc = "send" /\ from = c THEN 1 ELSE 0) <= sent[c]

=============================================================================
