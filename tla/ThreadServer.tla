---------------------------- MODULE ThreadServer ----------------------------
(***************************************************************************)
(* The server of ex19/p1: every datagram to its socket is a request, for   *)
(* which main creates a thread and answers with the port the thread is to  *)
(* listen on, 7777 and up.                                                 *)
(*                                                                         *)
(* Thread t serves the t-th request; its port is the number t-1 here.  It  *)
(* finds its number through a pointer into tinfo[], and realloc() may move *)
(* tinfo[] before it has looked: then it reads freed memory, where the     *)
(* number may still be or may not.                                         *)
(***************************************************************************)
EXTENDS Integers

CONSTANTS
  Client,
  MaxThreads, \* bound: requests served
  Foreign,    \* ports another process has bound
  NoPort      \* no port, or one nobody was told

Thread == 1 .. MaxThreads
Port   == 0 .. MaxThreads - 1

ASSUME ServerAssumption ==
  /\ MaxThreads \in Nat \ {0} /\ Foreign \subseteq Port
  /\ NoPort \notin Port

VARIABLES
  mpc, cexit, \* main: where it is; its flag, set by SIGINT
  tnum,       \* requests so far
  client,     \* whom main is answering
  tpc,        \* where each thread is
  stale,      \* whether a thread's pointer leads into freed memory
  num,        \* the port a thread has read
  sock,       \* the port it is bound to
  cur         \* the datagram it is answering

vars == <<mpc, cexit, tnum, client, tpc, stale, num, sock, cur>>

Datagram == [from : Client, kind : {"text", "END"}]

-----------------------------------------------------------------------------
(* main.                                                                    *)

(* cexit is tested before the wait, and an interrupted wait fails.          *)
MainStops ==
  /\ mpc = "recv" /\ cexit
  /\ mpc' = "done"
  /\ UNCHANGED <<cexit, tnum, client, tpc, stale, num, sock, cur>>

(* A request of c: one more element of tinfo[].                             *)
MainReceive(c) ==
  /\ mpc = "recv" /\ tnum < MaxThreads
  /\ client' = c
  /\ tnum' = tnum + 1
  /\ \E moved \in BOOLEAN :
       stale' = [t \in Thread |-> stale[t] \/ (moved /\ tpc[t] = "start")]
  /\ mpc' = "create"
  /\ UNCHANGED <<cexit, tpc, num, sock, cur>>

MainCreate ==
  /\ mpc = "create"
  /\ tpc' = [tpc EXCEPT ![tnum] = "start"]
  /\ mpc' = IF cexit THEN "done" ELSE "send"
  /\ UNCHANGED <<cexit, tnum, client, stale, num, sock, cur>>

(* Mutant: always the first port. *)
Told_First == 0

(* The port the client is told.                                             *)
Told == tnum - 1

MainSend ==
  /\ mpc = "send"
  /\ mpc' = "recv"
  /\ UNCHANGED <<cexit, tnum, client, tpc, stale, num, sock, cur>>

Interrupt ==
  /\ mpc # "done"
  /\ cexit' = TRUE
  /\ UNCHANGED <<mpc, tnum, client, tpc, stale, num, sock, cur>>

-----------------------------------------------------------------------------
(* A thread.  It ends with the process, when main returns.                  *)

Lives(t) == mpc # "done" /\ tpc[t] \notin {"none", "done"}

ReadNumber(t) ==
  /\ Lives(t) /\ tpc[t] = "start"
  /\ \E n \in {t - 1} \cup (IF stale[t] THEN {NoPort} ELSE {}) :
       num' = [num EXCEPT ![t] = n]
  /\ tpc' = [tpc EXCEPT ![t] = "bind"]
  /\ UNCHANGED <<mpc, cexit, tnum, client, stale, sock, cur>>

Bound(p) == p \in Foreign \/ \E t \in Thread : tpc[t] # "done" /\ sock[t] = p

Bind(t) ==
  /\ Lives(t) /\ tpc[t] = "bind"
  /\ \/ /\ num[t] = NoPort \/ ~Bound(num[t])
        /\ sock' = [sock EXCEPT ![t] = num[t]]
        /\ tpc' = [tpc EXCEPT ![t] = "recv"]
     \/ /\ num[t] = NoPort \/ Bound(num[t])
        /\ tpc' = [tpc EXCEPT ![t] = "done"]
        /\ UNCHANGED sock
  /\ UNCHANGED <<mpc, cexit, tnum, client, stale, num, cur>>

Receive(t, m) ==
  /\ Lives(t) /\ tpc[t] = "recv"
  /\ cur' = [cur EXCEPT ![t] = m]
  /\ tpc' = [tpc EXCEPT ![t] = "reply"]
  /\ UNCHANGED <<mpc, cexit, tnum, client, stale, num, sock>>

(* What the thread answers.                                                 *)
Answer(t) == IF cur[t].kind = "END" THEN "END" ELSE "ok"

(* END is answered and ends the thread; anything else is answered ok.       *)
Reply(t) ==
  /\ Lives(t) /\ tpc[t] = "reply"
  /\ \/ Answer(t) = "END" /\ tpc' = [tpc EXCEPT ![t] = "done"]
                          /\ sock' = [sock EXCEPT ![t] = NoPort]
     \/ Answer(t) # "END" /\ tpc' = [tpc EXCEPT ![t] = "recv"] /\ UNCHANGED sock
  /\ UNCHANGED <<mpc, cexit, tnum, client, stale, num, cur>>

-----------------------------------------------------------------------------
Init ==
  /\ mpc = "recv" /\ cexit = FALSE /\ tnum = 0
  /\ client \in Client
  /\ tpc = [t \in Thread |-> "none"] /\ stale = [t \in Thread |-> FALSE]
  /\ num = [t \in Thread |-> NoPort] /\ sock = [t \in Thread |-> NoPort]
  /\ cur \in [Thread -> {[from |-> client, kind |-> "text"]}]

=============================================================================
