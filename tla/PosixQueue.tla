----------------------------- MODULE PosixQueue ------------------------------
(***************************************************************************)
(* ex16/p1: a server makes the queue /message1, takes the word of a client *)
(* from it and answers through the same queue; the client takes the answer *)
(* from where it has just put its own word.                                *)
(*                                                                         *)
(* The queue of the kernel: a word goes straight to the process that has   *)
(* waited longest for one, or into the queue, which gives out what has the *)
(* highest priority first; a full queue makes the sender wait.  A queue    *)
(* lives on without its name as long as a process has it open.             *)
(***************************************************************************)
EXTENDS Integers, SequencesExt

CONSTANTS
  Server, Client, \* processes, each of which runs once
  NoQueue

Process == Server \cup Client
Queue   == Server   \* named by the server that made it
Priority(p) == IF p \in Client THEN 2 ELSE 1
maxmsg == 2

QueueAssumption ==
  /\ IsFiniteSet(Server) /\ IsFiniteSet(Client) /\ Server \cap Client = {}
  /\ NoQueue \notin Process

VARIABLES
  pc,      \* where each process is
  queue,   \* the queue it has open
  got,     \* the words it has taken, each the name of who sent it
  name,    \* the queue that /message1 names
  held,    \* what is in each queue, in the order it is given out
  waiting, \* who waits for a word, the first to come first
  oneByOne \* whether a talk ends before the next process is started

vars == <<pc, queue, got, name, held, waiting, oneByOne>>

Goes(p, where) == pc' = [pc EXCEPT ![p] = where]

-----------------------------------------------------------------------------
(* The queue.                                                               *)

(* p comes after what is as urgent and before what is less.                 *)
Inserted(q, p) ==
  InsertAt(q, 1 + Cardinality({i \in DOMAIN q : Priority(q[i]) >= Priority(p)}), p)

(* Mutant: the server keeps its answer to itself. *)
AfterReceive_Mute(p) == IF p \in Server THEN "unlink" ELSE "done"

(* Where a process goes once it has a word.                                 *)
AfterReceive(p) == IF p \in Server THEN "send" ELSE "done"

mq_send(p, where) ==
  LET q == queue[p] IN
  \/ /\ waiting[q] # <<>>
     /\ got' = [got EXCEPT ![Head(waiting[q])] = p]
     /\ waiting' = [waiting EXCEPT ![q] = Tail(@)]
     /\ pc' = [pc EXCEPT ![p] = where,
                         ![Head(waiting[q])] = AfterReceive(Head(waiting[q]))]
     /\ UNCHANGED held
  \/ /\ waiting[q] = <<>> /\ Len(held[q]) < maxmsg
     /\ held' = [held EXCEPT ![q] = Inserted(@, p)]
     /\ Goes(p, where)
     /\ UNCHANGED <<got, waiting>>

mq_receive(p) ==
  LET q == queue[p] IN
  \/ /\ held[q] # <<>>
     /\ got' = [got EXCEPT ![p] = Head(held[q])]
     /\ held' = [held EXCEPT ![q] = Tail(@)]
     /\ Goes(p, AfterReceive(p))
     /\ UNCHANGED waiting
  \/ /\ held[q] = <<>>
     /\ waiting' = [waiting EXCEPT ![q] = Append(@, p)]
     /\ Goes(p, "wait")
     /\ UNCHANGED <<got, held>>

-----------------------------------------------------------------------------
(* The processes.                                                           *)

(* The user starts a server when nothing runs, and a client when a server   *)
(* waits for it; or both whenever they like.                                *)
MayStart(p) ==
  oneByOne =>
    /\ \A r \in Process \ {p} :
         pc[r] \in {"off", "done"} \/ (p \in Client /\ r \in Server /\ pc[r] = "wait")
    /\ p \in Client => \E r \in Server : pc[r] = "wait"

(* A queue that has the name is taken as it is.                             *)
OpenServer(s) ==
  /\ pc[s] = "off" /\ MayStart(s)
  /\ name' = IF name = NoQueue THEN s ELSE name
  /\ queue' = [queue EXCEPT ![s] = name']
  /\ Goes(s, "receive")
  /\ UNCHANGED <<got, held, waiting, oneByOne>>

OpenClient(c) ==
  /\ pc[c] = "off" /\ MayStart(c)
  /\ queue' = [queue EXCEPT ![c] = name]
  /\ Goes(c, IF name = NoQueue THEN "done" ELSE "send")
  /\ UNCHANGED <<got, name, held, waiting, oneByOne>>

(* Mutant: the server goes on to the next word. *)
AfterSend_Again(p) == "receive"

(* Where a process goes once its word is sent.                              *)
AfterSend(p) == IF p \in Server THEN "unlink" ELSE "receive"

Send(p) ==
  /\ pc[p] = "send"
  /\ mq_send(p, AfterSend(p))
  /\ UNCHANGED <<queue, name, oneByOne>>

Receive(p) ==
  /\ pc[p] = "receive"
  /\ mq_receive(p)
  /\ UNCHANGED <<queue, name, oneByOne>>

(* The name goes, whatever queue it names by now.                           *)
Unlink(s) ==
  /\ pc[s] = "unlink"
  /\ name' = NoQueue
  /\ Goes(s, "done")
  /\ UNCHANGED <<queue, got, held, waiting, oneByOne>>

Init ==
  /\ pc = [p \in Process |-> "off"]
  /\ queue = [p \in Process |-> NoQueue] /\ got = queue
  /\ name = NoQueue
  /\ held = [q \in Queue |-> <<>>] /\ waiting = held
  /\ oneByOne \in BOOLEAN

Runs(p) == Send(p) \/ Receive(p) \/ (p \in Server /\ Unlink(p))

Next ==
  \/ \E p \in Process : Runs(p)
  \/ \E s \in Server : OpenServer(s)
  \/ \E c \in Client : OpenClient(c)

(* A process that is not made to wait runs; nobody need start one.          *)
Spec == Init /\ [][Next]_vars /\ \A p \in Process : WF_vars(Runs(p))

-----------------------------------------------------------------------------
(* Properties.                                                              *)

(* Although both read from the queue they write to, in talks one by one     *)
(* the server hears a client and the client hears the server.               *)
OthersHeard ==
  oneByOne =>
    /\ \A s \in Server : got[s] \in Client \cup {NoQueue}
    /\ \A c \in Client : got[c] \in Server \cup {NoQueue}

(* On each queue the words in it and the servers that owe one make up for   *)
(* the clients that have given theirs and taken none.                       *)
WordsBalanced ==
  \A q \in Queue :
    Len(held[q]) + Cardinality({s \in Server : queue[s] = q /\ pc[s] = "send"})
      = Cardinality({c \in Client : queue[c] = q /\ pc[c] \in {"receive", "wait"}})

(* So every client that finds a queue takes a word from it, though it may   *)
(* be its own, and again and again all have: however many are started       *)
(* whenever, on a queue that is full or has lost its name, and although     *)
(* servers that nobody talks to stand before them in line.                  *)
ClientAnswered == []<>(\A c \in Client : queue[c] # NoQueue => got[c] # NoQueue)

=============================================================================
