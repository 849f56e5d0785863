----------------------------- MODULE PoolSystem -----------------------------
(***************************************************************************)
(* The server pool of ex19/p2 closed with its clients: PoolServer and      *)
(* PoolClient joined by the datagrams between them.                        *)
(*                                                                         *)
(* Each bound socket has a receive queue; a datagram to a port nobody has  *)
(* bound is lost, as is what a socket still holds when it is closed, and   *)
(* with Lossy any datagram may be.  The server is neither interrupted nor  *)
(* failing here (PoolServer covers that); its clients may be interrupted.  *)
(*                                                                         *)
(* Every step is a step of PoolServer or leaves its variables alone, so    *)
(* what holds of PoolServer holds of this system.                          *)
(***************************************************************************)
EXTENDS PoolServer, Sequences

CONSTANTS
  MaxWords,  \* bound: words a client types
  Typists,   \* bound: groups of clients; those of one of them type
  InputEnds, \* whether a client's input may be at its end
  Interrupts, \* whether the clients are sent SIGINT
  PoolFirst, \* whether clients start only when the pool threads are waiting
  InTurn,    \* whether they start in the order of their names, which are numbers:
             \* they are all alike, so that only names are fixed by it
  Lossy      \* whether datagrams may be lost on the way

VARIABLES
  cpc, msg, server, cint, words,  \* the clients: see PoolClient
  mainq,                          \* received by the main socket, not yet read
  threadq,                        \* the same for each thread's socket
  clientq                         \* and for each client's socket

MainPort == -3

C == INSTANCE PoolClient WITH Port <- Slot, cexit <- cint

clientVars == <<cpc, msg, server, cint, words>>
netVars    == <<mainq, threadq, clientq>>
sysVars    == <<vars, clientVars, netVars>>

-----------------------------------------------------------------------------
(* Sockets.                                                                 *)

(* A client's datagram of kind k goes where its server variable says.       *)
SendToServer(c, k) ==
  LET p == server[c]
      m == [from |-> c, kind |-> k, port |-> IF k = "hello" THEN p ELSE NoSock]
  IN \/ /\ p = MainPort
        /\ mainq' = Append(mainq, m)
        /\ UNCHANGED threadq
     \/ /\ p # MainPort
        /\ threadq' = [t \in Thread |->
                        IF sock[t] = p THEN Append(threadq[t], m) ELSE threadq[t]]
        /\ UNCHANGED mainq
     \/ Lossy /\ UNCHANGED <<mainq, threadq>>

(* A datagram of the server to c; a client that is gone has no socket.      *)
SendToClient(c, m) ==
  \/ clientq' = IF cpc[c] = "done" THEN clientq
                ELSE [clientq EXCEPT ![c] = Append(@, m)]
  \/ Lossy /\ UNCHANGED clientq

-----------------------------------------------------------------------------
(* The server: the actions of PoolServer, with what they send and receive.  *)

MainLocal ==
  /\ CreatePool \/ MainCount \/ MainScan \/ MainCreate \/ MainSpin
  /\ UNCHANGED <<clientVars, netVars>>

ThreadLocal(t) ==
  /\ Register(t) \/ Bind(t) \/ MarkReady(t) \/ Accept(t) \/ Reject(t) \/ Unflag(t)
  /\ UNCHANGED <<clientVars, netVars>>

MainGets ==
  /\ mainq # <<>>
  /\ MainReceive(Head(mainq).from)
  /\ mainq' = Tail(mainq)
  /\ UNCHANGED <<clientVars, threadq, clientq>>

MainAnswers ==
  /\ MainSend
  /\ SendToClient(client, [kind |-> "port", port |-> reply, source |-> MainPort])
  /\ UNCHANGED <<clientVars, mainq, threadq>>

ThreadGets(t) ==
  /\ threadq[t] # <<>>
  /\ Receive(t, Head(threadq[t]))
  /\ threadq' = [threadq EXCEPT ![t] = Tail(@)]
  /\ UNCHANGED <<clientVars, mainq, clientq>>

ThreadReplies(t) ==
  /\ \E k \in {"ok", "END"} :
       /\ IF k = "ok" THEN ReplyOk(t) ELSE ReplyEnd(t)
       /\ SendToClient(cur[t].from, [kind |-> k, port |-> NoSock, source |-> sock[t]])
  /\ UNCHANGED <<clientVars, mainq, threadq>>

(* What a closed socket still held is gone.                                 *)
ThreadFrees(t) ==
  /\ EndFree(t) \/ Clear(t)
  /\ threadq' = [threadq EXCEPT ![t] = IF sock'[t] = NoSock THEN <<>> ELSE @]
  /\ UNCHANGED <<clientVars, mainq, clientq>>

-----------------------------------------------------------------------------
(* The clients: the actions of PoolClient, likewise.                        *)

ClientStarts(c) ==
  /\ PoolFirst => \A t \in PoolThread : sock[t] # NoSock
  /\ InTurn => \A d \in Client : d < c => cpc[d] # "request"
  /\ C!Request(c) /\ SendToServer(c, "zero")
  /\ UNCHANGED <<vars, clientq>>

ClientGreets(c) ==
  /\ C!Greet(c) /\ SendToServer(c, msg[c])
  /\ UNCHANGED <<vars, clientq>>

ClientTypes(c) ==
  /\ \E g \in Typists : {c} \cup {d \in Client : words[d] > 0} \subseteq g
  /\ \E w \in {"text", "END"} : C!Word(c, w) /\ SendToServer(c, w)
  /\ UNCHANGED <<vars, clientq>>

ClientGets(c) ==
  /\ clientq[c] # <<>>
  /\ LET m == Head(clientq[c]) IN
       IF m.kind = "port" THEN C!Answer(c, m.port) ELSE C!Reply(c, m.kind, m.source)
  /\ clientq' = [clientq EXCEPT ![c] = Tail(@)]
  /\ UNCHANGED <<vars, mainq, threadq>>

(* The last datagram; the socket is closed.                                 *)
ClientEnds(c) ==
  /\ C!Bye(c) /\ SendToServer(c, "END")
  /\ clientq' = [clientq EXCEPT ![c] = <<>>]
  /\ UNCHANGED vars

ClientLocal(c) ==
  /\ C!Sent(c) \/ C!Compare(c)
  /\ clientq' = [clientq EXCEPT ![c] = IF cpc'[c] = "done" THEN <<>> ELSE @]
  /\ UNCHANGED <<vars, mainq, threadq>>

ClientInput(c) ==
  /\ C!Eof(c) \/ C!Interrupt(c)
  /\ UNCHANGED <<vars, netVars>>

-----------------------------------------------------------------------------
SysInit ==
  /\ Init
  /\ C!Init
  /\ mainq = <<>>
  /\ threadq = [t \in Thread |-> <<>>]
  /\ clientq = [c \in Client |-> <<>>]

(* What goes on by itself: the programs run, and datagrams are received.    *)
MainRuns == MainLocal \/ MainGets \/ MainAnswers

ThreadRuns(t) == ThreadLocal(t) \/ ThreadGets(t) \/ ThreadReplies(t) \/ ThreadFrees(t)

ClientRuns(c) == ClientGreets(c) \/ ClientGets(c) \/ ClientEnds(c) \/ ClientLocal(c)

SysNext ==
  \/ MainRuns
  \/ \E t \in Thread : ThreadRuns(t)
  \/ \E c \in Client :
       ClientRuns(c) \/ ClientStarts(c) \/ ClientTypes(c) \/ ClientInput(c)

SysSafeSpec == SysInit /\ [][SysNext]_sysVars

(* Every thread and process runs; nobody need start a client, or type.      *)
(* (A word is typed in the end, for otherwise a client is idle by choice.)  *)
SysSpec ==
  /\ SysSafeSpec
  /\ WF_sysVars(MainRuns)
  /\ \A t \in Thread : WF_sysVars(ThreadRuns(t))
  /\ \A c \in Client : WF_sysVars(ClientRuns(c))

-----------------------------------------------------------------------------
(* Properties.                                                              *)

(* What the main server reads is a request to it, whatever the sender meant, *)
(* and a request may cost a thread.  Although recvfrom rewrites the address *)
(* a client sends to, only two kinds of datagram come to the main port: the *)
(* one request of a client that waits for its answer, and what a client     *)
(* sends that SIGINT has kept from being told a port: its request, the 24   *)
(* zeros of its greeting and its END.  No session that was given a port     *)
(* strays there.                                                            *)
StraysAreInterrupted ==
  \A i \in DOMAIN mainq : LET c == mainq[i].from IN
    \/ /\ mainq[i].kind = "zero" /\ cpc[c] = "answer"
       /\ \A k \in DOMAIN mainq : mainq[k].from = c => k = i
    \/ /\ mainq[i].kind \in {"zero", "END"}
       /\ cint[c] /\ cpc[c] \notin {"request", "answer"} /\ server[c] = MainPort

(* Before the first dynamic thread ends, no two clients are sent to the     *)
(* same dynamic thread, although the number of the port is taken from the   *)
(* table before the thread it is meant for has run.  This rests on memory   *)
(* that is zero: a ready bit that is set from the start sends the main      *)
(* thread on before the port is flagged, and it may give it away once more. *)
DynamicPortExclusive ==
  FirstGeneration /\ FreshMemory =>
    \A c, d \in Client : c # d /\ server[c] >= MINTHREAD => server[c] # server[d]

(* Nobody is doing anything any more: every client that was started has     *)
(* gone, every datagram has been read, and the server waits.                *)
Quiet ==
  /\ \A c \in Client : cpc[c] \in {"request", "done"}
  /\ mainq = <<>> /\ \A t \in Thread : threadq[t] = <<>>
  /\ mpc = "recv" /\ \A t \in Thread : tpc[t] \in {"none", "recv", "done"}

(* When all is quiet the whole pool is free, however the sessions of the    *)
(* clients overlapped, whichever of them shared a thread, and whether they  *)
(* were interrupted or answered END.                                        *)
QuietPoolFree == Quiet => FreePool = PoolSlot

(* README:24-25: on SIGINT a client sends END and ends together with the    *)
(* thread that serves it, unless that is one of the pool.                   *)
DynamicEndsWithClient ==
  Quiet => \A t \in Thread \ PoolThread : tpc[t] \in {"none", "done"}

(* The sessions that are on do not share a port.                            *)
NoneShared ==
  \A c, d \in Client :
    c # d /\ cpc[c] # "done" /\ cpc[d] # "done" /\ server[c] # MainPort
      => server[c] # server[d]

(* The main thread has counted MAXCLIENT threads: it goes back to recvfrom  *)
(* without an answer to c.                                                  *)
TurnedAway(c) ==
  mpc = "count" /\ client = c /\ count_threads >= MAXCLIENT

(* The entry c is to be given already has its ready bit, from an earlier    *)
(* thread with that port (nothing ever clears it) or from the memory: c may *)
(* be answered before its thread has bound the port, and greet nobody.      *)
SentTooSoon(c) ==
  mpc = "create" /\ client = c /\ ready_thread[j]

(* A client that is in recvfrom. *)
Waits(c) == cpc[c] \in {"answer", "reply"}

(* No client that keeps to itself waits for ever, but for three faults of   *)
(* the server.  If no two sessions share a port, no request meets the limit *)
(* of server.c:500 (it is not answered) and none is sent to its port too    *)
(* soon, then in the end no client is left waiting: each request has been   *)
(* answered and each word has a reply, although a client reads the reply to *)
(* what it sent before, except while the main thread stays in its busy wait *)
(* for ever (MainKeepsServing) and the requests behind it with it.          *)
(* (Words are bounded, so that a wait that ends leads to a last one.)       *)
ServedUnlessShared ==
  []NoneShared /\ [](\A c \in Client : ~(TurnedAway(c) \/ SentTooSoon(c)))
    => <>[](\A c \in Client : Waits(c) => cpc[c] = "answer" /\ mpc = "spin")

=============================================================================
