-------------------------- MODULE PoolSystemProofs --------------------------
(***************************************************************************)
(* The server pool with its clients: three of its safety properties, and   *)
(* that it implements PoolServer, for every number of clients, threads and *)
(* words.                                                                  *)
(*                                                                         *)
(* - SysInv says what may be in each queue and where each client sends.    *)
(* - A client holds a port when it sends to it, when a datagram on its way *)
(*   would make it send there, and when a thread with that port has one of *)
(*   its datagrams to answer.  Of the ports past the pool each is held by  *)
(*   at most one client, has its flag set, and is not the one the main     *)
(*   thread is about to hand out (Exclusive).  The flag of such a port is  *)
(*   cleared only when its thread ends, which is why this is so up to the  *)
(*   first such end; and the memory of ports[] must have been zero, or the *)
(*   main thread does not wait for the new thread.                         *)
(* - A thread of the pool that is busy, or has a greeting to read, has an  *)
(*   END behind it in its queue, or else there is a client that uses this  *)
(*   port and has still to send one (EndIsDue).  When all is quiet there   *)
(*   is neither, so that no thread of the pool is busy.  A lost END would  *)
(*   break this: the theorem is about a network that loses nothing.        *)
(* - A client's request is in one place: at the main socket, in the hands  *)
(*   of the main thread, or answered (AskedOnce).  So a client that is told *)
(*   its port leaves nothing behind at the main socket, and only one that  *)
(*   was interrupted before goes on sending there.                         *)
(***************************************************************************)
EXTENDS PoolSystem, PoolServerProofs, SequenceTheorems

-----------------------------------------------------------------------------
(* What is sent to whom.                                                    *)

CPC == {"request", "answer", "greet", "input", "sent", "reply", "compare", "bye", "done"}

(* What is sent to the main socket, and to a client.                        *)
Asking ==
  [from : Client, kind : {"zero", "END"}, port : {NoSock}]

Answering ==
  [kind : {"port"}, port : Slot, source : {MainPort}] \cup
  [kind : {"ok", "END"}, port : {NoSock}, source : Slot \cup {NoSock, Elsewhere}]

SysTypeOK ==
  /\ cpc \in [Client -> CPC]
  /\ msg \in [Client -> {"zero", "hello", "text", "END", "ok"}]
  /\ server \in [Client -> Slot \cup {NoSock, Elsewhere, MainPort}]
  /\ cint \in [Client -> BOOLEAN]
  /\ mainq \in Seq(Asking)
  /\ threadq \in [Thread -> Seq(Datagram)]
  /\ clientq \in [Client -> Seq(Answering)]

(* Where a client's next datagram goes, at each point.                      *)
Sends ==
  \A c \in Client :
    /\ cpc[c] \in {"request", "answer"} => server[c] = MainPort /\ msg[c] = "zero"
    /\ cpc[c] = "greet" =>
         \/ server[c] \in Slot /\ msg[c] = "hello"
         \/ server[c] = MainPort /\ msg[c] = "zero" /\ cint[c]
    /\ cpc[c] \in {"input", "sent", "reply", "compare"} => server[c] # MainPort

SysInv == IInv /\ SysTypeOK /\ Sends

(* Queues: what is in them after a datagram has come, or has been read.     *)
In(q) == {q[i] : i \in DOMAIN q}

LEMMA QueueEmpty == In(<<>>) = {}
BY DEF In

LEMMA QueueAppend ==
  ASSUME NEW S, NEW q \in Seq(S), NEW m \in S
  PROVE  Append(q, m) \in Seq(S) /\ In(Append(q, m)) = In(q) \cup {m}
<1>1. /\ Append(q, m) \in Seq(S) /\ Len(Append(q, m)) = Len(q) + 1
      /\ \A i \in 1 .. Len(q) : Append(q, m)[i] = q[i]
      /\ Append(q, m)[Len(q) + 1] = m
  BY AppendProperties
<1>2. /\ DOMAIN q = 1 .. Len(q) /\ Len(q) \in Nat
      /\ DOMAIN Append(q, m) = 1 .. Len(q) + 1
  BY <1>1, LenProperties
<1> QED BY <1>1, <1>2 DEF In

LEMMA QueueTail ==
  ASSUME NEW S, NEW q \in Seq(S), q # <<>>
  PROVE  /\ Head(q) \in S /\ Head(q) \in In(q)
         /\ Tail(q) \in Seq(S) /\ In(Tail(q)) \subseteq In(q)
<1>1. /\ Head(q) \in S /\ Tail(q) \in Seq(S) /\ Len(Tail(q)) = Len(q) - 1
      /\ \A i \in 1 .. Len(Tail(q)) : Tail(q)[i] = q[i + 1]
  BY HeadTailProperties
<1>2. /\ DOMAIN q = 1 .. Len(q) /\ Len(q) \in Nat \ {0}
      /\ DOMAIN Tail(q) = 1 .. Len(q) - 1
  BY <1>1, LenProperties, EmptySeq
<1>3. Head(q) = q[1]
  OBVIOUS
<1> QED BY <1>1, <1>2, <1>3 DEF In

(* Where things are after that.                                             *)
LEMMA QueuePut ==
  ASSUME NEW S, NEW q \in Seq(S), NEW m
  PROVE  /\ In(Append(q, m)) = In(q) \cup {m}
         /\ Len(q) \in Nat /\ DOMAIN q = 1 .. Len(q)
         /\ DOMAIN Append(q, m) = 1 .. Len(q) + 1
         /\ \A i \in 1 .. Len(q) : Append(q, m)[i] = q[i]
         /\ Append(q, m)[Len(q) + 1] = m
<1> DEFINE T == S \cup {m}
<1>1. q \in Seq(T) /\ m \in T
  BY SeqMonotonic
<1> HIDE DEF T
<1>2. /\ Append(q, m) \in Seq(T) /\ Len(Append(q, m)) = Len(q) + 1
      /\ \A i \in 1 .. Len(q) : Append(q, m)[i] = q[i]
      /\ Append(q, m)[Len(q) + 1] = m
  BY <1>1, AppendProperties
<1>3. Len(q) \in Nat /\ DOMAIN q = 1 .. Len(q) /\ DOMAIN Append(q, m) = 1 .. Len(q) + 1
  BY <1>1, <1>2, LenProperties
<1> QED BY <1>1, <1>2, <1>3, QueueAppend

LEMMA QueueGet ==
  ASSUME NEW S, NEW q \in Seq(S), q # <<>>
  PROVE  /\ Len(q) \in Nat \ {0} /\ DOMAIN q = 1 .. Len(q) /\ Head(q) = q[1]
         /\ DOMAIN Tail(q) = 1 .. Len(q) - 1
         /\ \A i \in 1 .. Len(q) - 1 : Tail(q)[i] = q[i + 1]
<1>1. /\ Tail(q) \in Seq(S) /\ Len(Tail(q)) = Len(q) - 1
      /\ \A i \in 1 .. Len(Tail(q)) : Tail(q)[i] = q[i + 1]
  BY HeadTailProperties
<1> QED BY <1>1, LenProperties, EmptySeq

LEMMA QueueOf ==
  ASSUME NEW S, NEW q \in Seq(S)
  PROVE  In(q) \subseteq S
BY LenProperties DEF In

(* A datagram a client may send where its server variable says.             *)
LEMMA SendTyped ==
  ASSUME SysTypeOK, NEW c \in Client, NEW k, SendToServer(c, k),
         k \in {"zero", "hello", "text", "END"},
         server[c] = MainPort => k \in {"zero", "END"},
         server[c] # MainPort => k # "zero",
         k = "hello" => server[c] \in Slot
  PROVE  mainq' \in Seq(Asking) /\ threadq' \in [Thread -> Seq(Datagram)]
<1> DEFINE p == server[c]
           m == [from |-> c, kind |-> k, port |-> IF k = "hello" THEN p ELSE NoSock]
<1>1. CASE p = MainPort /\ mainq' = Append(mainq, m) /\ UNCHANGED threadq
  <2>1. m \in Asking
    BY <1>1 DEF Asking
  <2> QED BY <1>1, <2>1, AppendProperties DEF SysTypeOK
<1>2. CASE p # MainPort /\ UNCHANGED mainq /\ threadq' = [t \in Thread |->
             IF sock[t] = p THEN Append(threadq[t], m) ELSE threadq[t]]
  <2>1. m \in Datagram
    BY <1>2 DEF Datagram
  <2> QED BY <1>2, <2>1, AppendProperties DEF SysTypeOK
<1>3. CASE UNCHANGED <<mainq, threadq>>
  BY <1>3 DEF SysTypeOK
<1> QED BY <1>1, <1>2, <1>3 DEF SendToServer

LEMMA AnswerTyped ==
  ASSUME SysTypeOK, NEW c \in Client, NEW m \in Answering, SendToClient(c, m)
  PROVE  clientq' \in [Client -> Seq(Answering)]
<1>1. CASE UNCHANGED clientq
  BY <1>1 DEF SysTypeOK
<1>2. CASE clientq' = [clientq EXCEPT ![c] = Append(@, m)]
  <2>1. Append(clientq[c], m) \in Seq(Answering)
    BY QueueAppend DEF SysTypeOK
  <2> QED BY <1>2, <2>1 DEF SysTypeOK
<1> QED BY <1>1, <1>2 DEF SendToClient

(* Every step of the system is a step of PoolServer, or leaves it alone.    *)
LEMMA SysStepIsStep ==
  ASSUME SysTypeOK, [SysNext]_sysVars
  PROVE  [Next]_vars
<1>1. CASE UNCHANGED sysVars
  BY <1>1 DEF sysVars
<1>2. CASE MainLocal
  BY <1>2 DEF MainLocal, Next, MainStep
<1>3. CASE MainGets
  <2>1. Head(mainq).from \in Client
    <3>1. mainq \in Seq(Asking) /\ mainq # <<>>
      BY <1>3 DEF MainGets, SysTypeOK
    <3>2. Head(mainq) \in Asking
      BY <3>1, QueueTail
    <3> QED BY <3>2 DEF Asking
  <2> QED BY <1>3, <2>1 DEF MainGets, Next
<1>4. CASE MainAnswers
  BY <1>4 DEF MainAnswers, Next, MainStep
<1>5. ASSUME NEW t \in Thread, ThreadLocal(t) \/ ThreadReplies(t) \/ ThreadFrees(t)
      PROVE  Next
  BY <1>5 DEF ThreadLocal, ThreadReplies, ThreadFrees, Next, ThreadStep
<1>6. ASSUME NEW t \in Thread, ThreadGets(t) PROVE Next
  <2>1. Head(threadq[t]) \in Datagram
    <3>1. threadq[t] \in Seq(Datagram) /\ threadq[t] # <<>>
      BY <1>6 DEF ThreadGets, SysTypeOK
    <3> QED BY <3>1, QueueTail
  <2> QED BY <1>6, <2>1 DEF ThreadGets, Next
<1>7. ASSUME NEW c \in Client,
             ClientRuns(c) \/ ClientStarts(c) \/ ClientTypes(c) \/ ClientInput(c)
      PROVE  UNCHANGED vars
  BY <1>7 DEF ClientRuns, ClientStarts, ClientTypes, ClientInput, ClientGreets,
     ClientGets, ClientEnds, ClientLocal
<1> QED
  BY <1>1, <1>2, <1>3, <1>4, <1>5, <1>6, <1>7 DEF SysNext, MainRuns, ThreadRuns

LEMMA SysInitial == SysInit => SysInv
<1> SUFFICES ASSUME SysInit PROVE SysInv
  OBVIOUS
<1>1. IInv
  BY InitInvariant DEF SysInit
<1>2. SysTypeOK
  <2>1. <<>> \in Seq(Asking) /\ <<>> \in Seq(Datagram) /\ <<>> \in Seq(Answering)
    BY EmptySeq
  <2> QED BY <2>1 DEF SysInit, SysTypeOK, C!Init, CPC
<1>3. Sends
  BY DEF SysInit, C!Init, Sends
<1> QED BY <1>1, <1>2, <1>3 DEF SysInv

LEMMA NextSysTyped ==
  ASSUME SysInv, [SysNext]_sysVars
  PROVE  SysTypeOK' /\ Sends'
<1> DEFINE Keeps == SysTypeOK' /\ Sends'
<1>0. SysTypeOK /\ Sends /\ TypeOK
  BY DEF SysInv, IInv
<1>1. CASE UNCHANGED <<clientVars, netVars>>
  BY <1>0, <1>1 DEF clientVars, netVars, SysTypeOK, Sends
<1>2. CASE MainGets
  <2>1. mainq' \in Seq(Asking)
    BY <1>0, <1>2, QueueTail DEF MainGets, SysTypeOK
  <2> QED BY <1>0, <1>2, <2>1 DEF MainGets, clientVars, SysTypeOK, Sends
<1>3. CASE MainAnswers
  <2>1. [kind |-> "port", port |-> reply, source |-> MainPort] \in Answering /\ client \in Client
    BY <1>0 DEF TypeOK, Answering
  <2>2. clientq' \in [Client -> Seq(Answering)]
    BY <1>0, <1>3, <2>1, AnswerTyped DEF MainAnswers
  <2> QED BY <1>0, <1>3, <2>2 DEF MainAnswers, clientVars, SysTypeOK, Sends
<1>4. ASSUME NEW t \in Thread, ThreadGets(t) PROVE Keeps
  <2>1. threadq' \in [Thread -> Seq(Datagram)]
    <3>1. Tail(threadq[t]) \in Seq(Datagram)
      BY <1>0, <1>4, QueueTail DEF ThreadGets, SysTypeOK
    <3> QED BY <1>0, <1>4, <3>1 DEF ThreadGets, SysTypeOK
  <2> QED BY <1>0, <1>4, <2>1 DEF ThreadGets, clientVars, SysTypeOK, Sends
<1>5. ASSUME NEW t \in Thread, ThreadReplies(t) PROVE Keeps
  <2>1. PICK k \in {"ok", "END"} :
          SendToClient(cur[t].from, [kind |-> k, port |-> NoSock, source |-> sock[t]])
    BY <1>5 DEF ThreadReplies
  <2>2. /\ [kind |-> k, port |-> NoSock, source |-> sock[t]] \in Answering
        /\ cur[t].from \in Client
    BY <1>0, PoolAssumption DEF TypeOK, Answering, Datagram, NoMsg
  <2>3. clientq' \in [Client -> Seq(Answering)]
    BY <1>0, <2>1, <2>2, AnswerTyped
  <2> QED BY <1>0, <1>5, <2>3 DEF ThreadReplies, clientVars, SysTypeOK, Sends
<1>6. ASSUME NEW t \in Thread, ThreadFrees(t) PROVE Keeps
  <2>1. threadq' \in [Thread -> Seq(Datagram)]
    BY <1>0, <1>6, EmptySeq DEF ThreadFrees, SysTypeOK
  <2> QED BY <1>0, <1>6, <2>1 DEF ThreadFrees, clientVars, SysTypeOK, Sends
<1>7. ASSUME NEW c \in Client, NEW k, SendToServer(c, k), UNCHANGED clientq,
             k \in {"zero", "hello", "text", "END"},
             server[c] = MainPort => k \in {"zero", "END"},
             server[c] # MainPort => k # "zero",
             k = "hello" => server[c] \in Slot,
             UNCHANGED server,
             cpc' \in [Client -> CPC], cint' \in [Client -> BOOLEAN],
             msg' \in [Client -> {"zero", "hello", "text", "END", "ok"}]
      PROVE  SysTypeOK'
  <2>1. mainq' \in Seq(Asking) /\ threadq' \in [Thread -> Seq(Datagram)]
    BY <1>0, <1>7, SendTyped
  <2> QED BY <1>0, <1>7, <2>1 DEF SysTypeOK
<1>8. ASSUME NEW c \in Client, ClientStarts(c) PROVE Keeps
  <2>1. Sends'
    BY <1>0, <1>8 DEF ClientStarts, C!Request, C!At, Sends, SysTypeOK
  <2>2. SysTypeOK'
    <3>1. /\ SendToServer(c, "zero") /\ cpc[c] = "request"
          /\ UNCHANGED <<clientq, server, msg, cint>>
          /\ cpc' \in [Client -> CPC]
      BY <1>0, <1>8 DEF ClientStarts, C!Request, C!At, SysTypeOK, CPC
    <3>2. server[c] = MainPort
      BY <1>0, <3>1 DEF Sends
    <3> QED BY <1>0, <1>7, <3>1, <3>2 DEF SysTypeOK
  <2> QED BY <2>1, <2>2
<1>9. ASSUME NEW c \in Client, ClientGreets(c) PROVE Keeps
  <2>1. Sends'
    BY <1>0, <1>9, PoolAssumption
       DEF ClientGreets, C!Greet, C!LoopTest, C!At, Sends, SysTypeOK, Slot, MainPort
  <2>2. SysTypeOK'
    <3>1. /\ SendToServer(c, msg[c]) /\ cpc[c] = "greet"
          /\ UNCHANGED <<clientq, server, msg, cint>>
          /\ cpc' \in [Client -> CPC]
      BY <1>0, <1>9 DEF ClientGreets, C!Greet, C!LoopTest, C!At, SysTypeOK, CPC
    <3>2. \/ server[c] \in Slot /\ msg[c] = "hello" /\ server[c] # MainPort
          \/ server[c] = MainPort /\ msg[c] = "zero"
      BY <1>0, <3>1, PoolAssumption DEF Sends, Slot, MainPort
    <3> QED BY <1>0, <1>7, <3>1, <3>2 DEF SysTypeOK
  <2> QED BY <2>1, <2>2
<1>10. ASSUME NEW c \in Client, ClientTypes(c) PROVE Keeps
  <2>1. PICK w \in {"text", "END"} : C!Word(c, w) /\ SendToServer(c, w)
    BY <1>10 DEF ClientTypes
  <2>2. Sends'
    BY <1>0, <2>1 DEF C!Word, C!At, Sends, SysTypeOK
  <2>3. SysTypeOK'
    <3>1. /\ cpc[c] = "input"
          /\ UNCHANGED <<clientq, server, cint>>
          /\ cpc' \in [Client -> CPC]
          /\ msg' \in [Client -> {"zero", "hello", "text", "END", "ok"}]
      BY <1>0, <1>10, <2>1 DEF ClientTypes, C!Word, C!At, SysTypeOK, CPC
    <3>2. server[c] # MainPort
      BY <1>0, <3>1 DEF Sends
    <3> QED BY <1>0, <1>7, <2>1, <3>1, <3>2 DEF SysTypeOK
  <2> QED BY <2>2, <2>3
<1>11. ASSUME NEW c \in Client, ClientGets(c) PROVE Keeps
  <2> DEFINE m == Head(clientq[c])
  <2>1. m \in Answering /\ Tail(clientq[c]) \in Seq(Answering)
    BY <1>0, <1>11, QueueTail DEF ClientGets, SysTypeOK
  <2>2. clientq' \in [Client -> Seq(Answering)]
    BY <1>0, <1>11, <2>1 DEF ClientGets, SysTypeOK
  <2>3. CASE m.kind = "port"
    <3>1. C!Answer(c, m.port) /\ m.port \in Slot
      BY <1>11, <2>1, <2>3 DEF ClientGets, Answering
    <3>2. Sends'
      BY <1>0, <3>1 DEF C!Answer, C!At, Sends, SysTypeOK
    <3> QED BY <1>0, <1>11, <2>2, <3>1, <3>2 DEF ClientGets, C!Answer, C!At, SysTypeOK, CPC
  <2>4. CASE m.kind # "port"
    <3>1. /\ C!Reply(c, m.kind, m.source) /\ m.source \in Slot \cup {NoSock, Elsewhere}
          /\ m.kind \in {"ok", "END"}
      BY <1>11, <2>1, <2>4 DEF ClientGets, Answering
    <3>2. m.source # MainPort
      BY <3>1, PoolAssumption DEF Slot, NoSock, Elsewhere, MainPort
    <3>3. Sends'
      BY <1>0, <3>1, <3>2 DEF C!Reply, C!At, Sends, SysTypeOK
    <3> QED BY <1>0, <1>11, <2>2, <3>1, <3>3 DEF ClientGets, C!Reply, C!At, SysTypeOK, CPC
  <2> QED BY <2>3, <2>4
<1>12. ASSUME NEW c \in Client, ClientEnds(c) PROVE Keeps
  <2>1. Sends'
    BY <1>0, <1>12 DEF ClientEnds, C!Bye, C!At, Sends, SysTypeOK
  <2>2. mainq' \in Seq(Asking) /\ threadq' \in [Thread -> Seq(Datagram)]
    BY <1>0, <1>12, SendTyped DEF ClientEnds
  <2>3. clientq' \in [Client -> Seq(Answering)]
    BY <1>0, <1>12, EmptySeq DEF ClientEnds, SysTypeOK
  <2> QED BY <1>0, <1>12, <2>1, <2>2, <2>3 DEF ClientEnds, C!Bye, C!At, SysTypeOK, CPC
<1>13. ASSUME NEW c \in Client, ClientLocal(c) PROVE Keeps
  <2>1. Sends'
    BY <1>0, <1>13 DEF ClientLocal, C!Sent, C!Compare, C!LoopTest, C!At, Sends, SysTypeOK
  <2>2. clientq' \in [Client -> Seq(Answering)]
    BY <1>0, <1>13, EmptySeq DEF ClientLocal, SysTypeOK
  <2> QED
    BY <1>0, <1>13, <2>1, <2>2
       DEF ClientLocal, C!Sent, C!Compare, C!LoopTest, C!At, SysTypeOK, CPC
<1>14. ASSUME NEW c \in Client, ClientInput(c) PROVE Keeps
  <2>1. Sends'
    BY <1>0, <1>14 DEF ClientInput, C!Eof, C!Interrupt, C!At, Sends, SysTypeOK
  <2> QED
    BY <1>0, <1>14, <2>1 DEF ClientInput, C!Eof, C!Interrupt, C!At, SysTypeOK, CPC, netVars
<1> QED
  BY <1>1, <1>2, <1>3, <1>4, <1>5, <1>6, <1>8, <1>9, <1>10, <1>11, <1>12, <1>13, <1>14
     DEF SysNext, MainRuns, ThreadRuns, ClientRuns, sysVars, MainLocal, ThreadLocal

LEMMA SysInductive == SysInv /\ [SysNext]_sysVars => SysInv'
BY SysStepIsStep, NextInvariant, NextSysTyped DEF SysInv

(* Of every state of the system: what is in each queue has the form its     *)
(* reader expects, each client sends where its server variable says, and    *)
(* the invariant of the server holds.                                       *)
THEOREM SysInvariance == SysSafeSpec => []SysInv
BY SysInitial, SysInductive, PTL DEF SysSafeSpec

(* The server that the clients talk to is PoolServer: the steps of the      *)
(* clients and of the network only choose when its handlers are called, and *)
(* with what, so that whatever is proved of PoolServer holds of the system. *)
THEOREM SysImplements == SysSafeSpec => SafeSpec
<1>1. SysInit => Init
  BY DEF SysInit
<1>2. SysInv /\ [SysNext]_sysVars => [Next]_vars
  BY SysStepIsStep DEF SysInv
<1> QED BY <1>1, <1>2, SysInvariance, PTL DEF SysSafeSpec, SafeSpec

-----------------------------------------------------------------------------
(* No two clients are sent to one dynamic thread.                           *)

(* A thread has a socket from its binding until it closes it, and receives  *)
(* nothing without; nobody is told to send to a socket that is none.        *)
Sockets ==
  /\ \A t \in Thread : sock[t] = NoSock => threadq[t] = <<>>
  /\ \A t \in Thread : tpc[t] \in {"none", "start", "bind"} => sock[t] = NoSock
  /\ \A t \in Thread :
       tpc[t] \in {"ready", "recv", "judge", "sendOk", "sendEnd", "endFree"}
         => sock[t] # NoSock
  /\ \A c \in Client :
       server[c] # NoSock /\ \A m \in In(clientq[c]) : m.source # NoSock

(* Port k is where c sends, or may come to send.                            *)
Told(c, k) == \E m \in In(clientq[c]) : m.port = k \/ m.source = k

Owed(c, k) ==
  \E t \in Thread :
    /\ sock[t] = k
    /\ \/ tpc[t] \in {"judge", "sendOk", "sendEnd"} /\ cur[t].from = c
       \/ \E m \in In(threadq[t]) : m.from = c

Holds(c, k) == server[c] = k \/ Told(c, k) \/ Owed(c, k)

DynamicSlot == Slot \ PoolSlot

(* What is held has a number that is taken, by one client, and is not what  *)
(* the main thread is about to hand out.                                    *)
Exclusive ==
  /\ \A c \in Client, k \in DynamicSlot : Holds(c, k) => flag[k]
  /\ \A c, d \in Client, k \in DynamicSlot : Holds(c, k) /\ Holds(d, k) => c = d
  /\ mpc \in {"spin", "send"} /\ reply \in DynamicSlot
       => \A c \in Client : ~Holds(c, reply)

ExclusiveFirst == FirstGeneration /\ FreshMemory => Exclusive

LEMMA NextSockets ==
  ASSUME SysInv, Sockets, [SysNext]_sysVars
  PROVE  Sockets'
<1>0. /\ SysTypeOK /\ TypeOK /\ SysTypeOK'
  BY NextSysTyped DEF SysInv, IInv
<1>1. CASE UNCHANGED sysVars
  BY <1>1 DEF sysVars, vars, threadVars, clientVars, netVars, Sockets
<1>2. CASE MainLocal
  <2>1. /\ UNCHANGED <<sock, threadq, server, clientq>>
        /\ tpc' = tpc \/ tpc' = [tpc EXCEPT ![created + 1] = "start"]
    BY <1>2 DEF MainLocal, CreatePool, MainCount, MainScan, MainCreate, MainSpin,
       Spawn, threadVars, clientVars, netVars
  <2>2. created + 1 \in Thread => tpc[created + 1] = "none"
    BY <1>0 DEF SysInv, IInv, TypeOK, Creation
  <2> QED BY <1>0, <2>1, <2>2 DEF Sockets, TypeOK
<1>3. CASE MainGets
  BY <1>3 DEF MainGets, MainReceive, threadVars, clientVars, Sockets
<1>4. ASSUME NEW c \in Client, NEW m \in Answering, SendToClient(c, m),
             m.source # NoSock
      PROVE  \A d \in Client : \A e \in In(clientq'[d]) : e.source # NoSock
  <2>1. In(Append(clientq[c], m)) = In(clientq[c]) \cup {m}
    BY <1>0, QueueAppend DEF SysTypeOK
  <2> QED BY <1>0, <1>4, <2>1 DEF SendToClient, Sockets, SysTypeOK
<1>5. CASE MainAnswers
  <2> DEFINE m == [kind |-> "port", port |-> reply, source |-> MainPort]
  <2>1. m \in Answering /\ client \in Client /\ m.source # NoSock
    BY <1>0 DEF TypeOK, Answering, MainPort, NoSock
  <2>2. \A d \in Client : \A e \in In(clientq'[d]) : e.source # NoSock
    BY <1>4, <1>5, <2>1 DEF MainAnswers
  <2> QED BY <1>5, <2>2 DEF MainAnswers, MainSend, threadVars, clientVars, Sockets
<1>6. ASSUME NEW t \in Thread, ThreadLocal(t) PROVE Sockets'
  <2>1. UNCHANGED <<threadq, server, clientq>>
    BY <1>6 DEF ThreadLocal, clientVars, netVars
  <2>2. CASE Bind(t)
    <3>1. ThreadNum(my_num[t]) # NoSock
      <4>1. my_num[t] \in Slot
        BY <1>0 DEF TypeOK
      <4>2. my_num[t] < MAXCLIENT => tinfo[my_num[t]] \in Slot \cup {Elsewhere}
        BY <1>0, <4>1, PoolAssumption DEF TypeOK, Slot
      <4>3. NoSock \notin Slot \cup {Elsewhere}
        BY PoolAssumption DEF Slot, NoSock, Elsewhere
      <4> QED BY <4>2, <4>3 DEF ThreadNum
    <3>2. /\ tpc[t] = "bind"
          /\ \/ sock' = [sock EXCEPT ![t] = ThreadNum(my_num[t])]
                /\ tpc' \in {[tpc EXCEPT ![t] = x] : x \in {"ready", "clear"}}
             \/ UNCHANGED sock /\ tpc' = [tpc EXCEPT ![t] = "clear"]
      BY <2>2 DEF Bind, Goto
    <3> QED BY <1>0, <2>1, <3>1, <3>2 DEF Sockets, TypeOK
  <2>3. CASE Register(t) \/ MarkReady(t) \/ Accept(t) \/ Reject(t) \/ Unflag(t)
    BY <1>0, <2>1, <2>3 DEF Register, MarkReady, Accept, Reject, Unflag, Goto, Sockets, TypeOK
  <2> QED BY <1>6, <2>2, <2>3 DEF ThreadLocal
<1>7. ASSUME NEW t \in Thread, ThreadGets(t) PROVE Sockets'
  BY <1>0, <1>7 DEF ThreadGets, Receive, Goto, clientVars, Sockets, TypeOK, SysTypeOK
<1>8. ASSUME NEW t \in Thread, ThreadReplies(t) PROVE Sockets'
  <2>1. PICK k \in {"ok", "END"} :
          SendToClient(cur[t].from, [kind |-> k, port |-> NoSock, source |-> sock[t]])
    BY <1>8 DEF ThreadReplies
  <2> DEFINE m == [kind |-> k, port |-> NoSock, source |-> sock[t]]
  <2>2. /\ UNCHANGED <<sock, threadq, server>> /\ tpc[t] \in {"sendOk", "sendEnd"}
        /\ tpc' \in {[tpc EXCEPT ![t] = x] : x \in {"ready", "clear", "endFree"}}
    BY <1>8 DEF ThreadReplies, ReplyOk, ReplyEnd, Goto, clientVars
  <2>3. m \in Answering /\ cur[t].from \in Client /\ m.source # NoSock
    BY <1>0, <2>2, PoolAssumption DEF TypeOK, Answering, Datagram, NoMsg, Sockets
  <2>4. \A d \in Client : \A e \in In(clientq'[d]) : e.source # NoSock
    BY <1>4, <2>1, <2>3
  <2> QED BY <1>0, <2>2, <2>4 DEF Sockets, TypeOK
<1>9. ASSUME NEW t \in Thread, ThreadFrees(t) PROVE Sockets'
  <2>1. /\ UNCHANGED <<server, clientq>>
        /\ threadq' = [threadq EXCEPT ![t] = IF sock'[t] = NoSock THEN <<>> ELSE @]
    BY <1>9 DEF ThreadFrees, clientVars
  <2>2. /\ tpc[t] \in {"endFree", "clear"}
        /\ \/ UNCHANGED sock /\ tpc[t] = "endFree" /\ tpc' = [tpc EXCEPT ![t] = "ready"]
           \/ /\ sock' = [sock EXCEPT ![t] = NoSock]
              /\ tpc' \in {[tpc EXCEPT ![t] = x] : x \in {"done", "unflag"}}
    BY <1>9 DEF ThreadFrees, EndFree, Clear, Goto
  <2>3. /\ \A u \in Thread : u # t => /\ tpc'[u] = tpc[u] /\ sock'[u] = sock[u]
                                      /\ threadq'[u] = threadq[u]
        /\ sock'[t] = NoSock => threadq'[t] = <<>>
        /\ \/ tpc'[t] = "ready" /\ sock'[t] = sock[t] /\ tpc[t] = "endFree"
           \/ tpc'[t] \in {"done", "unflag"} /\ sock'[t] = NoSock
    BY <1>0, <2>1, <2>2 DEF TypeOK, SysTypeOK
  <2> QED BY <2>1, <2>3 DEF Sockets
<1>10. ASSUME NEW c \in Client, NEW k, SendToServer(c, k)
       PROVE  \A t \in Thread : threadq'[t] = threadq[t] \/ sock[t] # NoSock
  BY <1>10 DEF SendToServer, Sockets
<1>11. ASSUME NEW c \in Client, ClientStarts(c) \/ ClientGreets(c) \/ ClientTypes(c)
       PROVE  Sockets'
  <2>1. /\ UNCHANGED <<vars, server, clientq>>
        /\ \E k : SendToServer(c, k)
    BY <1>11 DEF ClientStarts, ClientGreets, ClientTypes, C!Request, C!Greet, C!Word
  <2> QED BY <1>10, <2>1 DEF vars, threadVars, Sockets
<1>12. ASSUME NEW c \in Client, ClientGets(c) PROVE Sockets'
  <2> DEFINE m == Head(clientq[c])
  <2>1. m \in Answering /\ m \in In(clientq[c]) /\ In(Tail(clientq[c])) \subseteq In(clientq[c])
    BY <1>0, <1>12, QueueTail DEF ClientGets, SysTypeOK
  <2>2. /\ UNCHANGED <<vars, threadq>> /\ clientq' = [clientq EXCEPT ![c] = Tail(@)]
        /\ \/ m.kind = "port" /\ server' = [server EXCEPT ![c] = m.port]
           \/ m.kind # "port" /\ server' = [server EXCEPT ![c] = m.source]
    BY <1>12 DEF ClientGets, C!Answer, C!Reply
  <2>3. (m.kind = "port" => m.port # NoSock) /\ m.source # NoSock
    <3>1. m.kind = "port" => m.port \in Slot
      BY <2>1 DEF Answering
    <3>2. NoSock \notin Slot
      BY PoolAssumption DEF Slot, NoSock
    <3> QED BY <2>1, <3>1, <3>2 DEF Sockets
  <2>4. \A d \in Client : In(clientq'[d]) \subseteq In(clientq[d])
    BY <1>0, <2>1, <2>2 DEF SysTypeOK
  <2> QED BY <1>0, <2>2, <2>3, <2>4 DEF vars, threadVars, Sockets, SysTypeOK
<1>13. ASSUME NEW c \in Client, ClientEnds(c) PROVE Sockets'
  <2>1. /\ UNCHANGED <<vars, server>> /\ SendToServer(c, "END")
        /\ clientq' = [clientq EXCEPT ![c] = <<>>]
    BY <1>13 DEF ClientEnds, C!Bye
  <2> QED BY <1>0, <1>10, <2>1, QueueEmpty DEF vars, threadVars, Sockets, SysTypeOK
<1>14. ASSUME NEW c \in Client, ClientLocal(c) \/ ClientInput(c) PROVE Sockets'
  <2>1. /\ UNCHANGED <<vars, server, threadq>>
        /\ \/ clientq' = [clientq EXCEPT ![c] = <<>>]
           \/ clientq' = [clientq EXCEPT ![c] = @]
           \/ clientq' = clientq
    BY <1>14 DEF ClientLocal, ClientInput, C!Sent, C!Compare, C!Eof, C!Interrupt, netVars
  <2> QED BY <1>0, <2>1, QueueEmpty DEF vars, threadVars, Sockets, SysTypeOK
<1> QED
  BY <1>1, <1>2, <1>3, <1>5, <1>6, <1>7, <1>8, <1>9, <1>11, <1>12, <1>13, <1>14
     DEF SysNext, MainRuns, ThreadRuns, ClientRuns

(* Only the answer of the main thread gives a client a port it did not have.*)
LEMMA NextHolds ==
  ASSUME SysInv, Sockets, [SysNext]_sysVars,
         NEW c \in Client, NEW k \in Slot, Holds(c, k)'
  PROVE  Holds(c, k) \/ (MainAnswers /\ c = client /\ k = reply)
<1>0. SysTypeOK /\ TypeOK /\ SysTypeOK'
  BY NextSysTyped DEF SysInv, IInv
<1>k. k # NoSock /\ k # MainPort
  BY PoolAssumption DEF Slot, NoSock, MainPort
<1>1. CASE UNCHANGED sysVars
  BY <1>1 DEF sysVars, vars, threadVars, clientVars, netVars, Holds, Told, Owed
<1>2. CASE MainLocal
  <2>1. /\ UNCHANGED <<sock, cur, threadq, server, clientq>>
        /\ tpc' = tpc \/ tpc' = [tpc EXCEPT ![created + 1] = "start"]
    BY <1>2 DEF MainLocal, CreatePool, MainCount, MainScan, MainCreate, MainSpin,
       Spawn, threadVars, clientVars, netVars
  <2> QED BY <1>0, <2>1 DEF Holds, Told, Owed, TypeOK
<1>3. CASE MainGets
  BY <1>3 DEF MainGets, MainReceive, threadVars, clientVars, Holds, Told, Owed
<1>4. ASSUME NEW d \in Client, NEW m \in Answering, SendToClient(d, m), Told(c, k)'
      PROVE  Told(c, k) \/ (c = d /\ k \in {m.port, m.source})
  <2>1. In(Append(clientq[d], m)) = In(clientq[d]) \cup {m}
    BY <1>0, QueueAppend DEF SysTypeOK
  <2>2. UNCHANGED clientq \/ clientq' = [clientq EXCEPT ![d] = Append(@, m)]
    BY <1>4 DEF SendToClient
  <2>3. CASE c # d \/ UNCHANGED clientq
    <3>1. clientq'[c] = clientq[c]
      BY <1>0, <2>2, <2>3 DEF SysTypeOK
    <3> QED BY <1>4, <3>1 DEF Told
  <2>4. CASE c = d /\ clientq'[c] = Append(clientq[c], m)
    BY <1>4, <2>1, <2>4 DEF Told
  <2> QED BY <1>0, <2>2, <2>3, <2>4 DEF SysTypeOK
<1>5. CASE MainAnswers
  <2> DEFINE m == [kind |-> "port", port |-> reply, source |-> MainPort]
  <2>1. m \in Answering /\ client \in Client /\ SendToClient(client, m)
    BY <1>0, <1>5 DEF TypeOK, Answering, MainAnswers
  <2>2. UNCHANGED <<sock, cur, tpc, threadq, server>>
    BY <1>5 DEF MainAnswers, MainSend, threadVars, clientVars
  <2>3. Owed(c, k)' => Owed(c, k)
    BY <2>2 DEF Owed
  <2>4. Told(c, k)' => Told(c, k) \/ (c = client /\ k \in {m.port, m.source})
    BY <1>4, <2>1
  <2> QED BY <1>5, <1>k, <2>2, <2>3, <2>4 DEF Holds
<1>6. ASSUME NEW t \in Thread, ThreadLocal(t) PROVE Holds(c, k)
  <2>1. UNCHANGED <<threadq, server, clientq>>
    BY <1>6 DEF ThreadLocal, clientVars, netVars
  <2>2. Told(c, k)' = Told(c, k)
    BY <2>1 DEF Told
  <2>3. CASE Bind(t)
    <3>1. /\ tpc[t] = "bind" /\ UNCHANGED cur
          /\ \A u \in Thread : u # t => sock'[u] = sock[u] /\ tpc'[u] = tpc[u]
          /\ tpc'[t] \in {"ready", "clear"}
      BY <1>0, <2>3 DEF Bind, Goto, TypeOK
    <3>2. threadq[t] = <<>>
      BY <3>1 DEF Sockets
    <3>3. Owed(c, k)' => Owed(c, k)
      BY <2>1, <3>1, <3>2, QueueEmpty DEF Owed
    <3> QED BY <2>1, <2>2, <3>3 DEF Holds
  <2>4. CASE Register(t) \/ MarkReady(t) \/ Unflag(t)
    <3>1. /\ UNCHANGED <<sock, cur>>
          /\ \A u \in Thread : u # t => tpc'[u] = tpc[u]
          /\ tpc'[t] \in {"bind", "recv", "done"}
      BY <1>0, <2>4 DEF Register, MarkReady, Unflag, Goto, TypeOK
    <3>2. Owed(c, k)' => Owed(c, k)
      BY <2>1, <3>1 DEF Owed
    <3> QED BY <2>1, <2>2, <3>2 DEF Holds
  <2>5. CASE Accept(t)
    <3>1. /\ UNCHANGED <<sock, cur>>
          /\ \A u \in Thread : u # t => tpc'[u] = tpc[u]
          /\ tpc[t] = "judge"
      BY <1>0, <2>5 DEF Accept, Goto, TypeOK
    <3>2. Owed(c, k)' => Owed(c, k)
      BY <2>1, <3>1 DEF Owed
    <3> QED BY <2>1, <2>2, <3>2 DEF Holds
  <2>6. CASE Reject(t)
    <3>1. /\ UNCHANGED sock
          /\ \A u \in Thread : u # t => tpc'[u] = tpc[u] /\ cur'[u] = cur[u]
          /\ tpc'[t] \in {"ready", "clear"}
      BY <1>0, <2>6 DEF Reject, Goto, TypeOK
    <3>2. Owed(c, k)' => Owed(c, k)
      BY <2>1, <3>1 DEF Owed
    <3> QED BY <2>1, <2>2, <3>2 DEF Holds
  <2> QED BY <1>6, <2>3, <2>4, <2>5, <2>6 DEF ThreadLocal
<1>7. ASSUME NEW t \in Thread, ThreadGets(t) PROVE Holds(c, k)
  <2> DEFINE m == Head(threadq[t])
  <2>1. m \in In(threadq[t]) /\ In(Tail(threadq[t])) \subseteq In(threadq[t])
    BY <1>0, <1>7, QueueTail DEF ThreadGets, SysTypeOK
  <2>2. /\ UNCHANGED <<sock, server, clientq>>
        /\ \A u \in Thread : u # t => tpc'[u] = tpc[u] /\ cur'[u] = cur[u]
                                    /\ threadq'[u] = threadq[u]
        /\ cur'[t] = m /\ threadq'[t] = Tail(threadq[t])
    BY <1>0, <1>7 DEF ThreadGets, Receive, Goto, clientVars, TypeOK, SysTypeOK
  <2>3. Owed(c, k)' => Owed(c, k)
    BY <2>1, <2>2 DEF Owed
  <2> QED BY <2>2, <2>3 DEF Holds, Told
<1>8. ASSUME NEW t \in Thread, ThreadReplies(t) PROVE Holds(c, k)
  <2>1. PICK w \in {"ok", "END"} :
          SendToClient(cur[t].from, [kind |-> w, port |-> NoSock, source |-> sock[t]])
    BY <1>8 DEF ThreadReplies
  <2> DEFINE m == [kind |-> w, port |-> NoSock, source |-> sock[t]]
  <2>2. /\ UNCHANGED <<sock, threadq, server>> /\ tpc[t] \in {"sendOk", "sendEnd"}
        /\ \A u \in Thread : u # t => tpc'[u] = tpc[u] /\ cur'[u] = cur[u]
        /\ tpc'[t] \in {"ready", "clear", "endFree"}
    BY <1>0, <1>8 DEF ThreadReplies, ReplyOk, ReplyEnd, Goto, clientVars, TypeOK
  <2>3. m \in Answering /\ cur[t].from \in Client
    BY <1>0, PoolAssumption DEF TypeOK, Answering, Datagram, NoMsg
  <2>4. Owed(c, k)' => Owed(c, k)
    BY <2>2 DEF Owed
  <2>5. Told(c, k)' => Told(c, k) \/ Owed(c, k)
    <3>1. Told(c, k)' => Told(c, k) \/ (c = cur[t].from /\ k \in {m.port, m.source})
      BY <1>4, <2>1, <2>3
    <3> QED BY <1>k, <2>2, <3>1 DEF Owed
  <2> QED BY <2>2, <2>4, <2>5 DEF Holds
<1>9. ASSUME NEW t \in Thread, ThreadFrees(t) PROVE Holds(c, k)
  <2>1. /\ UNCHANGED <<server, clientq, cur>>
        /\ \A u \in Thread : u # t => tpc'[u] = tpc[u] /\ sock'[u] = sock[u]
                                    /\ threadq'[u] = threadq[u]
        /\ sock'[t] = NoSock \/ (sock'[t] = sock[t] /\ threadq'[t] = threadq[t])
        /\ tpc'[t] \in {"ready", "unflag", "done"}
    BY <1>0, <1>9 DEF ThreadFrees, EndFree, Clear, Goto, clientVars, TypeOK, SysTypeOK
  <2>2. Owed(c, k)' => Owed(c, k)
    BY <1>k, <2>1 DEF Owed
  <2> QED BY <2>1, <2>2 DEF Holds, Told
<1>10. ASSUME NEW d \in Client, UNCHANGED vars, Owed(c, k)',
              UNCHANGED threadq \/ \E w : SendToServer(d, w)
       PROVE  Owed(c, k) \/ server[c] = k
  <2>1. CASE UNCHANGED threadq
    BY <1>10, <2>1 DEF vars, threadVars, Owed
  <2>2. ASSUME NEW w, NEW m, threadq' = [t \in Thread |->
                 IF sock[t] = server[d] THEN Append(threadq[t], m) ELSE threadq[t]],
               m.from = d, threadq' \in [Thread -> Seq(Datagram)]
        PROVE  Owed(c, k) \/ server[c] = k
    <3>1. PICK t \in Thread :
            /\ sock[t] = k
            /\ \/ tpc[t] \in {"judge", "sendOk", "sendEnd"} /\ cur[t].from = c
               \/ \E e \in In(threadq'[t]) : e.from = c
      BY <1>10 DEF vars, threadVars, Owed
    <3>2. CASE sock[t] # server[d]
      BY <2>2, <3>1, <3>2 DEF Owed
    <3>3. CASE sock[t] = server[d]
      <4>1. threadq'[t] = Append(threadq[t], m)
        BY <2>2, <3>3
      <4>2. \A e \in In(threadq'[t]) : e \in In(threadq[t]) \/ e = m
        BY <1>0, <4>1, AppendProperties, LenProperties DEF In, SysTypeOK
      <4> QED BY <2>2, <3>1, <3>3, <4>2 DEF Owed
    <3> QED BY <3>2, <3>3
  <2> QED BY <1>0, <1>10, <2>1, <2>2 DEF SendToServer, SysTypeOK
<1>11. ASSUME NEW d \in Client,
              ClientStarts(d) \/ ClientGreets(d) \/ ClientTypes(d)
       PROVE  Holds(c, k)
  <2>1. UNCHANGED <<vars, server, clientq>> /\ \E w : SendToServer(d, w)
    BY <1>11 DEF ClientStarts, ClientGreets, ClientTypes, C!Request, C!Greet, C!Word
  <2> QED BY <1>10, <2>1 DEF Holds, Told
<1>12. ASSUME NEW d \in Client, ClientGets(d) PROVE Holds(c, k)
  <2> DEFINE m == Head(clientq[d])
  <2>1. m \in In(clientq[d]) /\ In(Tail(clientq[d])) \subseteq In(clientq[d])
    BY <1>0, <1>12, QueueTail DEF ClientGets, SysTypeOK
  <2>2. /\ UNCHANGED <<vars, threadq>> /\ clientq' = [clientq EXCEPT ![d] = Tail(@)]
        /\ \/ server' = [server EXCEPT ![d] = m.port]
           \/ server' = [server EXCEPT ![d] = m.source]
    BY <1>12 DEF ClientGets, C!Answer, C!Reply
  <2>3. Told(c, k)' => Told(c, k)
    BY <1>0, <2>1, <2>2 DEF Told, SysTypeOK
  <2>4. server'[c] = k => server[c] = k \/ Told(c, k)
    BY <1>0, <2>1, <2>2 DEF Told, SysTypeOK
  <2>5. Owed(c, k)' => Owed(c, k)
    BY <2>2 DEF vars, threadVars, Owed
  <2> QED BY <2>3, <2>4, <2>5 DEF Holds
<1>13. ASSUME NEW d \in Client, ClientEnds(d) \/ ClientLocal(d) \/ ClientInput(d)
       PROVE  Holds(c, k)
  <2>1. /\ UNCHANGED <<vars, server>>
        /\ UNCHANGED threadq \/ \E w : SendToServer(d, w)
        /\ \/ clientq' = [clientq EXCEPT ![d] = <<>>]
           \/ clientq' = [clientq EXCEPT ![d] = @]
           \/ clientq' = clientq
    BY <1>13 DEF ClientEnds, ClientLocal, ClientInput, C!Bye, C!Sent, C!Compare, C!Eof,
       C!Interrupt, netVars
  <2>2. Told(c, k)' => Told(c, k)
    BY <1>0, <2>1, QueueEmpty DEF Told, SysTypeOK
  <2>3. Owed(c, k)' => Owed(c, k) \/ server[c] = k
    BY <1>10, <2>1
  <2> QED BY <2>1, <2>2, <2>3 DEF Holds
<1> QED
  BY <1>1, <1>2, <1>3, <1>5, <1>6, <1>7, <1>8, <1>9, <1>11, <1>12, <1>13
     DEF SysNext, MainRuns, ThreadRuns, ClientRuns

(* Nobody clears a flag past the pool before a dynamic thread ends.         *)
LEMMA FlagKept ==
  ASSUME IInv, [Next]_vars, FirstGeneration, FirstGeneration',
         NEW k \in DynamicSlot, flag[k]
  PROVE  flag'[k]
<1>0. /\ TypeOK /\ k \in Slot /\ ~(k < MINTHREAD)
  BY PoolAssumption DEF IInv, DynamicSlot, PoolSlot, Slot
<1>1. ASSUME NEW t \in Thread, Register(t) PROVE flag'[k]
  BY <1>0, <1>1 DEF Register, TypeOK
<1>2. ASSUME NEW t \in Thread, EndFree(t) \/ Unflag(t) PROVE flag'[k]
  <2>1. CASE my_num[t] # k
    BY <1>0, <1>2, <2>1 DEF EndFree, Unflag, TypeOK
  <2>2. CASE my_num[t] = k
    <3>1. t \in Registered /\ t \notin PoolThread
      BY <1>0, <1>2, <2>2 DEF EndFree, Unflag, Goto, Registered, IInv, Numbers
    <3> QED BY <1>2, <3>1 DEF EndFree, Unflag, Goto, FirstGeneration
  <2> QED BY <2>1, <2>2
<1>3. CASE UNCHANGED flag
  BY <1>3
<1> QED
  BY <1>1, <1>2, <1>3
     DEF Next, MainStep, ThreadStep, ThreadFault, vars, portVars, CreatePool, MainCount,
         MainScan, MainCreate, MainSpin, MainSend, MainCleanup, MainExit, MainError,
         Interrupt, MainReceive, UseAfterFree, Receive, RecvError, SendError, Bind,
         MarkReady, Accept, Reject, ReplyOk, ReplyEnd, Clear

LEMMA NextExclusive ==
  ASSUME SysInv, Sockets, AInv, ExclusiveFirst, [SysNext]_sysVars
  PROVE  ExclusiveFirst'
<1> SUFFICES ASSUME FirstGeneration', FreshMemory PROVE Exclusive'
  BY DEF ExclusiveFirst, FreshMemory
<1>0. /\ IInv /\ TypeOK /\ [Next]_vars
      /\ FirstGeneration /\ Exclusive /\ Aligned /\ Ports /\ Handing
  BY SysStepIsStep, FirstBefore DEF SysInv, IInv, ExclusiveFirst, AInv
<1>1. \A k \in DynamicSlot : k \in Slot /\ k >= MINTHREAD
  BY PoolAssumption DEF DynamicSlot, PoolSlot, Slot
<1>2. ASSUME NEW c \in Client, NEW k \in DynamicSlot, Holds(c, k)'
      PROVE  \/ Holds(c, k)
             \/ /\ MainAnswers /\ c = client /\ k = reply /\ flag[k]
                /\ \A d \in Client : ~Holds(d, k)
  <2>1. Holds(c, k) \/ (MainAnswers /\ c = client /\ k = reply)
    BY <1>1, <1>2, NextHolds DEF SysInv
  <2>2. ASSUME MainAnswers, k = reply
        PROVE  flag[k] /\ \A d \in Client : ~Holds(d, k)
    <3>1. mpc = "send"
      BY <2>2 DEF MainAnswers, MainSend, MainAt
    <3>2. HasPort(k)
      BY <1>0, <1>1, <2>2, <3>1 DEF Handing
    <3> QED BY <1>0, <2>2, <3>1, <3>2 DEF HasPort, Aligned, Exclusive
  <2> QED BY <2>1, <2>2
<1>3. \A c \in Client, k \in DynamicSlot : Holds(c, k)' => flag'[k]
  <2> TAKE c \in Client, k \in DynamicSlot
  <2> HAVE Holds(c, k)'
  <2>1. flag[k]
    BY <1>0, <1>2 DEF Exclusive
  <2> QED BY <1>0, <2>1, FlagKept
<1>4. \A c, d \in Client, k \in DynamicSlot : Holds(c, k)' /\ Holds(d, k)' => c = d
  BY <1>0, <1>2 DEF Exclusive
<1>5. ASSUME mpc' \in {"spin", "send"}, reply' \in DynamicSlot, NEW c \in Client
      PROVE  ~Holds(c, reply)'
  <2>1. ~MainAnswers
    BY <1>5 DEF MainAnswers, MainSend, NextTurn
  <2>2. \A k \in DynamicSlot : Holds(c, k)' => Holds(c, k)
    BY <1>2, <2>1
  <2>3. ~Holds(c, reply')
    <3>1. CASE mpc' = mpc /\ reply' = reply
      BY <1>0, <1>5, <3>1 DEF Exclusive
    <3>2. CASE mpc = "spin" /\ reply' = reply
      BY <1>0, <1>5, <3>2 DEF Exclusive
    <3>3. CASE MainCreate
      <4>1. reply' = count_threads /\ ~flag[reply']
        BY <1>0, <1>1, <1>5, <3>3, PoolAssumption
           DEF MainCreate, MainAt, Handing, Aligned, FlagSet, TypeOK, Slot
      <4> QED BY <1>0, <1>5, <4>1 DEF Exclusive
    <3>4. ASSUME NEW d \in Client, MainReceive(d) PROVE FALSE
      <4>1. reply' \in PoolSlot \/ mpc' = "count"
        BY <3>4 DEF MainReceive, FreePool
      <4> QED BY <1>5, <4>1 DEF DynamicSlot
    <3>5. CASE CreatePool \/ MainCount \/ MainScan \/ MainSend
      BY <1>5, <3>5 DEF CreatePool, MainCount, MainScan, MainSend, MainAt, NextTurn
    <3>6. CASE MainSpin
      BY <3>2, <3>6 DEF MainSpin, MainAt
    <3> QED
      BY <1>0, <3>1, <3>3, <3>4, <3>5, <3>6, <1>5
         DEF Next, MainStep, ThreadStep, ThreadFault, vars, mainVars, MainCleanup, MainExit,
             MainError, Interrupt, UseAfterFree, Receive, RecvError, SendError, Register,
             Bind, MarkReady, Accept, Reject, ReplyOk, ReplyEnd, EndFree, Clear, Unflag
  <2> QED BY <1>5, <2>2, <2>3
<1> QED BY <1>3, <1>4, <1>5 DEF Exclusive

-----------------------------------------------------------------------------
(* The pool is free when all is quiet.                                      *)

(* A thread's socket has the number of its slot, and no other thread has it. *)
OwnPorts ==
  /\ \A k \in PoolSlot : tinfo[k] = k
  /\ mpc \in {"scan", "create"} => tnum >= MINTHREAD
  /\ \A t \in PoolThread : sock[t] \in {NoSock, my_num[t]}
  /\ \A t, u \in Thread : sock[t] = sock[u] /\ sock[t] \in Slot => t = u
  /\ ~cexit

Early   == {"request", "answer", "greet"}
Reading == {"judge", "sendOk", "sendEnd"}

(* Thread t has a datagram of c to deal with.                               *)
Owes(t, c) ==
  \/ tpc[t] \in Reading /\ cur[t].from = c
  \/ \E m \in In(threadq[t]) : m.from = c

(* A client deals with one port from its greeting on.                       *)
OnePort ==
  /\ \A t \in Thread, c \in Client : Owes(t, c) => cpc[c] \notin Early /\ sock[t] = server[c]
  /\ \A c \in Client : \A m \in In(clientq[c]) :
       m.kind # "port" => cpc[c] \notin Early /\ m.source = server[c]

(* The greeting comes first of what a client sends to a thread.             *)
Ahead(t) ==
  /\ \A i, k \in DOMAIN threadq[t] :
       i < k /\ threadq[t][k].kind = "hello" => threadq[t][i].from # threadq[t][k].from
  /\ tpc[t] \in Reading =>
       \A m \in In(threadq[t]) : m.kind = "hello" => m.from # cur[t].from

HelloFirst == \A t \in Thread : Ahead(t)

(* c will send END to port p before it goes.                                *)
Engaged(c, p) ==
  /\ server[c] = p
  /\ cpc[c] \in {"input", "sent", "reply", "compare", "bye"}
  /\ msg[c] # "END"
  /\ \A m \in In(clientq[c]) : m.kind # "END"

EndComes(t) == \E m \in In(threadq[t]) : m.kind = "END"

(* A greeting that is on its way to a thread has an END behind it, or its   *)
(* client is still to send one.                                             *)
GreetDue(t) ==
  \A i \in DOMAIN threadq[t] : threadq[t][i].kind = "hello" =>
    \/ Engaged(threadq[t][i].from, sock[t])
    \/ \E k \in DOMAIN threadq[t] : i < k /\ threadq[t][k].kind = "END"

(* So has the one a thread is about to accept, and so has one that is busy. *)
JudgeDue(t) ==
  tpc[t] = "judge" /\ cur[t].kind = "hello" => Engaged(cur[t].from, sock[t]) \/ EndComes(t)

BusyAt(t) == check[t] => tpc[t] \in {"ready", "recv", "sendOk", "sendEnd", "endFree"}

BusyDue(t) ==
  check[t] /\ tpc[t] \in {"ready", "recv", "sendOk"} =>
    EndComes(t) \/ \E c \in Client : Engaged(c, sock[t])

Due(t) == GreetDue(t) /\ JudgeDue(t) /\ BusyAt(t) /\ BusyDue(t)

EndIsDue == \A t \in PoolThread : Due(t)

LEMMA NextOwnPorts ==
  ASSUME SysInv, Sockets, OwnPorts, [SysNext]_sysVars
  PROVE  OwnPorts'
<1>0. IInv /\ TypeOK /\ TypeOK'
  BY SysStepIsStep, NextInvariant DEF SysInv, IInv
<1>1. ~cexit'
  BY DEF SysNext, MainRuns, ThreadRuns, ClientRuns, sysVars, vars, procVars, MainLocal, MainGets,
     MainAnswers, ThreadLocal, ThreadGets, ThreadReplies, ThreadFrees, ClientStarts,
     ClientGreets, ClientTypes, ClientGets, ClientEnds, ClientLocal, ClientInput,
     CreatePool, MainCount, MainScan, MainCreate, MainSpin, MainSend, MainReceive,
     Register, Bind, MarkReady, Accept, Reject, Unflag, Receive, ReplyOk, ReplyEnd,
     EndFree, Clear, OwnPorts
<1>2. [Next]_vars
  BY SysStepIsStep DEF SysInv
<1>3. \A k \in PoolSlot : tinfo'[k] = k
  <2>1. CASE MainCreate
    <3>1. mpc = "create" /\ tinfo' = [tinfo EXCEPT ![tnum] = j]
      BY <2>1 DEF MainCreate, MainAt
    <3> QED BY <1>0, <3>1, PoolAssumption DEF OwnPorts, PoolSlot, TypeOK
  <2>2. CASE UNCHANGED tinfo
    BY <2>2 DEF OwnPorts
  <2> QED
    BY <1>2, <2>1, <2>2
       DEF Next, MainStep, ThreadStep, ThreadFault, vars, mainVars, CreatePool, MainCount,
           MainScan, MainSpin, MainSend, MainCleanup, MainExit, MainError, Interrupt,
           MainReceive, UseAfterFree, Receive, RecvError, SendError, Register, Bind,
           MarkReady, Accept, Reject, ReplyOk, ReplyEnd, EndFree, Clear, Unflag
<1>4. mpc' \in {"scan", "create"} => tnum' >= MINTHREAD
  <2>1. CASE MainCount
    <3>1. PoolFull
      BY <1>0, <2>1 DEF MainCount, MainAt, IInv, MainPastPool
    <3>2. IsFiniteSet(FlagSet) /\ count_threads \in Nat
      <4>1. IsFiniteSet(Slot) /\ FlagSet \subseteq Slot
        BY FS_Interval, PoolAssumption DEF FlagSet, Slot
      <4> QED BY <4>1, FS_Subset, FS_CardinalityType DEF count_threads
    <3>3. Cardinality(PoolSlot) = MINTHREAD
      BY FS_Interval, PoolAssumption DEF PoolSlot
    <3>4. count_threads >= MINTHREAD
      BY <3>1, <3>2, <3>3, FS_Subset, PoolAssumption DEF PoolFull, count_threads
    <3> QED BY <2>1, <3>4 DEF MainCount, MainAt, NextTurn
  <2>2. CASE MainScan
    BY <2>2 DEF MainScan, MainAt, OwnPorts
  <2>3. CASE UNCHANGED <<mpc, tnum>>
    BY <2>3 DEF OwnPorts
  <2>4. CASE mpc' \notin {"scan", "create"}
    BY <2>4
  <2>5. ASSUME CreatePool \/ MainCreate \/ MainSpin \/ MainSend \/ MainCleanup \/ MainError
                 \/ \E c \in Client : MainReceive(c)
        PROVE  mpc' \notin {"scan", "create"} \/ UNCHANGED <<mpc, tnum>>
    BY <2>5 DEF CreatePool, MainCreate, MainSpin, MainSend, MainCleanup, MainError,
       MainReceive, NextTurn
  <2>6. ASSUME \/ MainExit \/ Interrupt \/ UNCHANGED vars
               \/ (\E t \in Thread : ThreadStep(t) \/ ThreadFault(t))
               \/ (\E t \in Thread, m \in Datagram : Receive(t, m))
        PROVE  mpc' = "cleanup" \/ UNCHANGED <<mpc, tnum>>
    BY <2>6 DEF MainExit, Interrupt, ThreadStep, ThreadFault, vars, mainVars, UseAfterFree,
       Receive, RecvError, SendError, Register, Bind, MarkReady, Accept, Reject, ReplyOk,
       ReplyEnd, EndFree, Clear, Unflag
  <2> QED BY <1>2, <2>1, <2>2, <2>3, <2>4, <2>5, <2>6 DEF Next, MainStep
<1> DEFINE Own  == \A t \in PoolThread : sock[t] \in {NoSock, my_num[t]}
           Lone == \A t, u \in Thread : sock[t] = sock[u] /\ sock[t] \in Slot => t = u
<1>5. Own' /\ Lone'
  <2>0. PoolThread \subseteq Thread /\ NoSock \notin Slot
    BY PoolAssumption DEF PoolThread, Thread, NoSock, Slot
  <2>1. ASSUME NEW t \in Thread, Bind(t) PROVE Own' /\ Lone'
    <3>1. t \in PoolThread => ThreadNum(my_num[t]) = my_num[t]
      <4>1. t \in PoolThread => my_num[t] \in PoolSlot
        <5>1. t \in Registered
          BY <2>1 DEF Bind, Goto, Registered
        <5>2. my_num[t] \in Slot /\ (my_num[t] < MINTHREAD <=> t \in PoolThread)
          BY <1>0, <5>1 DEF IInv, Numbers, TypeOK
        <5> QED BY <5>2, PoolAssumption DEF PoolSlot, Slot
      <4> QED BY <4>1, PoolAssumption DEF ThreadNum, OwnPorts, PoolSlot
    <3>2. /\ UNCHANGED my_num
          /\ \/ UNCHANGED sock
             \/ /\ sock' = [sock EXCEPT ![t] = ThreadNum(my_num[t])]
                /\ ThreadNum(my_num[t]) \notin Taken \ {NoSock, Elsewhere}
      BY <2>1 DEF Bind
    <3>3. {NoSock, Elsewhere} \cap Slot = {}
      BY PoolAssumption DEF NoSock, Elsewhere, Slot
    <3> QED BY <1>0, <2>0, <3>1, <3>2, <3>3 DEF OwnPorts, TypeOK, Taken
  <2>2. ASSUME NEW t \in Thread, EndFree(t) \/ Clear(t) PROVE Own' /\ Lone'
    <3>1. UNCHANGED my_num /\ (UNCHANGED sock \/ sock' = [sock EXCEPT ![t] = NoSock])
      BY <2>2 DEF EndFree, Clear
    <3> QED BY <1>0, <2>0, <3>1 DEF OwnPorts, TypeOK
  <2>3. ASSUME NEW t \in Thread, Register(t) PROVE Own' /\ Lone'
    <3>1. UNCHANGED sock /\ tpc[t] = "start" /\ \A u \in Thread : u # t => my_num'[u] = my_num[u]
      BY <1>0, <2>3 DEF Register, Goto, TypeOK
    <3>2. sock[t] = NoSock
      BY <3>1 DEF Sockets
    <3> QED BY <2>0, <3>1, <3>2 DEF OwnPorts
  <2>4. CASE UNCHANGED <<sock, my_num>>
    BY <2>0, <2>4 DEF OwnPorts
  <2> QED
    BY <1>2, <2>1, <2>2, <2>3, <2>4
       DEF Next, MainStep, ThreadStep, ThreadFault, vars, threadVars, CreatePool, MainCount,
           MainScan, MainCreate, MainSpin, MainSend, MainCleanup, MainExit, MainError,
           Interrupt, MainReceive, UseAfterFree, Receive, RecvError, SendError,
           MarkReady, Accept, Reject, ReplyOk, ReplyEnd, Unflag
<1> QED BY <1>1, <1>3, <1>4, <1>5 DEF OwnPorts

(* What a client sends is put into the queue of the socket it sends to.     *)
LEMMA SentTo ==
  ASSUME SysTypeOK, NEW c \in Client, NEW k, SendToServer(c, k), NEW t \in Thread
  PROVE  /\ \/ threadq'[t] = threadq[t]
            \/ \E m : /\ m.from = c /\ m.kind = k /\ sock[t] = server[c]
                      /\ threadq'[t] = Append(threadq[t], m)
         /\ ~Lossy /\ sock[t] = server[c] /\ server[c] # MainPort =>
              \E m : m.from = c /\ m.kind = k /\ threadq'[t] = Append(threadq[t], m)
<1> DEFINE p == server[c]
           m == [from |-> c, kind |-> k, port |-> IF k = "hello" THEN p ELSE NoSock]
<1>1. m.from = c /\ m.kind = k
  OBVIOUS
<1>2. \/ p = MainPort /\ UNCHANGED threadq
      \/ /\ p # MainPort
         /\ threadq'[t] = IF sock[t] = p THEN Append(threadq[t], m) ELSE threadq[t]
      \/ Lossy /\ UNCHANGED threadq
  BY DEF SendToServer
<1> HIDE DEF m, p
<1>3. \/ threadq'[t] = threadq[t]
      \/ sock[t] = p /\ threadq'[t] = Append(threadq[t], m)
  BY <1>2
<1>4. ~Lossy /\ sock[t] = p /\ p # MainPort => threadq'[t] = Append(threadq[t], m)
  BY <1>2
<1> QED BY <1>1, <1>3, <1>4 DEF p

(* What the steps of a client do, those that send first.                    *)
LEMMA ClientSends ==
  ASSUME SysInv, NEW c \in Client,
         ClientStarts(c) \/ ClientGreets(c) \/ ClientTypes(c) \/ ClientEnds(c)
  PROVE  \E k :
    /\ SendToServer(c, k) /\ UNCHANGED <<vars, server>>
    /\ \A d \in Client : d # c =>
         cpc'[d] = cpc[d] /\ msg'[d] = msg[d] /\ clientq'[d] = clientq[d]
    /\ In(clientq'[c]) \subseteq In(clientq[c])
    /\ server[c] # MainPort => cpc'[c] \notin Early
    /\ cpc[c] \notin Early => cpc'[c] \notin Early
    /\ k = "hello" => cpc[c] = "greet" /\ msg'[c] = "hello" /\ cpc'[c] \in {"input", "bye"}
    /\ \/ k = "END"
       \/ /\ msg'[c] # "END"
          /\ cpc[c] \notin Early => cpc'[c] = "sent"
<1>0. SysTypeOK /\ Sends
  BY DEF SysInv
<1>1. CASE ClientStarts(c)
  <2>1. /\ SendToServer(c, "zero") /\ UNCHANGED <<vars, server, msg, clientq>>
        /\ cpc[c] = "request" /\ cpc' = [cpc EXCEPT ![c] = "answer"]
    BY <1>1 DEF ClientStarts, C!Request, C!At
  <2> QED BY <1>0, <2>1 DEF Sends, SysTypeOK, Early
<1>2. CASE ClientGreets(c)
  <2>1. /\ SendToServer(c, msg[c]) /\ UNCHANGED <<vars, server, msg, clientq>>
        /\ cpc[c] = "greet" /\ cpc' = [cpc EXCEPT ![c] = IF cint[c] THEN "bye" ELSE "input"]
    BY <1>2 DEF ClientGreets, C!Greet, C!LoopTest, C!At
  <2>2. cpc'[c] \in {"input", "bye"} /\ msg[c] \in {"hello", "zero"}
        /\ \A d \in Client : d # c => cpc'[d] = cpc[d]
    BY <1>0, <2>1 DEF Sends, SysTypeOK
  <2> QED BY <2>1, <2>2 DEF Early
<1>3. CASE ClientTypes(c)
  <2>1. PICK w \in {"text", "END"} : C!Word(c, w) /\ SendToServer(c, w)
    BY <1>3 DEF ClientTypes
  <2>2. /\ UNCHANGED <<vars, server, clientq>> /\ cpc[c] = "input"
        /\ cpc' = [cpc EXCEPT ![c] = "sent"] /\ msg' = [msg EXCEPT ![c] = w]
    BY <1>3, <2>1 DEF ClientTypes, C!Word, C!At
  <2>3. /\ cpc'[c] = "sent" /\ msg'[c] = w
        /\ \A d \in Client : d # c => cpc'[d] = cpc[d] /\ msg'[d] = msg[d]
    BY <1>0, <2>2 DEF SysTypeOK
  <2> QED BY <2>1, <2>2, <2>3 DEF Early
<1>4. CASE ClientEnds(c)
  <2>1. /\ SendToServer(c, "END") /\ UNCHANGED <<vars, server>> /\ cpc[c] = "bye"
        /\ cpc' = [cpc EXCEPT ![c] = "done"] /\ msg' = [msg EXCEPT ![c] = "END"]
        /\ clientq' = [clientq EXCEPT ![c] = <<>>]
    BY <1>4 DEF ClientEnds, C!Bye, C!At
  <2>2. /\ cpc'[c] = "done" /\ clientq'[c] = <<>>
        /\ \A d \in Client : d # c =>
             cpc'[d] = cpc[d] /\ msg'[d] = msg[d] /\ clientq'[d] = clientq[d]
    BY <1>0, <2>1 DEF SysTypeOK
  <2> QED BY <2>1, <2>2, QueueEmpty DEF Early
<1> QED BY <1>1, <1>2, <1>3, <1>4

(* Those that neither send nor receive; only END ends a client.             *)
LEMMA ClientMoves ==
  ASSUME SysInv, NEW c \in Client, ClientLocal(c) \/ ClientInput(c)
  PROVE  /\ UNCHANGED <<vars, server, msg, threadq>>
         /\ \A d \in Client : d # c => cpc'[d] = cpc[d] /\ clientq'[d] = clientq[d]
         /\ In(clientq'[c]) \subseteq In(clientq[c])
         /\ cpc[c] \notin Early => cpc'[c] \notin Early
         /\ cpc'[c] = "done" => cpc[c] = "done" \/ msg[c] = "END"
<1>0. SysTypeOK
  BY DEF SysInv
<1>1. CASE ClientLocal(c)
  <2>1. /\ UNCHANGED <<vars, server, msg, threadq>>
        /\ \/ UNCHANGED clientq
           \/ clientq' = [clientq EXCEPT ![c] = <<>>]
           \/ clientq' = [clientq EXCEPT ![c] = @]
    BY <1>1 DEF ClientLocal, C!Sent, C!Compare
  <2>2. \A d \in Client : d # c => cpc'[d] = cpc[d] /\ clientq'[d] = clientq[d]
    BY <1>0, <1>1, <2>1 DEF ClientLocal, C!Sent, C!Compare, C!At, SysTypeOK
  <2>3. In(clientq'[c]) \subseteq In(clientq[c])
    BY <1>0, <2>1, QueueEmpty DEF SysTypeOK
  <2>4. /\ cpc'[c] \notin Early
        /\ cpc'[c] = "done" => msg[c] = "END"
    BY <1>0, <1>1 DEF ClientLocal, C!Sent, C!Compare, C!LoopTest, C!At, SysTypeOK, Early
  <2> QED BY <2>1, <2>2, <2>3, <2>4
<1>2. CASE ClientInput(c)
  <2>1. UNCHANGED <<vars, server, msg, threadq, clientq>>
    BY <1>2 DEF ClientInput, C!Eof, C!Interrupt, netVars
  <2>2. /\ \A d \in Client : d # c => cpc'[d] = cpc[d]
        /\ cpc[c] \notin Early => cpc'[c] \notin Early
        /\ cpc'[c] # "done"
    BY <1>0, <1>2 DEF ClientInput, C!Eof, C!Interrupt, C!At, SysTypeOK, Early
  <2> QED BY <2>1, <2>2
<1> QED BY <1>1, <1>2

(* What the server does to the clients, and to the threads, when it does    *)
(* not receive or send.                                                     *)
LEMMA MainLeaves ==
  ASSUME SysInv, MainLocal \/ MainGets \/ MainAnswers
  PROVE  /\ UNCHANGED <<cur, sock, check, my_num, threadq, clientVars>>
         /\ \A t \in Thread : tpc'[t] = tpc[t] \/ (tpc[t] = "none" /\ tpc'[t] = "start")
         /\ \/ UNCHANGED clientq
            \/ SendToClient(client, [kind |-> "port", port |-> reply, source |-> MainPort])
<1>1. CASE MainGets
  BY <1>1 DEF MainGets, MainReceive, threadVars
<1>2. CASE MainAnswers
  BY <1>2 DEF MainAnswers, MainSend, threadVars
<1>3. CASE MainLocal
  <2>1. /\ UNCHANGED <<cur, sock, check, my_num, threadq, clientVars, clientq>>
        /\ tpc' = tpc \/ tpc' = [tpc EXCEPT ![created + 1] = "start"]
    BY <1>3 DEF MainLocal, CreatePool, MainCount, MainScan, MainCreate, MainSpin,
       Spawn, threadVars, netVars
  <2>2. tpc \in [Thread -> TPC] /\ (created + 1 \in Thread => tpc[created + 1] = "none")
    BY DEF SysInv, IInv, TypeOK, Creation
  <2> QED BY <2>1, <2>2
<1> QED BY <1>1, <1>2, <1>3

LEMMA Answered ==
  ASSUME SysTypeOK, NEW d \in Client, NEW m, SendToClient(d, m), NEW c \in Client
  PROVE  \/ clientq'[c] = clientq[c]
         \/ c = d /\ cpc[c] # "done" /\ In(clientq'[c]) = In(clientq[c]) \cup {m}
<1>1. In(Append(clientq[d], m)) = In(clientq[d]) \cup {m}
  BY QueuePut DEF SysTypeOK
<1>2. \/ UNCHANGED clientq
      \/ cpc[d] # "done" /\ clientq' = [clientq EXCEPT ![d] = Append(@, m)]
  BY DEF SendToClient
<1> QED BY <1>1, <1>2 DEF SysTypeOK

(* A step that leaves the clients alone and makes no thread owe more.       *)
LEMMA OnePortKept ==
  ASSUME OnePort, SysTypeOK, UNCHANGED <<cpc, server>>,
         \A t \in Thread, c \in Client : Owes(t, c)' => Owes(t, c) /\ sock'[t] = sock[t],
         \A c \in Client : \A m \in In(clientq'[c]) :
           \/ m \in In(clientq[c]) \/ m.kind = "port"
           \/ cpc[c] \notin Early /\ m.source = server[c]
  PROVE  OnePort'
BY DEF OnePort

LEMMA NextOnePort ==
  ASSUME SysInv, Sockets, OnePort, [SysNext]_sysVars
  PROVE  OnePort'
<1>0. SysTypeOK /\ TypeOK /\ Sends
  BY DEF SysInv, IInv
<1>1. CASE UNCHANGED sysVars
  BY <1>1 DEF sysVars, vars, threadVars, clientVars, netVars, OnePort, Owes
<1>2. CASE MainLocal \/ MainGets \/ MainAnswers
  <2>1. /\ UNCHANGED <<cur, sock, threadq, cpc, server>>
        /\ \A t \in Thread : tpc'[t] = tpc[t] \/ (tpc[t] = "none" /\ tpc'[t] = "start")
        /\ \/ UNCHANGED clientq
           \/ SendToClient(client, [kind |-> "port", port |-> reply, source |-> MainPort])
    BY <1>2, MainLeaves DEF clientVars
  <2>2. \A t \in Thread, c \in Client : Owes(t, c)' => Owes(t, c)
    BY <2>1 DEF Owes, Reading
  <2>3. \A c \in Client : \A m \in In(clientq'[c]) : m \in In(clientq[c]) \/ m.kind = "port"
    <3> DEFINE e == [kind |-> "port", port |-> reply, source |-> MainPort]
    <3>1. e.kind = "port" /\ client \in Client
      BY <1>0 DEF TypeOK
    <3> HIDE DEF e
    <3> TAKE c \in Client
    <3>2. CASE SendToClient(client, e)
      BY <1>0, <3>1, <3>2, Answered
    <3> QED BY <2>1, <3>2 DEF e
  <2> QED BY <1>0, <2>1, <2>2, <2>3, OnePortKept
<1>3. ASSUME NEW t \in Thread, ThreadLocal(t) PROVE OnePort'
  <2>1. UNCHANGED <<threadq, cpc, server, clientq>>
    BY <1>3 DEF ThreadLocal, clientVars, netVars
  <2>2. /\ \A u \in Thread : u # t => tpc'[u] = tpc[u] /\ sock'[u] = sock[u] /\ cur'[u] = cur[u]
        /\ \/ tpc'[t] \notin Reading
           \/ tpc[t] \in Reading /\ cur'[t] = cur[t]
        /\ sock'[t] = sock[t] \/ tpc[t] = "bind"
    BY <1>0, <1>3 DEF ThreadLocal, Register, Bind, MarkReady, Accept, Reject, Unflag, Goto,
       TypeOK, Reading
  <2>3. \A c \in Client : ~Owes(t, c) \/ tpc[t] # "bind"
    BY QueueEmpty DEF Owes, Sockets, Reading
  <2>4. \A u \in Thread, c \in Client : Owes(u, c)' => Owes(u, c) /\ sock'[u] = sock[u]
    BY <2>1, <2>2, <2>3 DEF Owes
  <2> QED BY <1>0, <2>1, <2>4, OnePortKept
<1>4. ASSUME NEW t \in Thread, ThreadGets(t) PROVE OnePort'
  <2>1. /\ Head(threadq[t]) \in In(threadq[t]) /\ In(Tail(threadq[t])) \subseteq In(threadq[t])
    BY <1>0, <1>4, QueueTail DEF ThreadGets, SysTypeOK
  <2>2. /\ UNCHANGED <<sock, cpc, server, clientq>>
        /\ \A u \in Thread : u # t => tpc'[u] = tpc[u] /\ cur'[u] = cur[u]
                                    /\ threadq'[u] = threadq[u]
        /\ cur'[t] = Head(threadq[t]) /\ threadq'[t] = Tail(threadq[t])
    BY <1>0, <1>4 DEF ThreadGets, Receive, Goto, clientVars, TypeOK, SysTypeOK
  <2>3. \A u \in Thread, c \in Client : Owes(u, c)' => Owes(u, c)
    BY <2>1, <2>2 DEF Owes
  <2> QED BY <1>0, <2>2, <2>3, OnePortKept
<1>5. ASSUME NEW t \in Thread, ThreadReplies(t) PROVE OnePort'
  <2>1. PICK w \in {"ok", "END"} :
          SendToClient(cur[t].from, [kind |-> w, port |-> NoSock, source |-> sock[t]])
    BY <1>5 DEF ThreadReplies
  <2>2. /\ UNCHANGED <<sock, threadq, cpc, server>> /\ tpc[t] \in Reading
        /\ \A u \in Thread : u # t => tpc'[u] = tpc[u] /\ cur'[u] = cur[u]
        /\ tpc'[t] \notin Reading
    BY <1>0, <1>5 DEF ThreadReplies, ReplyOk, ReplyEnd, Goto, clientVars, TypeOK, Reading
  <2>3. cur[t].from \in Client
    BY <1>0, PoolAssumption DEF TypeOK, Datagram, NoMsg
  <2>4. \A u \in Thread, c \in Client : Owes(u, c)' => Owes(u, c)
    BY <2>2 DEF Owes
  <2>5. cpc[cur[t].from] \notin Early /\ sock[t] = server[cur[t].from]
    BY <2>2, <2>3 DEF OnePort, Owes
  <2>6. \A c \in Client : \A m \in In(clientq'[c]) :
          m \in In(clientq[c]) \/ (cpc[c] \notin Early /\ m.source = server[c])
    BY <1>0, <2>1, <2>3, <2>5, Answered
  <2> QED BY <1>0, <2>2, <2>4, <2>6, OnePortKept
<1>6. ASSUME NEW t \in Thread, ThreadFrees(t) PROVE OnePort'
  <2>1. /\ UNCHANGED <<cpc, server, clientq, cur>>
        /\ \A u \in Thread : u # t => tpc'[u] = tpc[u] /\ sock'[u] = sock[u]
                                    /\ threadq'[u] = threadq[u]
        /\ threadq'[t] = <<>> \/ (sock'[t] = sock[t] /\ threadq'[t] = threadq[t])
        /\ tpc'[t] \notin Reading
    BY <1>0, <1>6 DEF ThreadFrees, EndFree, Clear, Goto, clientVars, TypeOK, SysTypeOK, Reading
  <2>2. \A u \in Thread, c \in Client : Owes(u, c)' => Owes(u, c) /\ sock'[u] = sock[u]
    BY <2>1, QueueEmpty DEF Owes
  <2> QED BY <1>0, <2>1, <2>2, OnePortKept
<1>7. ASSUME NEW c \in Client,
             ClientStarts(c) \/ ClientGreets(c) \/ ClientTypes(c) \/ ClientEnds(c)
      PROVE  OnePort'
  <2>1. PICK k :
          /\ SendToServer(c, k) /\ UNCHANGED <<vars, server>>
          /\ \A d \in Client : d # c => cpc'[d] = cpc[d] /\ clientq'[d] = clientq[d]
          /\ In(clientq'[c]) \subseteq In(clientq[c])
          /\ server[c] # MainPort => cpc'[c] \notin Early
          /\ cpc[c] \notin Early => cpc'[c] \notin Early
    BY <1>7, ClientSends
  <2>2. \A t \in Thread, d \in Client : Owes(t, d)' =>
          Owes(t, d) \/ (d = c /\ sock[t] = server[c])
    <3> TAKE t \in Thread, d \in Client
    <3>1. \/ threadq'[t] = threadq[t]
          \/ \E m : m.from = c /\ sock[t] = server[c] /\ threadq'[t] = Append(threadq[t], m)
      BY <1>0, <2>1, SentTo
    <3>2. \A m : In(Append(threadq[t], m)) = In(threadq[t]) \cup {m}
      BY <1>0, QueuePut DEF SysTypeOK
    <3> QED BY <2>1, <3>1, <3>2 DEF Owes, vars, threadVars
  <2>3. \A t \in Thread : sock[t] # MainPort
    <3>1. MainPort \notin Slot \cup {NoSock, Elsewhere}
      BY PoolAssumption DEF Slot, NoSock, Elsewhere, MainPort
    <3> QED BY <1>0, <3>1 DEF TypeOK
  <2>4. UNCHANGED sock
    BY <2>1 DEF vars, threadVars
  <2> QED BY <2>1, <2>2, <2>3, <2>4 DEF OnePort
<1>8. ASSUME NEW c \in Client, ClientGets(c) PROVE OnePort'
  <2> DEFINE m == Head(clientq[c])
  <2>1. m \in In(clientq[c]) /\ In(Tail(clientq[c])) \subseteq In(clientq[c])
    BY <1>0, <1>8, QueueTail DEF ClientGets, SysTypeOK
  <2>2. /\ UNCHANGED <<vars, threadq>> /\ clientq'[c] = Tail(clientq[c])
        /\ \A d \in Client : d # c =>
             cpc'[d] = cpc[d] /\ server'[d] = server[d] /\ clientq'[d] = clientq[d]
    BY <1>0, <1>8 DEF ClientGets, C!Answer, C!Reply, C!At, SysTypeOK
  <2>3. \/ cpc[c] \in Early
        \/ cpc'[c] \notin Early /\ m.kind # "port" /\ server'[c] = m.source
    BY <1>0, <1>8 DEF ClientGets, C!Answer, C!Reply, C!At, SysTypeOK, Early
  <2>4. \A t \in Thread, d \in Client : Owes(t, d)' => Owes(t, d)
    BY <2>2 DEF Owes, vars, threadVars
  <2>5. UNCHANGED sock
    BY <2>2 DEF vars, threadVars
  <2>6. cpc[c] \notin Early => server'[c] = server[c]
    BY <2>1, <2>3 DEF OnePort
  <2> QED BY <2>1, <2>2, <2>3, <2>4, <2>5, <2>6 DEF OnePort
<1>9. ASSUME NEW c \in Client, ClientLocal(c) \/ ClientInput(c) PROVE OnePort'
  <2>1. /\ UNCHANGED <<vars, server, threadq>>
        /\ \A d \in Client : d # c => cpc'[d] = cpc[d] /\ clientq'[d] = clientq[d]
        /\ In(clientq'[c]) \subseteq In(clientq[c])
        /\ cpc[c] \notin Early => cpc'[c] \notin Early
    BY <1>9, ClientMoves
  <2>2. UNCHANGED sock /\ \A t \in Thread, d \in Client : Owes(t, d)' => Owes(t, d)
    BY <2>1 DEF Owes, vars, threadVars
  <2> QED BY <2>1, <2>2 DEF OnePort
<1> QED
  BY <1>1, <1>2, <1>3, <1>4, <1>5, <1>6, <1>7, <1>8, <1>9
     DEF SysNext, MainRuns, ThreadRuns, ClientRuns

(* What the step of a thread does to another, and to its own datagrams.     *)
LEMMA ThreadActs ==
  ASSUME SysInv, NEW t \in Thread, ThreadRuns(t)
  PROVE  /\ UNCHANGED <<cpc, msg, server, cint>>
         /\ \A u \in Thread : u # t =>
              /\ tpc'[u] = tpc[u] /\ cur'[u] = cur[u] /\ sock'[u] = sock[u]
              /\ check'[u] = check[u] /\ threadq'[u] = threadq[u]
         /\ \/ threadq'[t] = threadq[t] /\ sock'[t] = sock[t]
            \/ threadq'[t] = threadq[t] /\ tpc[t] = "bind"
            \/ threadq'[t] = <<>>
            \/ ThreadGets(t)
         /\ \/ tpc'[t] \notin Reading
            \/ tpc[t] = "judge" /\ tpc'[t] = "sendOk" /\ cur'[t] = cur[t]
            \/ ThreadGets(t)
<1>0. SysTypeOK /\ TypeOK
  BY DEF SysInv, IInv
<1>1. CASE ThreadLocal(t)
  BY <1>0, <1>1 DEF ThreadLocal, Register, Bind, MarkReady, Accept, Reject, Unflag, Goto,
     TypeOK, Reading, clientVars, netVars
<1>2. CASE ThreadGets(t)
  BY <1>0, <1>2 DEF ThreadGets, Receive, Goto, TypeOK, SysTypeOK, clientVars
<1>3. CASE ThreadReplies(t)
  BY <1>0, <1>3 DEF ThreadReplies, ReplyOk, ReplyEnd, Goto, TypeOK, Reading, clientVars
<1>4. CASE ThreadFrees(t)
  BY <1>0, <1>4 DEF ThreadFrees, EndFree, Clear, Goto, TypeOK, SysTypeOK, Reading, clientVars
<1> QED BY <1>1, <1>2, <1>3, <1>4 DEF ThreadRuns

LEMMA NextHelloFirst ==
  ASSUME SysInv, Sockets, OnePort, HelloFirst, [SysNext]_sysVars
  PROVE  HelloFirst'
<1>0. SysTypeOK /\ TypeOK
  BY DEF SysInv, IInv
<1> SUFFICES ASSUME NEW t \in Thread PROVE Ahead(t)'
  BY DEF HelloFirst
<1>t. Ahead(t) /\ threadq[t] \in Seq(Datagram)
  BY <1>0 DEF HelloFirst, SysTypeOK
<1>1. ASSUME threadq'[t] = threadq[t],
             tpc'[t] \notin Reading \/ (tpc[t] \in Reading /\ cur'[t] = cur[t])
      PROVE  Ahead(t)'
  BY <1>1, <1>t DEF Ahead
<1>2. ASSUME threadq'[t] = <<>> PROVE Ahead(t)'
  BY <1>2, QueueEmpty DEF Ahead
<1>3. CASE ThreadGets(t)
  <2> DEFINE q == threadq[t]
  <2>1. q # <<>> /\ threadq'[t] = Tail(q) /\ cur'[t] = Head(q)
    BY <1>0, <1>3 DEF ThreadGets, Receive, TypeOK, SysTypeOK
  <2>2. /\ Len(q) \in Nat \ {0} /\ DOMAIN q = 1 .. Len(q) /\ Head(q) = q[1]
        /\ DOMAIN Tail(q) = 1 .. Len(q) - 1
        /\ \A i \in 1 .. Len(q) - 1 : Tail(q)[i] = q[i + 1]
    BY <1>t, <2>1, QueueGet
  <2>3. \A i, k \in DOMAIN q : i < k /\ q[k].kind = "hello" => q[i].from # q[k].from
    BY <1>t DEF Ahead
  <2> HIDE DEF q
  <2>4. \A i, k \in DOMAIN Tail(q) :
          i < k /\ Tail(q)[k].kind = "hello" => Tail(q)[i].from # Tail(q)[k].from
    BY <2>2, <2>3
  <2>5. \A m \in In(Tail(q)) : m.kind = "hello" => m.from # Head(q).from
    BY <2>2, <2>3 DEF In
  <2> QED BY <2>1, <2>4, <2>5 DEF Ahead
<1>4. ASSUME NEW u \in Thread, ThreadRuns(u) PROVE Ahead(t)'
  <2>1. CASE u # t
    BY <1>1, <1>4, <2>1, ThreadActs
  <2>2. CASE u = t
    BY <1>1, <1>2, <1>3, <1>4, <2>2, ThreadActs DEF Reading
  <2> QED BY <2>1, <2>2
<1>5. CASE MainLocal \/ MainGets \/ MainAnswers
  BY <1>1, <1>5, MainLeaves DEF Reading
<1>6. ASSUME NEW c \in Client,
             ClientStarts(c) \/ ClientGreets(c) \/ ClientTypes(c) \/ ClientEnds(c)
      PROVE  Ahead(t)'
  <2>1. PICK k : /\ SendToServer(c, k) /\ UNCHANGED vars
                 /\ k = "hello" => cpc[c] = "greet"
    BY <1>6, ClientSends
  <2>2. tpc'[t] = tpc[t] /\ cur'[t] = cur[t]
    BY <2>1 DEF vars, threadVars
  <2>3. CASE threadq'[t] = threadq[t]
    BY <1>1, <2>2, <2>3
  <2>4. ASSUME NEW m, m.from = c, m.kind = k, threadq'[t] = Append(threadq[t], m)
        PROVE  Ahead(t)'
    <3> DEFINE q == threadq[t]
    <3>1. /\ In(Append(q, m)) = In(q) \cup {m}
          /\ Len(q) \in Nat /\ DOMAIN q = 1 .. Len(q)
          /\ DOMAIN Append(q, m) = 1 .. Len(q) + 1
          /\ \A i \in 1 .. Len(q) : Append(q, m)[i] = q[i]
          /\ Append(q, m)[Len(q) + 1] = m
      BY <1>t, QueuePut
    <3>2. m.kind = "hello" => ~Owes(t, c)
      BY <2>1, <2>4 DEF OnePort, Early
    <3>3. m.kind = "hello" => \A i \in DOMAIN q : q[i].from # c
      BY <3>2 DEF Owes, In
    <3>4. m.kind = "hello" /\ tpc[t] \in Reading => cur[t].from # c
      BY <3>2 DEF Owes
    <3>5. /\ \A i, l \in DOMAIN q : i < l /\ q[l].kind = "hello" => q[i].from # q[l].from
          /\ tpc[t] \in Reading => \A e \in In(q) : e.kind = "hello" => e.from # cur[t].from
      BY <1>t DEF Ahead
    <3> HIDE DEF q
    <3>6. \A i, l \in DOMAIN Append(q, m) :
            i < l /\ Append(q, m)[l].kind = "hello" => Append(q, m)[i].from # Append(q, m)[l].from
      BY <2>4, <3>1, <3>3, <3>5
    <3>7. tpc[t] \in Reading =>
            \A e \in In(Append(q, m)) : e.kind = "hello" => e.from # cur[t].from
      BY <2>4, <3>1, <3>4, <3>5
    <3> QED BY <2>2, <2>4, <3>6, <3>7 DEF Ahead, q
  <2> QED BY <1>0, <2>1, <2>3, <2>4, SentTo
<1>7. ASSUME NEW c \in Client, ClientGets(c) \/ ClientLocal(c) \/ ClientInput(c)
      PROVE  Ahead(t)'
  <2>1. UNCHANGED <<vars, threadq>>
    BY <1>7, ClientMoves DEF ClientGets
  <2> QED BY <1>1, <2>1 DEF vars, threadVars
<1>8. CASE UNCHANGED sysVars
  BY <1>1, <1>8 DEF sysVars, vars, threadVars, netVars
<1> QED
  BY <1>4, <1>5, <1>6, <1>7, <1>8 DEF SysNext, MainRuns, ClientRuns

(* Who is to send END still is, or has sent it, or was answered END.        *)
LEMMA EngagedKept ==
  ASSUME SysInv, OnePort, OwnPorts, ~Lossy, [SysNext]_sysVars,
         NEW c \in Client, NEW t \in Thread, NEW p \in Slot, sock[t] = p, Engaged(c, p)
  PROVE  \/ Engaged(c, p)'
         \/ \E m : m.kind = "END" /\ threadq'[t] = Append(threadq[t], m)
         \/ (ThreadReplies(t) /\ tpc[t] = "sendEnd" /\ cur[t].from = c)
<1>0. SysTypeOK /\ TypeOK /\ SysTypeOK'
  BY NextSysTyped DEF SysInv, IInv
<1>e. /\ server[c] = p /\ p # MainPort /\ cpc[c] \notin Early /\ msg[c] # "END"
      /\ cpc[c] \in {"input", "sent", "reply", "compare", "bye"}
      /\ \A m \in In(clientq[c]) : m.kind # "END"
  BY PoolAssumption DEF Engaged, Early, Slot, MainPort
<1>1. ASSUME cpc'[c] \notin Early \cup {"done"}, msg'[c] # "END", server'[c] = p,
             \A m \in In(clientq'[c]) : m.kind # "END"
      PROVE  Engaged(c, p)'
  BY <1>0, <1>1 DEF Engaged, Early, SysTypeOK, CPC
<1>2. ASSUME cpc'[c] = cpc[c], msg'[c] = msg[c], server'[c] = server[c],
             \A m \in In(clientq'[c]) : m \in In(clientq[c]) \/ m.kind # "END"
      PROVE  Engaged(c, p)'
  BY <1>1, <1>2, <1>e
<1>3. CASE UNCHANGED sysVars
  BY <1>2, <1>3 DEF sysVars, clientVars, netVars
<1>4. CASE MainLocal \/ MainGets \/ MainAnswers
  <2> DEFINE e == [kind |-> "port", port |-> reply, source |-> MainPort]
  <2>1. /\ UNCHANGED <<cpc, msg, server>>
        /\ UNCHANGED clientq \/ SendToClient(client, e)
    BY <1>4, MainLeaves DEF clientVars
  <2>2. e.kind # "END" /\ client \in Client
    BY <1>0 DEF TypeOK
  <2> HIDE DEF e
  <2>3. \A m \in In(clientq'[c]) : m \in In(clientq[c]) \/ m.kind # "END"
    <3>1. CASE SendToClient(client, e)
      BY <1>0, <2>2, <3>1, Answered
    <3> QED BY <2>1, <3>1
  <2> QED BY <1>2, <2>1, <2>3
<1>5. ASSUME NEW u \in Thread, ThreadReplies(u)
      PROVE  Engaged(c, p)' \/ (u = t /\ tpc[t] = "sendEnd" /\ cur[t].from = c)
  <2>1. PICK w \in {"ok", "END"} :
          /\ IF w = "ok" THEN ReplyOk(u) ELSE ReplyEnd(u)
          /\ SendToClient(cur[u].from, [kind |-> w, port |-> NoSock, source |-> sock[u]])
    BY <1>5 DEF ThreadReplies
  <2> DEFINE e == [kind |-> w, port |-> NoSock, source |-> sock[u]]
  <2>2. UNCHANGED <<cpc, msg, server>> /\ cur[u].from \in Client
    BY <1>0, <1>5, PoolAssumption DEF ThreadReplies, clientVars, TypeOK, Datagram, NoMsg
  <2>3. e.kind = w /\ SendToClient(cur[u].from, e)
    BY <2>1
  <2> HIDE DEF e
  <2>4. clientq'[c] = clientq[c] \/ (c = cur[u].from /\ In(clientq'[c]) = In(clientq[c]) \cup {e})
    BY <1>0, <2>2, <2>3, Answered
  <2>5. CASE w = "ok" \/ c # cur[u].from
    BY <1>2, <2>2, <2>3, <2>4, <2>5
  <2>6. CASE w = "END" /\ c = cur[u].from
    <3>1. tpc[u] = "sendEnd"
      BY <2>1, <2>6 DEF ReplyEnd, Goto
    <3>2. sock[u] = p
      BY <1>e, <2>6, <3>1 DEF OnePort, Owes, Reading
    <3>3. u = t
      BY <3>2 DEF OwnPorts
    <3> QED BY <2>6, <3>1, <3>3
  <2> QED BY <2>5, <2>6
<1>6. ASSUME NEW u \in Thread, ThreadLocal(u) \/ ThreadGets(u) \/ ThreadFrees(u)
      PROVE  Engaged(c, p)'
  <2>1. UNCHANGED <<cpc, msg, server, clientq>>
    BY <1>6 DEF ThreadLocal, ThreadGets, ThreadFrees, clientVars, netVars
  <2> QED BY <1>2, <2>1
<1>7. ASSUME NEW d \in Client,
             ClientStarts(d) \/ ClientGreets(d) \/ ClientTypes(d) \/ ClientEnds(d)
      PROVE  \/ Engaged(c, p)'
             \/ \E m : m.kind = "END" /\ threadq'[t] = Append(threadq[t], m)
  <2>1. PICK k :
          /\ SendToServer(d, k) /\ UNCHANGED server
          /\ \A b \in Client : b # d =>
               cpc'[b] = cpc[b] /\ msg'[b] = msg[b] /\ clientq'[b] = clientq[b]
          /\ In(clientq'[d]) \subseteq In(clientq[d])
          /\ \/ k = "END"
             \/ msg'[d] # "END" /\ (cpc[d] \notin Early => cpc'[d] = "sent")
    BY <1>7, ClientSends
  <2>2. CASE c # d
    BY <1>2, <2>1, <2>2
  <2>3. CASE c = d /\ k = "END"
    BY <1>0, <1>e, <2>1, <2>3, SentTo
  <2>4. CASE c = d /\ k # "END"
    <3>1. cpc'[c] = "sent" /\ msg'[c] # "END" /\ server'[c] = p
      BY <1>e, <2>1, <2>4
    <3> QED BY <1>1, <1>e, <2>1, <2>4, <3>1 DEF Early
  <2> QED BY <2>2, <2>3, <2>4
<1>8. ASSUME NEW d \in Client, ClientGets(d) PROVE Engaged(c, p)'
  <2> DEFINE m == Head(clientq[d])
  <2>1. m \in In(clientq[d]) /\ In(Tail(clientq[d])) \subseteq In(clientq[d])
    BY <1>0, <1>8, QueueTail DEF ClientGets, SysTypeOK
  <2>2. /\ clientq'[d] = Tail(clientq[d])
        /\ \A b \in Client : b # d =>
             /\ cpc'[b] = cpc[b] /\ msg'[b] = msg[b] /\ server'[b] = server[b]
             /\ clientq'[b] = clientq[b]
    BY <1>0, <1>8 DEF ClientGets, C!Answer, C!Reply, C!At, SysTypeOK
  <2>3. CASE c # d
    BY <1>2, <2>2, <2>3
  <2>4. CASE c = d
    <3>1. /\ m.kind # "port" /\ cpc'[c] = "compare" /\ msg'[c] = m.kind
          /\ server'[c] = m.source
      BY <1>0, <1>8, <1>e, <2>4 DEF ClientGets, C!Answer, C!Reply, C!At, SysTypeOK, Early
    <3>2. m.source = server[c] /\ m.kind # "END"
      BY <1>e, <2>1, <2>4, <3>1 DEF OnePort
    <3> QED BY <1>1, <1>e, <2>1, <2>2, <2>4, <3>1, <3>2 DEF Early
  <2> QED BY <2>3, <2>4
<1>9. ASSUME NEW d \in Client, ClientLocal(d) \/ ClientInput(d) PROVE Engaged(c, p)'
  <2>1. /\ UNCHANGED <<server, msg>>
        /\ \A b \in Client : b # d => cpc'[b] = cpc[b] /\ clientq'[b] = clientq[b]
        /\ In(clientq'[d]) \subseteq In(clientq[d])
        /\ cpc[d] \notin Early => cpc'[d] \notin Early
        /\ cpc'[d] = "done" => cpc[d] = "done" \/ msg[d] = "END"
    BY <1>9, ClientMoves
  <2>2. CASE c # d
    BY <1>2, <2>1, <2>2
  <2>3. CASE c = d
    BY <1>1, <1>e, <2>1, <2>3
  <2> QED BY <2>2, <2>3
<1> QED
  BY <1>3, <1>4, <1>5, <1>6, <1>7, <1>8, <1>9
     DEF SysNext, MainRuns, ThreadRuns, ClientRuns

QuietParts == SysInv /\ Sockets /\ OwnPorts /\ OnePort /\ HelloFirst /\ EndIsDue

(* A pool thread past its binding has a port of the pool.                   *)
LEMMA PoolPort ==
  ASSUME QuietParts, NEW t \in PoolThread
  PROVE  /\ t \in Thread
         /\ sock[t] # NoSock => sock[t] \in Slot
         /\ threadq[t] # <<>> => sock[t] # NoSock
<1>1. PoolThread \subseteq Thread
  BY PoolAssumption DEF PoolThread, Thread
<1>2. my_num[t] \in Slot
  BY <1>1 DEF QuietParts, SysInv, IInv, TypeOK
<1> QED BY <1>1, <1>2 DEF QuietParts, OwnPorts, Sockets

(* A greeting has its END behind it, or its client is still to send it,     *)
(* while the thread does not read its queue.                                *)
LEMMA GreetKept ==
  ASSUME QuietParts, ~Lossy, [SysNext]_sysVars,
         NEW t \in PoolThread, NEW p \in Slot, sock[t] = p,
         threadq'[t] = threadq[t] \/ (\E m : threadq'[t] = Append(threadq[t], m)),
         NEW i \in DOMAIN threadq[t], threadq[t][i].kind = "hello",
         NEW c \in Client, c = threadq[t][i].from
  PROVE  \/ Engaged(c, p)'
         \/ \E k \in DOMAIN threadq'[t] : i < k /\ threadq'[t][k].kind = "END"
<1> DEFINE q == threadq[t]
<1>0. t \in Thread /\ q \in Seq(Datagram) /\ GreetDue(t) /\ Ahead(t)
  BY PoolPort DEF QuietParts, SysInv, SysTypeOK, EndIsDue, Due, HelloFirst
<1>1. /\ Len(q) \in Nat /\ DOMAIN q = 1 .. Len(q)
      /\ \A m : /\ DOMAIN Append(q, m) = 1 .. Len(q) + 1
                /\ \A k \in 1 .. Len(q) : Append(q, m)[k] = q[k]
                /\ Append(q, m)[Len(q) + 1] = m
  BY <1>0, QueuePut
<1>2. CASE Engaged(c, p)
  <2>1. CASE Engaged(c, p)'
    BY <2>1
  <2>2. ASSUME NEW m, m.kind = "END", threadq'[t] = Append(q, m)
        PROVE  \E k \in DOMAIN threadq'[t] : i < k /\ threadq'[t][k].kind = "END"
    <3> HIDE DEF q
    <3>1. i < Len(q) + 1 /\ Len(q) + 1 \in 1 .. Len(q) + 1
      BY <1>1 DEF q
    <3> QED BY <1>1, <2>2, <3>1
  <2>3. CASE tpc[t] = "sendEnd" /\ cur[t].from = c
    BY <1>0, <2>3 DEF Ahead, Reading, In
  <2> QED BY <1>0, <1>2, <2>1, <2>2, <2>3, EngagedKept DEF QuietParts
<1>3. CASE \E k \in DOMAIN q : i < k /\ q[k].kind = "END"
  <2>1. PICK k \in DOMAIN q : i < k /\ q[k].kind = "END"
    BY <1>3
  <2>2. k \in DOMAIN threadq'[t] /\ threadq'[t][k] = q[k]
    BY <1>1
  <2> QED BY <2>1, <2>2
<1> QED BY <1>0, <1>2, <1>3 DEF GreetDue

LEMMA NextEndIsDue ==
  ASSUME QuietParts, ~Lossy, [SysNext]_sysVars
  PROVE  EndIsDue'
<1> SUFFICES ASSUME NEW t \in PoolThread PROVE Due(t)'
  BY DEF EndIsDue
<1> DEFINE q == threadq[t]
           p == sock[t]
<1>0. /\ SysTypeOK /\ TypeOK /\ t \in Thread /\ q \in Seq(Datagram)
      /\ IInv /\ Sockets /\ OwnPorts /\ OnePort
      /\ GreetDue(t) /\ JudgeDue(t) /\ BusyAt(t) /\ BusyDue(t)
      /\ \A i \in DOMAIN q : q[i].from \in Client
  <2>1. t \in Thread /\ q \in Seq(Datagram)
    BY PoolPort DEF QuietParts, SysInv, SysTypeOK
  <2>2. \A i \in DOMAIN q : q[i] \in Datagram
    BY <2>1, QueueOf DEF In
  <2>3. \A i \in DOMAIN q : q[i].from \in Client
    BY <2>2 DEF Datagram
  <2> QED BY <2>1, <2>3 DEF QuietParts, SysInv, IInv, EndIsDue, Due
<1>1. p # NoSock => p \in Slot
  BY PoolPort
<1>2. p = NoSock => q = <<>>
  BY PoolPort
<1>q. \A m : /\ In(Append(q, m)) = In(q) \cup {m}
            /\ Len(q) \in Nat /\ DOMAIN q = 1 .. Len(q)
            /\ DOMAIN Append(q, m) = 1 .. Len(q) + 1
            /\ \A i \in 1 .. Len(q) : Append(q, m)[i] = q[i]
            /\ Append(q, m)[Len(q) + 1] = m
  BY <1>0, QueuePut
(* While the thread does not read its queue.                                *)
<1>3. ASSUME sock'[t] = p, threadq'[t] = q PROVE GreetDue(t)'
  <2>1. CASE q = <<>>
    BY <1>3, <2>1 DEF GreetDue
  <2>2. CASE q # <<>>
    <3>1. p \in Slot
      BY <1>1, <1>2, <2>2
    <3>2. ASSUME NEW i \in DOMAIN q, q[i].kind = "hello", NEW c \in Client, c = q[i].from,
                 NEW r \in Slot, r = p
          PROVE  \/ Engaged(c, r)'
                 \/ \E k \in DOMAIN q : i < k /\ q[k].kind = "END"
      BY <1>3, <3>2, GreetKept
    <3> QED BY <1>0, <1>3, <3>1, <3>2 DEF GreetDue
  <2> QED BY <2>1, <2>2
<1>4. ASSUME sock'[t] = p, p # NoSock, NEW m, threadq'[t] = Append(q, m), m.from \in Client,
             m.kind = "hello" => \A r \in Slot : r = p => Engaged(m.from, r)'
      PROVE  GreetDue(t)'
  <2>1. p \in Slot
    BY <1>1, <1>4
  <2>2. ASSUME NEW i \in DOMAIN q, q[i].kind = "hello", NEW c \in Client, c = q[i].from,
               NEW r \in Slot, r = p
        PROVE  \/ Engaged(c, r)'
               \/ \E k \in DOMAIN threadq'[t] : i < k /\ threadq'[t][k].kind = "END"
    BY <1>4, <2>2, GreetKept
  <2> SUFFICES ASSUME NEW i \in 1 .. Len(q) + 1, Append(q, m)[i].kind = "hello"
               PROVE  \/ Engaged(threadq[t][i].from, sock[t])'
                      \/ \E k \in DOMAIN threadq'[t] : i < k /\ threadq'[t][k].kind = "END"
    BY <1>4, <1>q DEF GreetDue
  <2>3. CASE i \in DOMAIN q
    BY <1>0, <1>4, <1>q, <2>1, <2>2, <2>3
  <2>4. CASE i = Len(q) + 1
    BY <1>4, <1>q, <2>1, <2>4
  <2> QED BY <1>q, <2>3, <2>4
<1>5. ASSUME NEW c \in Client, Engaged(c, p), sock'[t] = p,
             tpc[t] \in {"judge", "ready", "recv", "sendOk"},
             threadq'[t] = q \/ \E m : threadq'[t] = Append(q, m)
      PROVE  EndComes(t)' \/ Engaged(c, sock[t])'
  <2>1. p \in Slot
    BY <1>0, <1>1, <1>5 DEF Sockets
  <2>2. CASE \E m : m.kind = "END" /\ threadq'[t] = Append(q, m)
    BY <1>q, <2>2 DEF EndComes
  <2>3. ASSUME NEW r \in Slot, r = p
        PROVE  Engaged(c, r)' \/ \E m : m.kind = "END" /\ threadq'[t] = Append(q, m)
    BY <1>0, <1>5, <2>3, EngagedKept DEF QuietParts
  <2> QED BY <1>5, <2>1, <2>2, <2>3
<1>6. ASSUME sock'[t] = p, cur'[t] = cur[t], check'[t] = check[t],
             tpc'[t] = tpc[t] \/ (tpc[t] = "none" /\ tpc'[t] = "start"),
             threadq'[t] = q \/ \E m : threadq'[t] = Append(q, m),
             GreetDue(t)'
      PROVE  Due(t)'
  <2>1. EndComes(t) => EndComes(t)'
    BY <1>6, <1>q DEF EndComes
  <2>2. BusyAt(t)'
    BY <1>0, <1>6 DEF BusyAt
  <2>3. JudgeDue(t)'
    <3>1. cur[t].from \in Client
      BY <1>0, PoolAssumption DEF TypeOK, Datagram, NoMsg
    <3> SUFFICES ASSUME tpc'[t] = "judge", cur'[t].kind = "hello"
                 PROVE  Engaged(cur[t].from, sock[t])' \/ EndComes(t)'
      BY DEF JudgeDue
    <3>2. tpc[t] = "judge" /\ cur[t].kind = "hello"
      BY <1>6
    <3>3. ASSUME NEW c \in Client, c = cur[t].from, Engaged(c, p)
          PROVE  Engaged(c, sock[t])' \/ EndComes(t)'
      BY <1>5, <1>6, <3>2, <3>3
    <3> QED BY <1>0, <1>6, <2>1, <3>1, <3>2, <3>3 DEF JudgeDue
  <2>4. BusyDue(t)'
    <3> SUFFICES ASSUME check'[t], tpc'[t] \in {"ready", "recv", "sendOk"}
                 PROVE  EndComes(t)' \/ \E c \in Client : Engaged(c, sock[t])'
      BY DEF BusyDue
    <3>1. check[t] /\ tpc[t] \in {"ready", "recv", "sendOk"}
      BY <1>6
    <3> QED BY <1>0, <1>5, <1>6, <2>1, <3>1 DEF BusyDue
  <2> QED BY <1>6, <2>2, <2>3, <2>4 DEF Due
<1>7. CASE MainLocal \/ MainGets \/ MainAnswers
  <2>1. /\ UNCHANGED <<cur, sock, check, threadq>>
        /\ tpc'[t] = tpc[t] \/ (tpc[t] = "none" /\ tpc'[t] = "start")
    BY <1>0, <1>7, MainLeaves DEF QuietParts
  <2> QED BY <1>3, <1>6, <2>1
<1>8. ASSUME NEW u \in Thread, ThreadRuns(u), u # t PROVE Due(t)'
  <2>1. /\ tpc'[t] = tpc[t] /\ cur'[t] = cur[t] /\ sock'[t] = sock[t]
        /\ check'[t] = check[t] /\ threadq'[t] = threadq[t]
    BY <1>0, <1>8, ThreadActs DEF QuietParts
  <2> QED BY <1>3, <1>6, <2>1
<1>9. ASSUME NEW c \in Client,
             ClientStarts(c) \/ ClientGreets(c) \/ ClientTypes(c) \/ ClientEnds(c)
      PROVE  Due(t)'
  <2>1. PICK k :
          /\ SendToServer(c, k) /\ UNCHANGED <<vars, server>>
          /\ In(clientq'[c]) \subseteq In(clientq[c])
          /\ k = "hello" => cpc[c] = "greet" /\ msg'[c] = "hello" /\ cpc'[c] \in {"input", "bye"}
    BY <1>9, ClientSends DEF QuietParts
  <2>2. /\ tpc'[t] = tpc[t] /\ cur'[t] = cur[t] /\ sock'[t] = p /\ check'[t] = check[t]
    BY <2>1 DEF vars, threadVars
  <2>3. CASE threadq'[t] = q
    BY <1>3, <1>6, <2>2, <2>3
  <2>4. ASSUME NEW m, m.from = c, m.kind = k, p = server[c], threadq'[t] = Append(q, m)
        PROVE  Due(t)'
    <3>1. p # NoSock
      BY <1>0, <2>4 DEF Sockets
    <3>2. m.kind = "hello" => \A r \in Slot : r = p => Engaged(m.from, r)'
      <4> SUFFICES ASSUME k = "hello", NEW r \in Slot, r = p PROVE Engaged(c, r)'
        BY <2>4
      <4>1. cpc[c] = "greet" /\ msg'[c] = "hello" /\ cpc'[c] \in {"input", "bye"}
        BY <2>1
      <4>2. \A e \in In(clientq[c]) : e.kind = "port"
        BY <1>0, <4>1 DEF OnePort, Early
      <4> QED BY <2>1, <2>4, <4>1, <4>2 DEF Engaged
    <3>3. GreetDue(t)'
      BY <1>4, <2>2, <2>4, <3>1, <3>2
    <3> QED BY <1>6, <2>2, <2>4, <3>3
  <2> QED BY <1>0, <2>1, <2>3, <2>4, SentTo
<1>10. ASSUME NEW c \in Client, ClientGets(c) \/ ClientLocal(c) \/ ClientInput(c)
       PROVE  Due(t)'
  <2>1. UNCHANGED <<vars, threadq>>
    BY <1>10, ClientMoves DEF ClientGets, QuietParts
  <2> QED BY <1>3, <1>6, <2>1 DEF vars, threadVars
<1>11. CASE UNCHANGED sysVars
  BY <1>3, <1>6, <1>11 DEF sysVars, vars, threadVars, netVars
(* The steps of the thread itself.                                          *)
<1>12. CASE ThreadLocal(t)
  <2>1. UNCHANGED threadq
    BY <1>12 DEF ThreadLocal, netVars
  <2>2. CASE Register(t) \/ Bind(t) \/ Unflag(t)
    <3>1. /\ tpc[t] \in {"start", "bind", "unflag"} /\ tpc'[t] \in {"bind", "ready", "clear", "done"}
          /\ sock'[t] = p \/ tpc[t] = "bind"
      BY <1>0, <2>2 DEF Register, Bind, Unflag, Goto, TypeOK
    <3>2. ~check'[t]
      BY <1>0, <2>2 DEF Register, Bind, Unflag, Goto, TypeOK, BusyAt
    <3>3. GreetDue(t)'
      <4>1. CASE tpc[t] = "bind"
        BY <1>0, <1>2, <2>1, <4>1 DEF Sockets, GreetDue
      <4> QED BY <1>3, <2>1, <3>1, <4>1
    <3> QED BY <3>1, <3>2, <3>3 DEF Due, JudgeDue, BusyAt, BusyDue
  <2>3. CASE MarkReady(t)
    <3>1. /\ tpc[t] = "ready" /\ tpc'[t] = "recv" /\ UNCHANGED <<sock, check>>
      BY <1>0, <2>3 DEF MarkReady, Goto, TypeOK
    <3>2. GreetDue(t)'
      BY <1>3, <2>1, <3>1
    <3>3. BusyDue(t)'
      <4>1. EndComes(t) => EndComes(t)'
        BY <2>1 DEF EndComes
      <4> QED BY <1>0, <1>5, <2>1, <3>1, <4>1 DEF BusyDue
    <3> QED BY <3>1, <3>2, <3>3 DEF Due, JudgeDue, BusyAt
  <2>4. CASE Accept(t)
    <3>1. /\ tpc[t] = "judge" /\ tpc'[t] = "sendOk" /\ UNCHANGED sock /\ cur[t].kind = "hello"
      BY <1>0, <2>4 DEF Accept, Matches, Goto, TypeOK
    <3>2. GreetDue(t)'
      BY <1>3, <2>1, <3>1
    <3>3. BusyDue(t)'
      <4>1. EndComes(t) => EndComes(t)'
        BY <2>1 DEF EndComes
      <4>2. cur[t].from \in Client
        BY <1>0, PoolAssumption DEF TypeOK, Datagram, NoMsg
      <4>3. \E c \in Client : Engaged(c, p) \/ EndComes(t)
        BY <1>0, <3>1, <4>2 DEF JudgeDue
      <4> QED BY <1>5, <2>1, <3>1, <4>1, <4>3 DEF BusyDue
    <3> QED BY <3>1, <3>2, <3>3 DEF Due, JudgeDue, BusyAt
  <2>5. CASE Reject(t)
    <3>1. /\ tpc[t] = "judge" /\ tpc'[t] \in {"ready", "clear"} /\ UNCHANGED <<sock, check>>
      BY <1>0, <2>5 DEF Reject, Goto, TypeOK
    <3>2. ~check'[t]
      BY <1>0, <3>1 DEF BusyAt
    <3>3. GreetDue(t)'
      BY <1>3, <2>1, <3>1
    <3> QED BY <3>1, <3>2, <3>3 DEF Due, JudgeDue, BusyAt, BusyDue
  <2> QED BY <1>12, <2>2, <2>3, <2>4, <2>5 DEF ThreadLocal
<1>13. CASE ThreadGets(t)
  <2>1. /\ q # <<>> /\ threadq'[t] = Tail(q) /\ cur'[t] = Head(q) /\ sock'[t] = p
        /\ tpc[t] = "recv" /\ UNCHANGED <<cpc, msg, server, clientq>>
        /\ check'[t] = IF f[t] THEN check[t] ELSE got_client[my_num[t]]
        /\ tpc'[t] = IF ~check'[t] THEN "judge"
                     ELSE IF Head(q).kind = "END" THEN "sendEnd" ELSE "sendOk"
    BY <1>0, <1>13 DEF ThreadGets, Receive, Goto, TypeOK, SysTypeOK, clientVars
  <2>2. check'[t] = check[t]
    BY <1>0, <2>1 DEF IInv, Busy, PoolGotClientAccurate, Registered, TypeOK
  <2>3. /\ Len(q) \in Nat \ {0} /\ DOMAIN q = 1 .. Len(q) /\ Head(q) = q[1]
        /\ DOMAIN Tail(q) = 1 .. Len(q) - 1
        /\ \A i \in 1 .. Len(q) - 1 : Tail(q)[i] = q[i + 1]
    BY <1>0, <2>1, QueueGet
  <2>4. \A c, r : Engaged(c, r) => Engaged(c, r)'
    BY <2>1 DEF Engaged
  <2>5. \A i \in 1 .. Len(q) : q[i].kind = "hello" =>
          \/ Engaged(q[i].from, p)
          \/ \E k \in 1 .. Len(q) : i < k /\ q[k].kind = "END"
    BY <1>0, <2>3 DEF GreetDue
  <2> HIDE DEF q
  <2>6. GreetDue(t)'
    <3> SUFFICES ASSUME NEW i \in 1 .. Len(q) - 1, Tail(q)[i].kind = "hello",
                        NEW c, c = Tail(q)[i].from, NEW r, r = p
                 PROVE  \/ Engaged(c, r)'
                        \/ \E k \in 1 .. Len(q) - 1 : i < k /\ Tail(q)[k].kind = "END"
      BY <2>1, <2>3 DEF GreetDue
    <3>1. CASE Engaged(c, p)
      BY <2>4, <3>1
    <3>2. ASSUME NEW k \in 1 .. Len(q), i + 1 < k, q[k].kind = "END"
          PROVE  \E l \in 1 .. Len(q) - 1 : i < l /\ Tail(q)[l].kind = "END"
      <4>1. k - 1 \in 1 .. Len(q) - 1 /\ i < k - 1 /\ Tail(q)[k - 1] = q[k]
        BY <2>3, <3>2
      <4> QED BY <3>2, <4>1
    <3> QED BY <2>3, <2>5, <3>1, <3>2
  <2>7. \A k \in 1 .. Len(q) : k > 1 /\ q[k].kind = "END" => EndComes(t)'
    <3> TAKE k \in 1 .. Len(q)
    <3> HAVE k > 1 /\ q[k].kind = "END"
    <3>1. k - 1 \in DOMAIN Tail(q) /\ Tail(q)[k - 1] = q[k]
      BY <2>3
    <3> QED BY <2>1, <3>1 DEF EndComes, In
  <2>8. JudgeDue(t)'
    <3>1. q[1].kind = "hello" => Engaged(q[1].from, p) \/ EndComes(t)'
      BY <2>3, <2>5, <2>7
    <3> QED BY <2>1, <2>3, <2>4, <3>1 DEF JudgeDue
  <2>9. BusyAt(t)' /\ BusyDue(t)'
    <3>1. ASSUME check[t], Head(q).kind # "END"
          PROVE  EndComes(t)' \/ \E c \in Client : Engaged(c, p)
      <4>1. CASE EndComes(t)
        <5>1. PICK k \in 1 .. Len(q) : q[k].kind = "END"
          BY <2>3, <4>1 DEF EndComes, In, q
        <5> QED BY <2>3, <2>7, <3>1, <5>1
      <4> QED BY <1>0, <2>1, <3>1, <4>1 DEF BusyDue
    <3> QED BY <2>1, <2>2, <2>4, <3>1 DEF BusyAt, BusyDue
  <2> QED BY <2>6, <2>8, <2>9 DEF Due
<1>14. CASE ThreadReplies(t)
  <2>1. /\ UNCHANGED <<sock, threadq, check>>
        /\ \/ tpc[t] = "sendOk" /\ tpc'[t] = "ready"
           \/ tpc[t] = "sendEnd" /\ tpc'[t] = "endFree"
    BY <1>0, <1>14 DEF ThreadReplies, ReplyOk, ReplyEnd, Goto, TypeOK, OwnPorts
  <2>2. GreetDue(t)'
    BY <1>3, <2>1
  <2>3. BusyDue(t)'
    <3>1. EndComes(t) => EndComes(t)'
      BY <2>1 DEF EndComes
    <3> QED BY <1>0, <1>5, <2>1, <3>1 DEF BusyDue
  <2> QED BY <2>1, <2>2, <2>3 DEF Due, JudgeDue, BusyAt
<1>15. CASE ThreadFrees(t)
  <2>1. /\ ~check'[t] /\ tpc'[t] # "judge"
        /\ threadq'[t] = <<>> \/ (sock'[t] = p /\ threadq'[t] = q)
    BY <1>0, <1>15 DEF ThreadFrees, EndFree, Clear, Goto, TypeOK, SysTypeOK
  <2>2. GreetDue(t)'
    <3>1. CASE threadq'[t] = <<>>
      BY <3>1 DEF GreetDue
    <3> QED BY <1>3, <2>1, <3>1
  <2> QED BY <2>1, <2>2 DEF Due, JudgeDue, BusyAt, BusyDue
<1> QED
  BY <1>7, <1>8, <1>9, <1>10, <1>11, <1>12, <1>13, <1>14, <1>15
     DEF SysNext, MainRuns, ThreadRuns, ClientRuns

LEMMA QuietInitial == SysInit => QuietParts
<1> SUFFICES ASSUME SysInit PROVE QuietParts
  OBVIOUS
<1>1. SysInv
  BY SysInitial
<1>2. \A t \in Thread : /\ tpc[t] = "none" /\ sock[t] = NoSock /\ threadq[t] = <<>>
                        /\ ~check[t]
  BY DEF SysInit, Init
<1>3. \A c \in Client : server[c] = MainPort /\ clientq[c] = <<>> /\ cpc[c] = "request"
  BY DEF SysInit, C!Init
<1>4. NoSock \notin Slot /\ MainPort # NoSock /\ PoolThread \subseteq Thread
  BY PoolAssumption DEF NoSock, MainPort, Slot, PoolThread, Thread
<1>5. OwnPorts
  <2>1. mpc = "createPool" /\ ~cexit /\ \A k \in PoolSlot : tinfo[k] = k
    BY PoolAssumption DEF SysInit, Init, PoolSlot
  <2> QED BY <1>2, <1>4, <2>1 DEF OwnPorts
<1>6. Sockets /\ OnePort
  BY <1>2, <1>3, <1>4, QueueEmpty DEF Sockets, OnePort, Owes, Reading
<1>7. HelloFirst
  BY <1>2 DEF HelloFirst, Ahead, Reading
<1>8. EndIsDue
  BY <1>2, <1>4 DEF EndIsDue, Due, GreetDue, JudgeDue, BusyAt, BusyDue
<1> QED BY <1>1, <1>5, <1>6, <1>7, <1>8 DEF QuietParts

(* Only EndIsDue needs a network that loses nothing.                        *)
LEMMA QuietInductive ==
  ASSUME ~Lossy
  PROVE  QuietParts /\ [SysNext]_sysVars => QuietParts'
BY SysInductive, NextSockets, NextOwnPorts, NextOnePort, NextHelloFirst, NextEndIsDue
   DEF QuietParts

(* When all is quiet a pool thread that is busy has nobody to free it: so   *)
(* there is none.                                                           *)
LEMMA QuietIsFree == QuietParts => QuietPoolFree
<1> SUFFICES ASSUME QuietParts, Quiet, NEW k \in PoolSlot, got_client[k] PROVE FALSE
  BY DEF QuietPoolFree, FreePool
<1>1. IInv /\ PoolSlot \subseteq Slot
  BY PoolAssumption DEF QuietParts, SysInv, PoolSlot, Slot
<1>2. PICK t \in Registered : my_num[t] = k
  BY <1>1 DEF IInv, MainPastPool, FlagOwned, FlagSet
<1>3. t \in PoolThread /\ t \in Thread
  BY <1>1, <1>2, PoolAssumption DEF IInv, Numbers, PoolSlot, Registered
<1>4. check[t]
  BY <1>1, <1>2, <1>3 DEF IInv, Busy, PoolGotClientAccurate
<1>5. tpc[t] = "recv"
  BY <1>3, <1>4 DEF QuietParts, EndIsDue, Due, BusyAt, Quiet
<1>6. EndComes(t) \/ \E c \in Client : Engaged(c, sock[t])
  BY <1>3, <1>4, <1>5 DEF QuietParts, EndIsDue, Due, BusyDue
<1>7. ~EndComes(t)
  BY <1>3, QueueEmpty DEF EndComes, Quiet
<1> QED BY <1>6, <1>7 DEF Quiet, Engaged

(* However the sessions overlapped and whichever of them shared a thread,   *)
(* the whole pool is free when all is quiet: got_client[] is false for      *)
(* every thread of it, so that the next request need create no thread.      *)
THEOREM QuietPool ==
  ASSUME ~Lossy
  PROVE  SysSafeSpec => []QuietPoolFree
BY QuietInitial, QuietInductive, QuietIsFree, PTL DEF SysSafeSpec

LEMMA ExclusiveInitial == SysInit => Sockets /\ AInv /\ ExclusiveFirst
<1> SUFFICES ASSUME SysInit PROVE Sockets /\ AInv /\ ExclusiveFirst
  OBVIOUS
<1>1. Sockets
  BY QuietInitial DEF QuietParts
<1>2. AInv
  BY InitAligned DEF SysInit
<1>3. Exclusive
  <2>1. \A t \in Thread : threadq[t] = <<>> /\ tpc[t] = "none"
    BY DEF SysInit, Init
  <2>2. \A c \in Client : server[c] = MainPort /\ clientq[c] = <<>>
    BY DEF SysInit, C!Init
  <2>3. \A k \in DynamicSlot : k # MainPort
    BY PoolAssumption DEF DynamicSlot, Slot, MainPort
  <2>4. \A c \in Client, k \in DynamicSlot : ~Holds(c, k)
    BY <2>1, <2>2, <2>3, QueueEmpty DEF Holds, Told, Owed
  <2> QED BY <2>4 DEF Exclusive
<1> QED BY <1>1, <1>2, <1>3 DEF ExclusiveFirst

(* Until the first dynamic thread ends, no two clients are sent to the same *)
(* dynamic thread, although the main server takes the number of its port    *)
(* from the table before that thread has run.                               *)
THEOREM OnlyOneClient == SysSafeSpec => []DynamicPortExclusive
<1> DEFINE Parts == SysInv /\ Sockets /\ AInv /\ ExclusiveFirst
<1>1. SysInit => Parts
  BY SysInitial, ExclusiveInitial
<1>2. Parts /\ [SysNext]_sysVars => Parts'
  BY SysInductive, NextSockets, NextExclusive, SysStepIsStep, NextAligned DEF SysInv
<1>3. Parts => DynamicPortExclusive
  <2> SUFFICES ASSUME SysInv, ExclusiveFirst, FirstGeneration, FreshMemory,
                      NEW c \in Client, NEW d \in Client, c # d, server[c] >= MINTHREAD,
                      server[c] = server[d]
               PROVE  FALSE
    BY DEF DynamicPortExclusive
  <2>1. server[c] \in Slot \cup {NoSock, Elsewhere, MainPort}
    BY DEF SysInv, SysTypeOK
  <2>2. NoSock < MINTHREAD /\ Elsewhere < MINTHREAD /\ MainPort < MINTHREAD
    BY PoolAssumption DEF NoSock, Elsewhere, MainPort
  <2>3. server[c] \in Slot
    BY <2>1, <2>2, PoolAssumption DEF NoSock, Elsewhere, MainPort
  <2>4. server[c] \in DynamicSlot
    BY <2>3, PoolAssumption DEF DynamicSlot, PoolSlot, Slot
  <2> QED BY <2>4 DEF ExclusiveFirst, Exclusive, Holds
<1> QED BY <1>1, <1>2, <1>3, PTL DEF SysSafeSpec

-----------------------------------------------------------------------------
(* What comes to the main socket.                                           *)

InMain(c) == \E i \in DOMAIN mainq : mainq[i].from = c

(* The main thread has read a datagram of c and not yet dealt with it.      *)
Serves(c) == mpc \in {"count", "scan", "create", "spin", "send"} /\ client = c

ToldPort(c) == \E m \in In(clientq[c]) : m.kind = "port"

(* c has at most one datagram at the main socket: its request.              *)
OneRequest(c) ==
  \A i, k \in DOMAIN mainq :
    mainq[i].from = c => /\ mainq[i].kind = "zero"
                         /\ mainq[k].from = c => i = k

(* A request is in one place only: at the main socket, with the main        *)
(* thread, or answered.  Who sends elsewhere has nothing left there.        *)
Asked(c) ==
  /\ cpc[c] = "request" => ~InMain(c) /\ ~Serves(c) /\ ~ToldPort(c)
  /\ cpc[c] = "answer" /\ InMain(c) => ~Serves(c) /\ ~ToldPort(c) /\ OneRequest(c)
  /\ server[c] # MainPort => ~InMain(c)
  /\ cpc[c] \notin {"request", "answer"} /\ server[c] = MainPort => cint[c]

AskedOnce == \A c \in Client : Asked(c)

LEMMA MainPut ==
  ASSUME SysTypeOK, NEW c \in Client, NEW k, SendToServer(c, k), NEW d \in Client
  PROVE  /\ d # c \/ server[c] # MainPort =>
              InMain(d)' = InMain(d) /\ OneRequest(d)' = OneRequest(d)
         /\ k = "zero" /\ ~InMain(c) => OneRequest(c)'
<1> DEFINE p == server[c]
           m == [from |-> c, kind |-> k, port |-> IF k = "hello" THEN p ELSE NoSock]
<1>1. m.from = c /\ m.kind = k
  OBVIOUS
<1>2. UNCHANGED mainq \/ (p = MainPort /\ mainq' = Append(mainq, m))
  BY DEF SendToServer
<1> HIDE DEF m, p
<1>3. CASE UNCHANGED mainq
  BY <1>3 DEF InMain, OneRequest
<1>4. CASE p = MainPort /\ mainq' = Append(mainq, m)
  <2>1. /\ Len(mainq) \in Nat /\ DOMAIN mainq = 1 .. Len(mainq)
        /\ DOMAIN mainq' = 1 .. Len(mainq) + 1
        /\ \A i \in 1 .. Len(mainq) : mainq'[i] = mainq[i]
        /\ mainq'[Len(mainq) + 1] = m
    BY <1>4, QueuePut DEF SysTypeOK
  <2>2. ASSUME d # c PROVE InMain(d)' = InMain(d) /\ OneRequest(d)' = OneRequest(d)
    <3>1. mainq'[Len(mainq) + 1].from # d
      BY <1>1, <2>1, <2>2
    <3>2. \A i : i \in DOMAIN mainq' /\ mainq'[i].from = d <=>
                 i \in DOMAIN mainq /\ mainq[i].from = d
      BY <2>1, <3>1
    <3>3. InMain(d)' = InMain(d)
      BY <3>2 DEF InMain
    <3>4. OneRequest(d)' = OneRequest(d)
      BY <2>1, <3>2 DEF OneRequest
    <3> QED BY <3>3, <3>4
  <2>3. ASSUME k = "zero", ~InMain(c) PROVE OneRequest(c)'
    <3>1. \A i \in DOMAIN mainq' : mainq'[i].from = c => i = Len(mainq) + 1
      BY <2>1, <2>3 DEF InMain
    <3> QED BY <1>1, <2>1, <2>3, <3>1 DEF OneRequest
  <2> QED BY <1>4, <2>2, <2>3 DEF p
<1> QED BY <1>2, <1>3, <1>4

LEMMA MainTake ==
  ASSUME SysTypeOK, mainq # <<>>, mainq' = Tail(mainq), NEW d \in Client
  PROVE  /\ InMain(d)' => InMain(d)
         /\ OneRequest(d) => OneRequest(d)'
         /\ InMain(Head(mainq).from)
         /\ OneRequest(d) /\ d = Head(mainq).from => ~InMain(d)'
<1>1. /\ Len(mainq) \in Nat \ {0} /\ DOMAIN mainq = 1 .. Len(mainq)
      /\ Head(mainq) = mainq[1]
      /\ DOMAIN mainq' = 1 .. Len(mainq) - 1
      /\ \A i \in 1 .. Len(mainq) - 1 : mainq'[i] = mainq[i + 1]
  BY QueueGet DEF SysTypeOK
<1>2. \A i \in DOMAIN mainq' :
        i + 1 \in DOMAIN mainq /\ mainq'[i] = mainq[i + 1] /\ i \in Int /\ i + 1 # 1
  BY <1>1
<1>3. InMain(d)' => InMain(d)
  BY <1>2 DEF InMain
<1>4. OneRequest(d) => OneRequest(d)'
  BY <1>2 DEF OneRequest
<1>5. InMain(Head(mainq).from)
  BY <1>1 DEF InMain
<1>6. OneRequest(d) /\ d = Head(mainq).from => ~InMain(d)'
  BY <1>1, <1>2 DEF OneRequest, InMain
<1> QED BY <1>3, <1>4, <1>5, <1>6

LEMMA NextAsked ==
  ASSUME SysInv, AskedOnce, [SysNext]_sysVars
  PROVE  AskedOnce'
<1>0. SysTypeOK /\ TypeOK /\ Sends
  BY DEF SysInv, IInv
<1> SUFFICES ASSUME NEW c \in Client PROVE Asked(c)'
  BY DEF AskedOnce
<1>a. Asked(c)
  BY DEF AskedOnce
(* A step that leaves c and what is on its way to it as they are.           *)
<1>b. ASSUME cpc'[c] = cpc[c], server'[c] = server[c], cint'[c] = cint[c],
             InMain(c)' => InMain(c), OneRequest(c) => OneRequest(c)',
             Serves(c)' => Serves(c), ToldPort(c)' => ToldPort(c)
      PROVE  Asked(c)'
  BY <1>a, <1>b DEF Asked
<1>1. CASE UNCHANGED sysVars
  BY <1>b, <1>1 DEF sysVars, vars, mainVars, clientVars, netVars, InMain, OneRequest,
     Serves, ToldPort
<1>2. CASE MainLocal
  <2>1. Serves(c)' => Serves(c)
    BY <1>2 DEF MainLocal, CreatePool, MainCount, MainScan, MainCreate, MainSpin, MainAt,
       NextTurn, Serves
  <2> QED BY <1>b, <1>2, <2>1 DEF MainLocal, clientVars, netVars, InMain, OneRequest, ToldPort
<1>3. CASE MainGets
  <2>1. /\ mainq # <<>> /\ mainq' = Tail(mainq) /\ client' = Head(mainq).from
        /\ UNCHANGED <<cpc, server, cint, clientq>>
    BY <1>3 DEF MainGets, MainReceive, clientVars
  <2>2. /\ InMain(c)' => InMain(c)
        /\ OneRequest(c) => OneRequest(c)'
        /\ c = Head(mainq).from => InMain(c) /\ (OneRequest(c) => ~InMain(c)')
    BY <1>0, <2>1, MainTake
  <2>3. ToldPort(c)' = ToldPort(c)
    BY <2>1 DEF ToldPort
  <2>4. CASE c # Head(mainq).from
    BY <1>b, <2>1, <2>2, <2>3, <2>4 DEF Serves
  <2>5. CASE c = Head(mainq).from
    BY <1>a, <2>1, <2>2, <2>3, <2>5 DEF Asked
  <2> QED BY <2>4, <2>5
<1>4. CASE MainAnswers
  <2>1. /\ UNCHANGED <<cpc, server, cint, mainq>> /\ mpc = "send"
        /\ SendToClient(client, [kind |-> "port", port |-> reply, source |-> MainPort])
        /\ mpc' \in {"recv", "cleanup"} /\ client \in Client
    BY <1>0, <1>4 DEF MainAnswers, MainSend, MainAt, NextTurn, clientVars, TypeOK
  <2>2. /\ InMain(c)' = InMain(c) /\ OneRequest(c)' = OneRequest(c) /\ ~Serves(c)'
    BY <2>1 DEF InMain, OneRequest, Serves
  <2>3. ToldPort(c)' => ToldPort(c) \/ Serves(c)
    <3>1. clientq'[c] = clientq[c] \/ c = client
      BY <1>0, <2>1, Answered
    <3> QED BY <2>1, <3>1 DEF ToldPort, Serves
  <2> QED BY <1>a, <2>1, <2>2, <2>3 DEF Asked
<1>5. ASSUME NEW t \in Thread, ThreadRuns(t) PROVE Asked(c)'
  <2>1. UNCHANGED <<cpc, server, cint, mainq, mpc, client>>
    BY <1>5 DEF ThreadRuns, ThreadLocal, ThreadGets, ThreadReplies, ThreadFrees, clientVars,
       netVars, mainVars, Register, Bind, MarkReady, Accept, Reject, Unflag, Receive, ReplyOk,
       ReplyEnd, EndFree, Clear
  <2>2. ToldPort(c)' => ToldPort(c)
    <3>1. CASE ThreadReplies(t)
      <4>1. PICK k \in {"ok", "END"} :
              SendToClient(cur[t].from, [kind |-> k, port |-> NoSock, source |-> sock[t]])
        BY <3>1 DEF ThreadReplies
      <4> DEFINE m == [kind |-> k, port |-> NoSock, source |-> sock[t]]
      <4>2. cur[t].from \in Client
        BY <1>0, PoolAssumption DEF TypeOK, Datagram, NoMsg
      <4>3. clientq'[c] = clientq[c] \/ In(clientq'[c]) = In(clientq[c]) \cup {m}
        BY <1>0, <4>1, <4>2, Answered
      <4>4. m.kind # "port"
        OBVIOUS
      <4> QED BY <4>3, <4>4 DEF ToldPort
    <3>2. CASE ~ThreadReplies(t)
      BY <1>5, <3>2 DEF ThreadRuns, ThreadLocal, ThreadGets, ThreadFrees, netVars, ToldPort
    <3> QED BY <3>1, <3>2
  <2> QED BY <1>b, <2>1, <2>2 DEF InMain, OneRequest, Serves
<1>6. ASSUME NEW d \in Client,
             ClientRuns(d) \/ ClientStarts(d) \/ ClientTypes(d) \/ ClientInput(d)
      PROVE  UNCHANGED <<mpc, client>>
  BY <1>6 DEF ClientRuns, ClientStarts, ClientTypes, ClientInput, ClientGreets, ClientGets,
     ClientEnds, ClientLocal, vars, mainVars
<1>7. ASSUME NEW d \in Client, ClientStarts(d) \/ ClientGreets(d) \/ ClientTypes(d) \/ ClientEnds(d)
      PROVE  Asked(c)'
  <2>1. PICK k : /\ SendToServer(d, k)
                 /\ UNCHANGED server
                 /\ d # c => cpc'[c] = cpc[c] /\ clientq'[c] = clientq[c]
                 /\ In(clientq'[d]) \subseteq In(clientq[d])
    BY <1>7, ClientSends
  <2>2. UNCHANGED cint /\ Serves(c)' = Serves(c) /\ (ToldPort(c)' => ToldPort(c))
    BY <1>6, <1>7, <2>1 DEF ClientRuns, ClientStarts, ClientGreets, ClientTypes, ClientEnds,
       C!Request, C!Greet, C!Word, C!Bye, Serves, ToldPort
  <2>3. d # c \/ server[d] # MainPort =>
          InMain(c)' = InMain(c) /\ OneRequest(c)' = OneRequest(c)
    BY <1>0, <2>1, MainPut
  <2>4. CASE d # c
    BY <1>b, <2>1, <2>2, <2>3, <2>4
  <2>5. CASE ClientStarts(c)
    <3>1. /\ SendToServer(c, "zero") /\ cpc[c] = "request" /\ cpc'[c] = "answer"
          /\ UNCHANGED server
      BY <1>0, <2>5 DEF ClientStarts, C!Request, C!At, SysTypeOK
    <3>2. ~InMain(c) /\ ~Serves(c) /\ ~ToldPort(c) /\ server[c] = MainPort
      BY <1>0, <1>a, <3>1 DEF Asked, Sends
    <3>3. OneRequest(c)'
      BY <1>0, <3>1, <3>2, MainPut
    <3> QED BY <2>2, <3>1, <3>2, <3>3 DEF Asked
  <2>6. CASE d = c /\ (ClientGreets(c) \/ ClientTypes(c) \/ ClientEnds(c))
    <3>1. cpc[c] \in {"greet", "input", "bye"} /\ cpc'[c] \notin {"request", "answer"}
      BY <1>0, <2>6 DEF ClientGreets, ClientTypes, ClientEnds, C!Greet, C!Word, C!Bye,
         C!LoopTest, C!At, SysTypeOK
    <3> QED BY <1>a, <2>1, <2>2, <2>3, <2>6, <3>1 DEF Asked
  <2> QED BY <1>7, <2>4, <2>5, <2>6
<1>8. ASSUME NEW d \in Client, ClientGets(d) PROVE Asked(c)'
  <2> DEFINE m == Head(clientq[d])
  <2>1. /\ m \in In(clientq[d]) /\ In(Tail(clientq[d])) \subseteq In(clientq[d])
        /\ m \in Answering
    BY <1>0, <1>8, QueueTail DEF ClientGets, SysTypeOK
  <2>2. /\ UNCHANGED <<mainq, mpc, client, cint>> /\ clientq' = [clientq EXCEPT ![d] = Tail(@)]
        /\ \/ m.kind = "port" /\ C!Answer(d, m.port)
           \/ m.kind # "port" /\ C!Reply(d, m.kind, m.source)
    BY <1>8 DEF ClientGets, C!Answer, C!Reply, vars, mainVars
  <2>3. /\ InMain(c)' = InMain(c) /\ OneRequest(c)' = OneRequest(c)
        /\ Serves(c)' = Serves(c)
    BY <2>2 DEF InMain, OneRequest, Serves
  <2>4. ToldPort(c)' => ToldPort(c)
    BY <1>0, <2>1, <2>2 DEF ToldPort, SysTypeOK
  <2>5. CASE c # d
    <3>1. cpc'[c] = cpc[c] /\ server'[c] = server[c]
      BY <1>0, <2>2, <2>5 DEF C!Answer, C!Reply, C!At, SysTypeOK
    <3> QED BY <1>b, <2>2, <2>3, <2>4, <3>1
  <2>6. CASE c = d /\ m.kind = "port"
    <3>1. cpc[c] = "answer" /\ cpc'[c] = "greet" /\ server'[c] = m.port /\ m.port \in Slot
      BY <1>0, <2>1, <2>2, <2>6 DEF C!Answer, C!At, SysTypeOK, Answering
    <3>2. server'[c] # MainPort
      BY <3>1, PoolAssumption DEF Slot, MainPort
    <3>3. ~InMain(c)
      BY <1>a, <2>1, <2>6, <3>1 DEF Asked, ToldPort
    <3> QED BY <2>3, <3>1, <3>2, <3>3 DEF Asked
  <2>7. CASE c = d /\ m.kind # "port"
    <3>1. cpc[c] = "reply" /\ cpc'[c] = "compare" /\ server'[c] = m.source
      BY <1>0, <2>2, <2>7 DEF C!Reply, C!At, SysTypeOK
    <3>2. server'[c] # MainPort
      BY <2>1, <2>7, <3>1, PoolAssumption DEF Answering, Slot, NoSock, Elsewhere, MainPort
    <3>3. ~InMain(c)
      BY <1>0, <1>a, <3>1 DEF Asked, Sends
    <3> QED BY <2>3, <3>1, <3>2, <3>3 DEF Asked
  <2> QED BY <2>5, <2>6, <2>7
<1>9. ASSUME NEW d \in Client, ClientLocal(d) \/ ClientInput(d) PROVE Asked(c)'
  <2>1. /\ UNCHANGED server
        /\ d # c => cpc'[c] = cpc[c] /\ clientq'[c] = clientq[c]
        /\ In(clientq'[d]) \subseteq In(clientq[d])
    BY <1>9, ClientMoves
  <2>2. UNCHANGED mainq
    BY <1>9 DEF ClientLocal, ClientInput, netVars
  <2>3. /\ InMain(c)' = InMain(c) /\ OneRequest(c)' = OneRequest(c)
        /\ Serves(c)' = Serves(c) /\ (ToldPort(c)' => ToldPort(c))
    BY <1>6, <1>9, <2>1, <2>2 DEF ClientRuns, InMain, OneRequest, Serves, ToldPort
  <2>4. /\ cint'[c] = cint[c] \/ cint'[c]
        /\ cpc'[c] # "request"  \/ cpc'[c] = cpc[c]
        /\ cpc'[c] # "answer" \/ cpc'[c] = cpc[c]
        /\ \/ cpc'[c] = cpc[c]
           \/ cpc[c] \notin {"request", "answer"}
           \/ cint'[c]
    BY <1>0, <1>9 DEF ClientLocal, ClientInput, C!Sent, C!Compare, C!LoopTest, C!Eof,
       C!Interrupt, C!At, SysTypeOK
  <2> QED BY <1>a, <2>1, <2>3, <2>4 DEF Asked
<1> QED
  BY <1>1, <1>2, <1>3, <1>4, <1>5, <1>7, <1>8, <1>9 DEF SysNext, MainRuns, ClientRuns

(* Whatever comes to the main port is the one request of a client that is   *)
(* waiting for its answer, or comes from a client that SIGINT kept from     *)
(* being told a port (client.c:191, 202, 242).  A session that was given a  *)
(* port sends nothing there, although the client's one address variable is  *)
(* rewritten by every recvfrom, and although datagrams may be lost.         *)
THEOREM OnlyInterruptedStray == SysSafeSpec => []StraysAreInterrupted
<1>1. SysInit => AskedOnce
  <2> SUFFICES ASSUME SysInit, NEW c \in Client PROVE Asked(c)
    BY DEF AskedOnce
  <2>1. /\ cpc[c] = "request" /\ server[c] = MainPort /\ mainq = <<>>
        /\ clientq[c] = <<>> /\ mpc = "createPool"
    BY DEF SysInit, Init, C!Init
  <2> QED BY <2>1, QueueEmpty DEF Asked, InMain, Serves, ToldPort
<1>2. SysInv /\ AskedOnce /\ [SysNext]_sysVars => (SysInv /\ AskedOnce)'
  BY SysInductive, NextAsked
<1>3. SysInv /\ AskedOnce => StraysAreInterrupted
  <2> SUFFICES ASSUME SysInv, AskedOnce, NEW i \in DOMAIN mainq
               PROVE  LET c == mainq[i].from IN
                        \/ /\ mainq[i].kind = "zero" /\ cpc[c] = "answer"
                           /\ \A k \in DOMAIN mainq : mainq[k].from = c => k = i
                        \/ /\ mainq[i].kind \in {"zero", "END"}
                           /\ cint[c] /\ cpc[c] \notin {"request", "answer"}
                           /\ server[c] = MainPort
    BY DEF StraysAreInterrupted
  <2> DEFINE c == mainq[i].from
  <2>1. mainq[i] \in Asking
    BY QueueOf DEF SysInv, SysTypeOK, In
  <2>2. c \in Client /\ mainq[i].kind \in {"zero", "END"} /\ InMain(c)
    BY <2>1 DEF Asking, InMain
  <2>3. Asked(c)
    BY <2>2 DEF AskedOnce
  <2>4. server[c] = MainPort /\ cpc[c] # "request"
    BY <2>2, <2>3 DEF Asked
  <2>5. CASE cpc[c] = "answer"
    <3>1. OneRequest(c)
      BY <2>2, <2>3, <2>5 DEF Asked
    <3> QED BY <2>5, <3>1 DEF OneRequest
  <2>6. CASE cpc[c] # "answer"
    BY <2>2, <2>3, <2>4, <2>6 DEF Asked
  <2> QED BY <2>5, <2>6
<1> QED BY <1>1, <1>2, <1>3, SysInitial, PTL DEF SysSafeSpec
=============================================================================
