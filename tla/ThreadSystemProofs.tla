------------------------- MODULE ThreadSystemProofs -------------------------
(***************************************************************************)
(* Two properties of the programs of ex19/p1, for any number of clients,   *)
(* requests and words, wherever tinfo[] moves.                             *)
(*                                                                         *)
(* No two clients are ever sent to one thread.  A port is told once, since *)
(* tnum only grows.  A client takes the port it sends to from the first    *)
(* datagram it gets, which must be one that tells a port: threads answer   *)
(* only those who have sent to them, and who waits for its port has sent   *)
(* to the main socket alone.                                               *)
(*                                                                         *)
(* When patient clients have gone, so have the threads.  A thread that has *)
(* been created, and knows its port or has still to read it, has an END in *)
(* its queue or in hand, or there is a client that is to be told its port, *)
(* or has been and will send it an END (EndIsDue).  For that the one       *)
(* answer a client waits for must be the one to its request (OneRequest),  *)
(* and the thread must listen when the END is sent (SettledFirst).         *)
(***************************************************************************)
EXTENDS ThreadSystem, SequenceTheorems, TLAPS

Message == [kind : {"port", "ok", "END"}, port : Port \cup {NoPort}]

(* Who has no port yet.                                                     *)
Early == {"request", "answer"}

ServerTyped ==
  /\ mpc \in {"recv", "create", "send", "done"} /\ tnum \in 0..MaxThreads
  /\ mpc \in {"create", "send"} => tnum > 0
  /\ client \in Client /\ mainq \in Seq(Client)
  /\ tpc \in [Thread -> {"none", "start", "bind", "recv", "reply", "done"}]
  /\ cur \in [Thread -> Datagram] /\ threadq \in [Thread -> Seq(Datagram)]

ClientsTyped ==
  /\ cpc \in [Client -> {"request", "answer", "scanf", "reply", "bye", "done"}]
  /\ server \in [Client -> Port \cup {MainPort}]
  /\ clientq \in [Client -> Seq(Message)]

(* The ports a client sends to or has been told and has not read.           *)
PortsIn(q) == {m.port : m \in Range(q)} \cap Port
Held(c) == PortsIn(clientq[c]) \cup ({server[c]} \cap Port)

(* The ports told so far.                                                   *)
ToldPorts == {p \in Port : p < (IF mpc \in {"create", "send"} THEN tnum - 1 ELSE tnum)}

HeldWereTold == \A c \in Client : Held(c) \subseteq ToldPorts

HeldByOne == \A c, d \in Client : c # d => Held(c) \cap Held(d) = {}

(* Who has no port yet sends to the main one, and is only told ports.       *)
EarlyUnserved ==
  \A c \in Client : cpc[c] \in Early =>
    server[c] = MainPort /\ \A m \in Range(clientq[c]) : m.port \in Port

(* What threads have got is from others.                                    *)
ThreadsHearLater ==
  \A t \in Thread :
    /\ \A m \in Range(threadq[t]) : cpc[m.from] \notin Early
    /\ tpc[t] = "reply" => cpc[cur[t].from] \notin Early

IInv ==
  /\ ServerTyped /\ ClientsTyped
  /\ HeldWereTold /\ HeldByOne /\ EarlyUnserved /\ ThreadsHearLater

-----------------------------------------------------------------------------
(* Queues.                                                                  *)

LEMMA AppendRange ==
  ASSUME NEW S, NEW q \in Seq(S), NEW m \in S
  PROVE  Append(q, m) \in Seq(S) /\ Range(Append(q, m)) = Range(q) \cup {m}
<1>1. /\ Append(q, m) \in Seq(S) /\ Len(q) \in Nat /\ Len(Append(q, m)) = Len(q) + 1
      /\ \A i \in 1..Len(q) : Append(q, m)[i] = q[i]
      /\ Append(q, m)[Len(q) + 1] = m
  BY AppendProperties, LenProperties
<1>2. Range(q) = {q[i] : i \in 1..Len(q)}
  BY RangeEquality
<1>3. Range(Append(q, m)) = {Append(q, m)[i] : i \in 1..Len(q) + 1}
  BY <1>1, RangeEquality
<1> QED BY <1>1, <1>2, <1>3

LEMMA RangeEmpty == Range(<<>>) = {} /\ DOMAIN <<>> = {}
<1>1. <<>> \in Seq({}) /\ Len(<<>>) = 0
  BY EmptySeq
<1>2. Range(<<>>) = {<<>>[i] : i \in 1..Len(<<>>)}
  BY <1>1, RangeEquality
<1>3. 1..Len(<<>>) = {} /\ DOMAIN <<>> = 1..Len(<<>>)
  BY <1>1, LenProperties
<1> QED BY <1>2, <1>3

LEMMA TailRange ==
  ASSUME NEW S, NEW q \in Seq(S), q # <<>>
  PROVE  /\ Head(q) \in S /\ Tail(q) \in Seq(S)
         /\ Head(q) \in Range(q) /\ Range(Tail(q)) \subseteq Range(q)
         /\ Range(q) = {Head(q)} \cup Range(Tail(q))
<1>1. /\ Head(q) \in S /\ Tail(q) \in Seq(S)
      /\ Len(q) \in Nat \ {0} /\ Len(Tail(q)) = Len(q) - 1
      /\ \A i \in 1..Len(q) - 1 : Tail(q)[i] = q[i + 1]
  BY HeadTailProperties, LenProperties, EmptySeq
<1>2. Range(q) = {q[i] : i \in 1..Len(q)}
  BY RangeEquality
<1>3. Range(Tail(q)) = {Tail(q)[i] : i \in 1..Len(q) - 1}
  BY <1>1, RangeEquality
<1>4. Head(q) = q[1]
  OBVIOUS
<1>5. Range(Tail(q)) \subseteq Range(q) /\ Head(q) \in Range(q)
  BY <1>1, <1>2, <1>3, <1>4
<1>6. ASSUME NEW i \in 1..Len(q) PROVE q[i] \in {Head(q)} \cup Range(Tail(q))
  <2>1. CASE i = 1
    BY <1>4, <2>1
  <2>2. CASE i # 1
    <3>1. i - 1 \in 1..Len(q) - 1 /\ (i - 1) + 1 = i
      BY <1>1, <2>2
    <3> QED BY <1>1, <1>3, <3>1
  <2> QED BY <2>1, <2>2
<1> QED BY <1>1, <1>2, <1>5, <1>6

(* A queue in which nobody stands twice.                                    *)
Distinct(q) == \A i, j \in DOMAIN q : q[i] = q[j] => i = j

LEMMA AppendDistinct ==
  ASSUME NEW S, NEW q \in Seq(S), NEW m \in S, Distinct(q), m \notin Range(q)
  PROVE  Distinct(Append(q, m))
<1>1. /\ Append(q, m) \in Seq(S) /\ Len(q) \in Nat /\ Len(Append(q, m)) = Len(q) + 1
      /\ \A i \in 1..Len(q) : Append(q, m)[i] = q[i]
      /\ Append(q, m)[Len(q) + 1] = m
  BY AppendProperties, LenProperties
<1>2. DOMAIN q = 1..Len(q) /\ DOMAIN Append(q, m) = 1..Len(q) + 1
  BY <1>1, LenProperties
<1>3. \A i \in 1..Len(q) : q[i] # m
  BY RangeEquality
<1> QED BY <1>1, <1>2, <1>3 DEF Distinct

LEMMA TailDistinct ==
  ASSUME NEW S, NEW q \in Seq(S), q # <<>>, Distinct(q)
  PROVE  Distinct(Tail(q)) /\ Head(q) \notin Range(Tail(q))
<1>1. /\ Tail(q) \in Seq(S) /\ Len(q) \in Nat \ {0} /\ Len(Tail(q)) = Len(q) - 1
      /\ \A i \in 1..Len(q) - 1 : Tail(q)[i] = q[i + 1]
  BY HeadTailProperties, LenProperties, EmptySeq
<1>2. DOMAIN q = 1..Len(q) /\ DOMAIN Tail(q) = 1..Len(q) - 1
  BY <1>1, LenProperties
<1>3. Range(Tail(q)) = {Tail(q)[i] : i \in 1..Len(q) - 1}
  BY <1>1, RangeEquality
<1>4. Head(q) = q[1]
  OBVIOUS
<1> QED BY <1>1, <1>2, <1>3, <1>4 DEF Distinct

(* A datagram of a client without a port reaches no thread.                 *)
LEMMA ServerHears ==
  ASSUME ServerTyped, NEW c \in Client, NEW k \in {"text", "END"}, SendToServer(c, k)
  PROVE  /\ mainq' \in Seq(Client) /\ threadq' \in [Thread -> Seq(Datagram)]
         /\ \A t \in Thread :
              Range(threadq'[t]) \subseteq Range(threadq[t]) \cup {[from |-> c, kind |-> k]}
         /\ server[c] = MainPort => threadq' = threadq
<1>0. mainq \in Seq(Client) /\ threadq \in [Thread -> Seq(Datagram)]
  BY DEF ServerTyped
<1>1. CASE server[c] = MainPort
  <2>1. mainq' \in {mainq, Append(mainq, c)} /\ threadq' = threadq
    BY <1>1 DEF SendToServer
  <2>2. Append(mainq, c) \in Seq(Client)
    BY <1>0, AppendRange
  <2> QED BY <1>0, <2>1, <2>2
<1>2. CASE server[c] # MainPort
  <2> DEFINE m == [from |-> c, kind |-> k]
  <2>1. m \in Datagram
    BY DEF Datagram
  <2>2. \A t \in Thread : /\ Append(threadq[t], m) \in Seq(Datagram)
                          /\ Range(Append(threadq[t], m)) \subseteq Range(threadq[t]) \cup {m}
    BY <1>0, <2>1, AppendRange
  <2>3. mainq' = mainq
    BY <1>2 DEF SendToServer
  <2>4. threadq' = [t \in Thread |-> IF sock[t] = server[c] /\ Lives(t)
                                       THEN Append(threadq[t], m) ELSE threadq[t]]
    BY <1>2 DEF SendToServer
  <2> HIDE DEF m
  <2>5. threadq' \in [Thread -> Seq(Datagram)]
    BY <1>0, <2>2, <2>4
  <2>6. \A t \in Thread : Range(threadq'[t]) \subseteq Range(threadq[t]) \cup {m}
    BY <2>2, <2>4
  <2> QED BY <1>0, <1>2, <2>3, <2>5, <2>6 DEF m
<1> QED BY <1>1, <1>2

LEMMA ClientHears ==
  ASSUME ClientsTyped, NEW c \in Client, NEW m \in Message, SendToClient(c, m)
  PROVE  /\ clientq' \in [Client -> Seq(Message)]
         /\ \A d \in Client : Range(clientq'[d]) \subseteq
              Range(clientq[d]) \cup (IF d = c THEN {m} ELSE {})
<1>0. clientq \in [Client -> Seq(Message)]
  BY DEF ClientsTyped
<1>1. CASE cpc[c] = "done"
  BY <1>0, <1>1 DEF SendToClient
<1>2. CASE cpc[c] # "done"
  <2>1. clientq' = [clientq EXCEPT ![c] = Append(clientq[c], m)]
    BY <1>2 DEF SendToClient
  <2>2. /\ Append(clientq[c], m) \in Seq(Message)
        /\ Range(Append(clientq[c], m)) \subseteq Range(clientq[c]) \cup {m}
    BY <1>0, AppendRange
  <2> QED BY <1>0, <2>1, <2>2
<1> QED BY <1>1, <1>2

LEMMA ClientReads ==
  ASSUME ClientsTyped, NEW c \in Client, clientq[c] # <<>>,
         clientq' = [clientq EXCEPT ![c] = Tail(@)]
  PROVE  /\ clientq' \in [Client -> Seq(Message)]
         /\ \A d \in Client : Range(clientq'[d]) \subseteq Range(clientq[d])
         /\ Head(clientq[c]) \in Message /\ Head(clientq[c]) \in Range(clientq[c])
<1>0. clientq \in [Client -> Seq(Message)]
  BY DEF ClientsTyped
<1>1. /\ Head(clientq[c]) \in Message /\ Head(clientq[c]) \in Range(clientq[c])
      /\ Tail(clientq[c]) \in Seq(Message) /\ Range(Tail(clientq[c])) \subseteq Range(clientq[c])
  BY <1>0, TailRange
<1> QED BY <1>0, <1>1

-----------------------------------------------------------------------------
(* What keeps each part, whatever else a step does.                         *)

(* No port is told, and none is read by another than it was told.           *)
LEMMA NothingTold ==
  ASSUME HeldWereTold, HeldByOne, ToldPorts \subseteq ToldPorts',
         \A c \in Client : Held(c)' \subseteq Held(c)
  PROVE  HeldWereTold' /\ HeldByOne'
<1>1. HeldWereTold'
  BY DEF HeldWereTold
<1>2. HeldByOne'
  BY DEF HeldByOne
<1> QED BY <1>1, <1>2

LEMMA HeldStays ==
  ASSUME UNCHANGED <<server, clientq>>
  PROVE  \A c \in Client : Held(c)' \subseteq Held(c)
BY DEF Held, PortsIn

(* Messages without a port tell none.                                       *)
LEMMA HeldWithout ==
  ASSUME UNCHANGED server, NEW M, \A m \in M : m.port \notin Port,
         \A c \in Client : Range(clientq'[c]) \subseteq Range(clientq[c]) \cup M
  PROVE  \A c \in Client : Held(c)' \subseteq Held(c)
BY DEF Held, PortsIn

LEMMA EarlyKept ==
  ASSUME EarlyUnserved,
         \A c \in Client : cpc'[c] \in Early =>
           /\ cpc[c] \in Early /\ server'[c] = server[c]
           /\ Range(clientq'[c]) \subseteq Range(clientq[c])
  PROVE  EarlyUnserved'
BY DEF EarlyUnserved, Early

LEMMA LaterKept ==
  ASSUME ThreadsHearLater,
         \A c \in Client : cpc'[c] \in Early => cpc[c] \in Early,
         \A t \in Thread :
           /\ \A m \in Range(threadq'[t]) : m \in Range(threadq[t]) \/ cpc'[m.from] \notin Early
           /\ tpc'[t] = "reply" => \/ tpc[t] = "reply" /\ cur'[t] = cur[t]
                                   \/ cur'[t] \in Range(threadq[t]),
         \A t \in Thread : \A m \in Range(threadq[t]) : m.from \in Client,
         \A t \in Thread : cur[t].from \in Client
  PROVE  ThreadsHearLater'
BY DEF ThreadsHearLater

LEMMA FromClients ==
  ASSUME ServerTyped
  PROVE  /\ \A t \in Thread : \A m \in Range(threadq[t]) : m.from \in Client
         /\ \A t \in Thread : cur[t].from \in Client
<1>1. \A t \in Thread : threadq[t] \in Seq(Datagram) /\ cur[t] \in Datagram
  BY DEF ServerTyped
<1>2. \A t \in Thread : Range(threadq[t]) \subseteq Datagram
  BY <1>1, RangeOfSeq
<1> QED BY <1>1, <1>2 DEF Datagram

LEMMA InitHolds ==
  ASSUME ServerAssumption, MainPort \notin Port, SysInit
  PROVE  IInv
<1>1. ServerTyped
  <2>1. <<>> \in Seq(Client) /\ <<>> \in Seq(Datagram)
    BY EmptySeq
  <2>2. cur \in [Thread -> Datagram]
    BY DEF SysInit, Init, Datagram
  <2>3. tnum \in 0..MaxThreads
    BY DEF SysInit, Init, ServerAssumption
  <2> QED BY <2>1, <2>2, <2>3 DEF SysInit, Init, ServerTyped
<1>2. ClientsTyped
  <2>1. <<>> \in Seq(Message)
    BY EmptySeq
  <2> QED BY <2>1 DEF SysInit, ClientsTyped
<1>3. Range(<<>>) = {}
  BY RangeEmpty
<1>4. /\ \A c \in Client : clientq[c] = <<>> /\ server[c] = MainPort
      /\ \A t \in Thread : threadq[t] = <<>> /\ tpc[t] = "none"
  BY DEF SysInit, Init
<1>5. \A c \in Client : Held(c) = {}
  BY <1>3, <1>4 DEF Held, PortsIn
<1>6. HeldWereTold /\ HeldByOne
  BY <1>5 DEF HeldWereTold, HeldByOne
<1>7. EarlyUnserved /\ ThreadsHearLater
  BY <1>3, <1>4 DEF EarlyUnserved, ThreadsHearLater
<1> QED BY <1>1, <1>2, <1>6, <1>7 DEF IInv

-----------------------------------------------------------------------------
(* Most steps tell no port and let nobody leave who has none.               *)

LEMMA Kept ==
  ASSUME IInv, ServerTyped', ClientsTyped',
         ToldPorts \subseteq ToldPorts',
         \A c \in Client : Held(c)' \subseteq Held(c),
         \A c \in Client : cpc'[c] \in Early =>
           /\ cpc[c] \in Early /\ server'[c] = server[c]
           /\ Range(clientq'[c]) \subseteq Range(clientq[c]),
         \A t \in Thread :
           /\ \A m \in Range(threadq'[t]) : m \in Range(threadq[t]) \/ cpc'[m.from] \notin Early
           /\ tpc'[t] = "reply" => \/ tpc[t] = "reply" /\ cur'[t] = cur[t]
                                   \/ cur'[t] \in Range(threadq[t])
  PROVE  IInv'
<1>1. HeldWereTold' /\ HeldByOne'
  BY NothingTold DEF IInv
<1>2. EarlyUnserved'
  BY EarlyKept DEF IInv
<1>3. ThreadsHearLater'
  BY LaterKept, FromClients DEF IInv
<1> QED BY <1>1, <1>2, <1>3 DEF IInv

(* A step of main or a thread that neither reads nor sends.                 *)
LEMMA ServerAlone ==
  ASSUME IInv, UNCHANGED <<clientVars, netVars>>, ServerTyped',
         ToldPorts \subseteq ToldPorts', UNCHANGED cur,
         \A t \in Thread : tpc'[t] = "reply" => tpc[t] = "reply"
  PROVE  IInv'
<1>1. ClientsTyped'
  BY DEF IInv, ClientsTyped, clientVars, netVars
<1>2. UNCHANGED <<cpc, server, clientq, threadq>>
  BY DEF clientVars, netVars
<1>3. \A c \in Client : Held(c)' \subseteq Held(c)
  BY <1>2, HeldStays
<1> QED BY <1>1, <1>2, <1>3, Kept

(* A step of client c that leaves the server's own state alone.             *)
LEMMA ClientAlone ==
  ASSUME IInv, NEW c \in Client, UNCHANGED vars,
         mainq' \in Seq(Client), threadq' \in [Thread -> Seq(Datagram)], ClientsTyped',
         \A d \in Client : Held(d)' \subseteq Held(d),
         \A d \in Client : cpc'[d] \in Early =>
           cpc[d] \in Early /\ server'[d] = server[d] /\ Range(clientq'[d]) \subseteq Range(clientq[d]),
         \A t \in Thread : \A m \in Range(threadq'[t]) :
           m \in Range(threadq[t]) \/ cpc'[m.from] \notin Early
  PROVE  IInv'
<1>1. ServerTyped'
  BY DEF IInv, ServerTyped, vars
<1>2. UNCHANGED <<mpc, tnum, tpc, cur>>
  BY DEF vars
<1>3. ToldPorts' = ToldPorts
  BY <1>2 DEF ToldPorts
<1> QED BY <1>1, <1>2, <1>3, Kept

-----------------------------------------------------------------------------
(* The server's steps.                                                      *)

LEMMA MainStopsKeeps ==
  ASSUME IInv, MainStops, UNCHANGED <<clientVars, netVars>> PROVE IInv'
<1>1. ServerTyped'
  BY DEF IInv, ServerTyped, MainStops, netVars
<1>2. ToldPorts' = ToldPorts
  BY DEF MainStops, ToldPorts
<1>3. UNCHANGED <<cur, tpc>>
  BY DEF MainStops
<1> QED BY <1>1, <1>2, <1>3, ServerAlone

LEMMA MainCreateKeeps ==
  ASSUME ServerAssumption, IInv, MainCreate, UNCHANGED <<clientVars, netVars>> PROVE IInv'
<1>1. tnum \in Thread
  BY DEF IInv, ServerTyped, MainCreate, Thread, ServerAssumption
<1>2. tpc' = [tpc EXCEPT ![tnum] = "start"]
  BY DEF MainCreate
<1>3. /\ tpc' \in [Thread -> {"none", "start", "bind", "recv", "reply", "done"}]
      /\ \A t \in Thread : tpc'[t] = "reply" => tpc[t] = "reply"
  BY <1>1, <1>2 DEF IInv, ServerTyped
<1>4. ServerTyped'
  BY <1>3 DEF IInv, ServerTyped, MainCreate, netVars
<1>5. ToldPorts \subseteq ToldPorts'
  <2>1. mpc = "create" /\ tnum' = tnum /\ tnum \in Int
    BY DEF IInv, ServerTyped, MainCreate
  <2>2. \A p \in Port : p \in Int
    BY DEF Port
  <2> QED BY <2>1, <2>2 DEF ToldPorts
<1>6. UNCHANGED cur
  BY DEF MainCreate
<1> QED BY <1>3, <1>4, <1>5, <1>6, ServerAlone

LEMMA MainReceiveKeeps ==
  ASSUME ServerAssumption, IInv, mainq # <<>>, MainReceive(Head(mainq)),
         mainq' = Tail(mainq), UNCHANGED <<clientVars, threadq, clientq>>
  PROVE  IInv'
<1>1. mainq \in Seq(Client) /\ tnum \in 0..MaxThreads
  BY DEF IInv, ServerTyped
<1>2. Head(mainq) \in Client /\ Tail(mainq) \in Seq(Client)
  BY <1>1, TailRange
<1>3. /\ mpc = "recv" /\ mpc' = "create" /\ tnum' = tnum + 1 /\ client' = Head(mainq)
      /\ tnum < MaxThreads /\ UNCHANGED <<tpc, cur>>
  BY DEF MainReceive
<1>4. tnum' \in 0..MaxThreads /\ tnum' > 0
  BY <1>1, <1>3 DEF ServerAssumption
<1>5. ServerTyped'
  BY <1>2, <1>3, <1>4 DEF IInv, ServerTyped
<1>6. UNCHANGED <<cpc, server, clientq, threadq>>
  BY DEF clientVars
<1>7. ClientsTyped'
  BY <1>6 DEF IInv, ClientsTyped
<1>8. ToldPorts' = ToldPorts
  <2>1. tnum' - 1 = tnum
    BY <1>1, <1>3
  <2> QED BY <1>3, <2>1 DEF ToldPorts
<1>9. \A c \in Client : Held(c)' \subseteq Held(c)
  BY <1>6, HeldStays
<1> QED BY <1>3, <1>5, <1>6, <1>7, <1>8, <1>9, Kept

(* The port told is a new one.                                              *)
LEMMA MainSendKeeps ==
  ASSUME ServerAssumption, IInv, MainSend,
         SendToClient(client, [kind |-> "port", port |-> Told]),
         UNCHANGED <<clientVars, mainq, threadq>>
  PROVE  IInv'
<1> DEFINE told == [kind |-> "port", port |-> Told]
<1>1. mpc = "send" /\ mpc' = "recv" /\ UNCHANGED <<tnum, client, tpc, cur>>
  BY DEF MainSend
<1>2. UNCHANGED <<cpc, server, mainq, threadq>>
  BY DEF clientVars
<1>3. client \in Client /\ tnum \in 0..MaxThreads /\ tnum > 0
  BY <1>1 DEF IInv, ServerTyped
<1>4. Told \in Port /\ Told = tnum - 1
  BY <1>3 DEF Told, Port, ServerAssumption
<1>5. told \in Message
  BY <1>4 DEF Message
<1>6. /\ clientq' \in [Client -> Seq(Message)]
      /\ \A d \in Client : Range(clientq'[d]) \subseteq
           Range(clientq[d]) \cup (IF d = client THEN {told} ELSE {})
  BY <1>3, <1>5, ClientHears DEF IInv
<1>7. told.port = Told
  OBVIOUS
<1> HIDE DEF told
<1>8. ServerTyped'
  BY <1>1, <1>2 DEF IInv, ServerTyped
<1>9. ClientsTyped'
  BY <1>2, <1>6 DEF IInv, ClientsTyped
<1>10. \A c \in Client : Held(c)' \subseteq Held(c) \cup (IF c = client THEN {Told} ELSE {})
  BY <1>2, <1>6, <1>7 DEF Held, PortsIn
<1>11. ToldPorts' = ToldPorts \cup {Told} /\ Told \notin ToldPorts
  <2>1. ToldPorts = {p \in Port : p < tnum - 1} /\ ToldPorts' = {p \in Port : p < tnum}
    BY <1>1 DEF ToldPorts
  <2>2. \A p \in Port : p \in Int /\ (p < tnum <=> p < tnum - 1 \/ p = tnum - 1)
    BY <1>3 DEF Port
  <2>3. ~(tnum - 1 < tnum - 1)
    BY <1>3
  <2> QED BY <1>4, <2>1, <2>2, <2>3
<1>12. HeldWereTold'
  BY <1>10, <1>11 DEF IInv, HeldWereTold
<1>13. HeldByOne'
  <2>1. \A c \in Client : Told \notin Held(c)
    BY <1>11 DEF IInv, HeldWereTold
  <2> QED BY <1>10, <2>1 DEF IInv, HeldByOne
<1>14. EarlyUnserved'
  BY <1>2, <1>4, <1>6, <1>7 DEF IInv, EarlyUnserved
<1>15. ThreadsHearLater'
  BY <1>1, <1>2 DEF IInv, ThreadsHearLater
<1> QED BY <1>8, <1>9, <1>12, <1>13, <1>14, <1>15 DEF IInv

LEMMA InterruptKeeps == ASSUME IInv, ServerInterrupt PROVE IInv'
<1>1. UNCHANGED <<mpc, tnum, client, tpc, cur>> /\ UNCHANGED <<clientVars, netVars>>
  BY DEF ServerInterrupt, Interrupt
<1>2. ServerTyped'
  BY <1>1 DEF IInv, ServerTyped, netVars
<1>3. ToldPorts' = ToldPorts
  BY <1>1 DEF ToldPorts
<1> QED BY <1>1, <1>2, <1>3, ServerAlone

LEMMA ThreadStartsKeeps ==
  ASSUME IInv, NEW t \in Thread, ReadNumber(t) \/ Bind(t), UNCHANGED <<clientVars, netVars>>
  PROVE  IInv'
<1>1. UNCHANGED <<mpc, tnum, client, cur>>
  BY DEF ReadNumber, Bind
<1>2. PICK p \in {"bind", "recv", "done"} : tpc' = [tpc EXCEPT ![t] = p]
  BY DEF ReadNumber, Bind
<1>3. /\ tpc' \in [Thread -> {"none", "start", "bind", "recv", "reply", "done"}]
      /\ \A u \in Thread : tpc'[u] = "reply" => tpc[u] = "reply"
  BY <1>2 DEF IInv, ServerTyped
<1>4. ServerTyped'
  BY <1>1, <1>3 DEF IInv, ServerTyped, netVars
<1>5. ToldPorts' = ToldPorts
  BY <1>1 DEF ToldPorts
<1> QED BY <1>1, <1>3, <1>4, <1>5, ServerAlone

LEMMA ReceiveKeeps ==
  ASSUME IInv, NEW t \in Thread, threadq[t] # <<>>, Receive(t, Head(threadq[t])),
         threadq' = [threadq EXCEPT ![t] = Tail(@)],
         UNCHANGED <<clientVars, mainq, clientq>>
  PROVE  IInv'
<1>0. /\ threadq \in [Thread -> Seq(Datagram)] /\ cur \in [Thread -> Datagram]
      /\ tpc \in [Thread -> {"none", "start", "bind", "recv", "reply", "done"}]
  BY DEF IInv, ServerTyped
<1>1. /\ Head(threadq[t]) \in Datagram /\ Head(threadq[t]) \in Range(threadq[t])
      /\ Tail(threadq[t]) \in Seq(Datagram) /\ Range(Tail(threadq[t])) \subseteq Range(threadq[t])
  BY <1>0, TailRange
<1>2. /\ cur' = [cur EXCEPT ![t] = Head(threadq[t])]
      /\ tpc' = [tpc EXCEPT ![t] = "reply"]
      /\ UNCHANGED <<mpc, tnum, client>>
  BY DEF Receive
<1>3. UNCHANGED <<cpc, server, clientq, mainq>>
  BY DEF clientVars
<1>4. /\ cur' \in [Thread -> Datagram] /\ threadq' \in [Thread -> Seq(Datagram)]
      /\ tpc' \in [Thread -> {"none", "start", "bind", "recv", "reply", "done"}]
  BY <1>0, <1>1, <1>2
<1>5. ServerTyped'
  BY <1>2, <1>3, <1>4 DEF IInv, ServerTyped
<1>6. ClientsTyped'
  BY <1>3 DEF IInv, ClientsTyped
<1>7. ToldPorts' = ToldPorts
  BY <1>2 DEF ToldPorts
<1>8. \A c \in Client : Held(c)' \subseteq Held(c)
  BY <1>3, HeldStays
<1>9. \A u \in Thread : Range(threadq'[u]) \subseteq Range(threadq[u])
  BY <1>0, <1>1
<1>10. \A u \in Thread : tpc'[u] = "reply" =>
         \/ tpc[u] = "reply" /\ cur'[u] = cur[u]
         \/ cur'[u] \in Range(threadq[u])
  BY <1>0, <1>1, <1>2
<1> QED BY <1>3, <1>5, <1>6, <1>7, <1>8, <1>9, <1>10, Kept

(* Who is answered has sent to a thread, so has its port already.           *)
LEMMA ReplyKeeps ==
  ASSUME ServerAssumption, IInv, NEW t \in Thread, Reply(t),
         SendToClient(cur[t].from, [kind |-> Answer(t), port |-> NoPort]),
         UNCHANGED <<clientVars, mainq, threadq>>
  PROVE  IInv'
<1> DEFINE m == [kind |-> Answer(t), port |-> NoPort]
<1>1. tpc[t] = "reply" /\ UNCHANGED <<mpc, tnum, client, cur>>
  BY DEF Reply
<1>2. PICK p \in {"recv", "done"} : tpc' = [tpc EXCEPT ![t] = p]
  BY DEF Reply
<1>3. UNCHANGED <<cpc, server, mainq, threadq>>
  BY DEF clientVars
<1>4. cur[t].from \in Client /\ cpc[cur[t].from] \notin Early
  BY <1>1, FromClients DEF IInv, ThreadsHearLater
<1>5. m \in Message /\ m.port \notin Port
  BY DEF Message, Answer, ServerAssumption
<1>6. /\ clientq' \in [Client -> Seq(Message)]
      /\ \A d \in Client : Range(clientq'[d]) \subseteq
           Range(clientq[d]) \cup (IF d = cur[t].from THEN {m} ELSE {})
  BY <1>4, <1>5, ClientHears DEF IInv
<1> HIDE DEF m
<1>7. /\ tpc' \in [Thread -> {"none", "start", "bind", "recv", "reply", "done"}]
      /\ \A u \in Thread : tpc'[u] = "reply" => tpc[u] = "reply"
  BY <1>2 DEF IInv, ServerTyped
<1>8. ServerTyped'
  BY <1>1, <1>3, <1>7 DEF IInv, ServerTyped
<1>9. ClientsTyped'
  BY <1>3, <1>6 DEF IInv, ClientsTyped
<1>10. \A d \in Client : Held(d)' \subseteq Held(d)
  <2>1. \A d \in Client : Range(clientq'[d]) \subseteq Range(clientq[d]) \cup {m}
    BY <1>6
  <2>2. \A x \in {m} : x.port \notin Port
    BY <1>5
  <2> QED BY <1>3, <2>1, <2>2, HeldWithout
<1>11. \A d \in Client : cpc'[d] \in Early =>
         cpc[d] \in Early /\ server'[d] = server[d] /\ Range(clientq'[d]) \subseteq Range(clientq[d])
  BY <1>3, <1>4, <1>6
<1>12. ToldPorts' = ToldPorts
  BY <1>1 DEF ToldPorts
<1> QED BY <1>1, <1>3, <1>7, <1>8, <1>9, <1>10, <1>11, <1>12, Kept

-----------------------------------------------------------------------------
(* The clients' steps.                                                      *)

(* Client c moves on, and its queue is as it was.                           *)
LEMMA MovesOn ==
  ASSUME IInv, NEW c \in Client, UNCHANGED <<vars, server, clientq>>,
         NEW p \in {"answer", "reply", "bye", "done"}, Goes(c, p),
         p = "answer" => cpc[c] \in Early,
         mainq' \in Seq(Client), threadq' \in [Thread -> Seq(Datagram)],
         \A t \in Thread : \A m \in Range(threadq'[t]) :
           m \in Range(threadq[t]) \/ cpc'[m.from] \notin Early
  PROVE  IInv'
<1>1. cpc \in [Client -> {"request", "answer", "scanf", "reply", "bye", "done"}]
  BY DEF IInv, ClientsTyped
<1>2. cpc' = [cpc EXCEPT ![c] = p]
  BY DEF Goes
<1>3. /\ cpc' \in [Client -> {"request", "answer", "scanf", "reply", "bye", "done"}]
      /\ \A d \in Client : cpc'[d] \in Early => cpc[d] \in Early
  BY <1>1, <1>2 DEF Early
<1>4. ClientsTyped'
  BY <1>3 DEF IInv, ClientsTyped
<1>5. \A d \in Client : Held(d)' \subseteq Held(d)
  BY HeldStays
<1>6. UNCHANGED vars
  OBVIOUS
<1> QED BY <1>3, <1>4, <1>5, <1>6, ClientAlone

(* A word to whom server[c] names.                                          *)
LEMMA SaysKeeps ==
  ASSUME IInv, NEW c \in Client, UNCHANGED <<vars, server, clientq>>,
         NEW k \in {"text", "END"}, SendToServer(c, k),
         NEW p \in {"answer", "reply", "done"}, Goes(c, p),
         p = "answer" => cpc[c] \in Early
  PROVE  IInv'
<1>1. /\ mainq' \in Seq(Client) /\ threadq' \in [Thread -> Seq(Datagram)]
      /\ \A t \in Thread :
           Range(threadq'[t]) \subseteq Range(threadq[t]) \cup {[from |-> c, kind |-> k]}
      /\ server[c] = MainPort => threadq' = threadq
  BY ServerHears DEF IInv
<1>2. cpc \in [Client -> {"request", "answer", "scanf", "reply", "bye", "done"}]
  BY DEF IInv, ClientsTyped
<1>3. cpc'[c] = p
  BY <1>2 DEF Goes
<1>4. \A t \in Thread : \A m \in Range(threadq'[t]) :
        m \in Range(threadq[t]) \/ cpc'[m.from] \notin Early
  <2>1. CASE p = "answer"
    <3>1. server[c] = MainPort
      BY <2>1 DEF IInv, EarlyUnserved
    <3> QED BY <1>1, <3>1
  <2>2. CASE p # "answer"
    <3>1. cpc'[c] \notin Early
      BY <1>3, <2>2 DEF Early
    <3>2. [from |-> c, kind |-> k].from = c
      OBVIOUS
    <3> QED BY <1>1, <3>1, <3>2
  <2> QED BY <2>1, <2>2
<1> QED BY <1>1, <1>4, MovesOn

LEMMA StopsWaitingKeeps ==
  ASSUME IInv, NEW c \in Client, UNCHANGED <<vars, server, netVars>>,
         NEW p \in {"bye", "done"}, Goes(c, p)
  PROVE  IInv'
<1>1. UNCHANGED <<mainq, threadq, clientq>>
  BY DEF netVars
<1>2. mainq' \in Seq(Client) /\ threadq' \in [Thread -> Seq(Datagram)]
  BY <1>1 DEF IInv, ServerTyped
<1> QED BY <1>1, <1>2, MovesOn

(* The first datagram of who waits for its port tells it one.               *)
LEMMA GetPortKeeps == ASSUME IInv, NEW c \in Client, GetPort(c) PROVE IInv'
<1>1. /\ cpc[c] = "answer" /\ clientq[c] # <<>>
      /\ server' = [server EXCEPT ![c] = Head(clientq[c]).port]
      /\ clientq' = [clientq EXCEPT ![c] = Tail(@)]
      /\ UNCHANGED <<mainq, threadq, vars>>
  BY DEF GetPort, PortOf
<1>2. PICK p \in {"bye", "scanf"} : cpc' = [cpc EXCEPT ![c] = p]
  BY DEF GetPort, Goes, AfterTest
<1>3. /\ cpc \in [Client -> {"request", "answer", "scanf", "reply", "bye", "done"}]
      /\ server \in [Client -> Port \cup {MainPort}] /\ clientq \in [Client -> Seq(Message)]
  BY DEF IInv, ClientsTyped
<1>4. /\ clientq' \in [Client -> Seq(Message)]
      /\ \A d \in Client : Range(clientq'[d]) \subseteq Range(clientq[d])
      /\ Head(clientq[c]) \in Range(clientq[c])
  BY <1>1, ClientReads DEF IInv
<1>5. Head(clientq[c]).port \in Port
  BY <1>1, <1>4 DEF IInv, EarlyUnserved, Early
<1>6. /\ cpc' \in [Client -> {"request", "answer", "scanf", "reply", "bye", "done"}]
      /\ cpc'[c] \notin Early /\ \A d \in Client : cpc'[d] \in Early => cpc[d] \in Early
  BY <1>2, <1>3 DEF Early
<1>7. /\ server' \in [Client -> Port \cup {MainPort}]
      /\ server'[c] = Head(clientq[c]).port
      /\ \A d \in Client : d # c => server'[d] = server[d]
  BY <1>1, <1>3, <1>5
<1>8. ClientsTyped'
  BY <1>4, <1>6, <1>7 DEF ClientsTyped
<1>9. \A d \in Client : Held(d)' \subseteq Held(d)
  BY <1>4, <1>7 DEF Held, PortsIn
<1>10. mainq' \in Seq(Client) /\ threadq' \in [Thread -> Seq(Datagram)]
  BY <1>1 DEF IInv, ServerTyped
<1>11. \A d \in Client : cpc'[d] \in Early =>
         cpc[d] \in Early /\ server'[d] = server[d] /\ Range(clientq'[d]) \subseteq Range(clientq[d])
  BY <1>4, <1>6, <1>7
<1> QED BY <1>1, <1>8, <1>9, <1>10, <1>11, ClientAlone

LEMMA GetReplyKeeps == ASSUME IInv, NEW c \in Client, GetReply(c) PROVE IInv'
<1>1. /\ clientq[c] # <<>> /\ clientq' = [clientq EXCEPT ![c] = Tail(@)]
      /\ UNCHANGED <<server, mainq, threadq, vars>>
  BY DEF GetReply
<1>2. PICK p \in {"bye", "scanf", "done"} : cpc' = [cpc EXCEPT ![c] = p]
  BY DEF GetReply, Goes, AfterReply, AfterTest
<1>3. cpc \in [Client -> {"request", "answer", "scanf", "reply", "bye", "done"}]
  BY DEF IInv, ClientsTyped
<1>4. /\ clientq' \in [Client -> Seq(Message)]
      /\ \A d \in Client : Range(clientq'[d]) \subseteq Range(clientq[d])
  BY <1>1, ClientReads DEF IInv
<1>5. /\ cpc' \in [Client -> {"request", "answer", "scanf", "reply", "bye", "done"}]
      /\ \A d \in Client : cpc'[d] \in Early => cpc[d] \in Early
  BY <1>2, <1>3 DEF Early
<1>6. ClientsTyped'
  BY <1>1, <1>4, <1>5 DEF IInv, ClientsTyped
<1>7. \A d \in Client : Held(d)' \subseteq Held(d)
  BY <1>1, <1>4 DEF Held, PortsIn
<1>8. mainq' \in Seq(Client) /\ threadq' \in [Thread -> Seq(Datagram)]
  BY <1>1 DEF IInv, ServerTyped
<1>9. \A d \in Client : cpc'[d] \in Early =>
        cpc[d] \in Early /\ server'[d] = server[d] /\ Range(clientq'[d]) \subseteq Range(clientq[d])
  BY <1>1, <1>4, <1>5
<1> QED BY <1>1, <1>6, <1>7, <1>8, <1>9, ClientAlone

-----------------------------------------------------------------------------
LEMMA ServerKeeps ==
  ASSUME ServerAssumption, IInv, MainRuns \/ ServerInterrupt \/ \E t \in Thread : ThreadRuns(t)
  PROVE  IInv'
<1>1. CASE MainRuns
  <2>1. CASE MainStops /\ UNCHANGED <<clientVars, netVars>>
    BY <2>1, MainStopsKeeps
  <2>2. CASE MainCreate /\ UNCHANGED <<clientVars, netVars>>
    BY <2>2, MainCreateKeeps
  <2>3. CASE /\ mainq # <<>> /\ MainReceive(Head(mainq))
             /\ mainq' = Tail(mainq)
             /\ UNCHANGED <<clientVars, threadq, clientq>>
    BY <2>3, MainReceiveKeeps
  <2>4. CASE /\ MainSend /\ SendToClient(client, [kind |-> "port", port |-> Told])
             /\ UNCHANGED <<clientVars, mainq, threadq>>
    BY <2>4, MainSendKeeps
  <2> QED BY <1>1, <2>1, <2>2, <2>3, <2>4 DEF MainRuns
<1>2. CASE ServerInterrupt
  BY <1>2, InterruptKeeps
<1>3. ASSUME NEW t \in Thread, ThreadRuns(t) PROVE IInv'
  <2>1. CASE (ReadNumber(t) \/ Bind(t)) /\ UNCHANGED <<clientVars, netVars>>
    BY <2>1, ThreadStartsKeeps
  <2>2. CASE /\ threadq[t] # <<>> /\ Receive(t, Head(threadq[t]))
             /\ threadq' = [threadq EXCEPT ![t] = Tail(@)]
             /\ UNCHANGED <<clientVars, mainq, clientq>>
    BY <2>2, ReceiveKeeps
  <2>3. CASE /\ Reply(t)
             /\ SendToClient(cur[t].from, [kind |-> Answer(t), port |-> NoPort])
             /\ UNCHANGED <<clientVars, mainq, threadq>>
    BY <2>3, ReplyKeeps
  <2> QED BY <1>3, <2>1, <2>2, <2>3 DEF ThreadRuns
<1> QED BY <1>1, <1>2, <1>3

LEMMA ClientKeeps ==
  ASSUME IInv, NEW c \in Client,
         \/ Request(c) \/ ClientRuns(c) \/ ClientInterrupt(c)
         \/ \E w \in {"text", "END"} : Word(c, w)
  PROVE  IInv'
<1>1. CASE Request(c)
  <2>1. /\ SendToServer(c, "text") /\ Goes(c, "answer") /\ cpc[c] \in Early
        /\ UNCHANGED <<vars, server, clientq>>
    BY <1>1 DEF Request, Early
  <2> QED BY <2>1, SaysKeeps
<1>2. CASE GetPort(c)
  BY <1>2, GetPortKeeps
<1>3. CASE NoPortCame(c)
  <2>1. Goes(c, "bye") /\ UNCHANGED <<vars, server, netVars>>
    BY <1>3 DEF NoPortCame
  <2> QED BY <2>1, StopsWaitingKeeps
<1>4. ASSUME NEW w \in {"text", "END"}, Say(c, w) PROVE IInv'
  <2>1. /\ SendToServer(c, w) /\ Goes(c, "reply")
        /\ UNCHANGED <<vars, server, clientq>>
    BY <1>4 DEF Say
  <2> QED BY <2>1, SaysKeeps
<1>5. CASE GetReply(c)
  BY <1>5, GetReplyKeeps
<1>6. CASE NoReply(c)
  <2>1. Goes(c, AfterReply(c, msg[c])) /\ UNCHANGED <<vars, server, netVars>>
    BY <1>6 DEF NoReply
  <2>2. AfterReply(c, msg[c]) \in {"bye", "done"}
    BY <1>6 DEF NoReply, AfterReply, AfterTest
  <2> QED BY <2>1, <2>2, StopsWaitingKeeps
<1>7. CASE Bye(c)
  <2>1. /\ SendToServer(c, "END") /\ Goes(c, "done")
        /\ UNCHANGED <<vars, server, clientq>>
    BY <1>7 DEF Bye
  <2> QED BY <2>1, SaysKeeps
<1>8. CASE ClientInterrupt(c)
  <2>1. UNCHANGED <<cpc, server, netVars, vars>>
    BY <1>8 DEF ClientInterrupt
  <2>2. UNCHANGED <<mainq, threadq, clientq>>
    BY <2>1 DEF netVars
  <2>3. ClientsTyped' /\ mainq' \in Seq(Client) /\ threadq' \in [Thread -> Seq(Datagram)]
    BY <2>1, <2>2 DEF IInv, ClientsTyped, ServerTyped
  <2>4. \A d \in Client : Held(d)' \subseteq Held(d)
    BY <2>1, <2>2, HeldStays
  <2> QED BY <2>1, <2>2, <2>3, <2>4, ClientAlone
<1>9. CASE \E w \in {"text", "END"} : Word(c, w)
  BY <1>4, <1>9 DEF Word
<1>10. CASE NoWord(c)
  BY <1>4, <1>10 DEF NoWord
<1> QED BY <1>1, <1>2, <1>3, <1>5, <1>6, <1>7, <1>8, <1>9, <1>10 DEF ClientRuns

LEMMA StandsStill == ASSUME IInv, UNCHANGED sysVars PROVE IInv'
<1>1. UNCHANGED <<clientVars, netVars>> /\ UNCHANGED <<mpc, tnum, client, tpc, cur>>
  BY DEF sysVars, vars
<1>2. ServerTyped'
  BY <1>1 DEF IInv, ServerTyped, netVars
<1>3. ToldPorts' = ToldPorts
  BY <1>1 DEF ToldPorts
<1> QED BY <1>1, <1>2, <1>3, ServerAlone

(* Held ports are one client's, and the port a client sends to is held.     *)
LEMMA HeldOnce == ASSUME IInv PROVE OneClientPerThread
<1>1. SUFFICES ASSUME NEW c \in Client, NEW d \in Client, c # d, server[c] # MainPort
               PROVE  server[c] # server[d]
  BY DEF OneClientPerThread
<1>2. server[c] \in Port
  BY <1>1 DEF IInv, ClientsTyped
<1>3. server[c] \in Held(c) /\ (server[d] = server[c] => server[c] \in Held(d))
  BY <1>2 DEF Held
<1> QED BY <1>1, <1>3 DEF IInv, HeldByOne

(* For every number of clients, requests and words, and as long as main's   *)
(* port is not one it gives to threads, no two clients are ever sent to     *)
(* one thread.                                                              *)
THEOREM OneClientEach == SysSpec => []OneClientPerThread
<1>1. SysInit => IInv
  BY InitHolds, ServerAssumption, SystemAssumption
<1>2. IInv /\ [SysNext]_sysVars => IInv'
  BY ServerKeeps, ClientKeeps, StandsStill, ServerAssumption DEF SysNext
<1>3. IInv => OneClientPerThread
  BY HeldOnce
<1> QED BY <1>1, <1>2, <1>3, PTL DEF SysSpec

-----------------------------------------------------------------------------
(* The end of a session ends its thread.                                    *)

SessionTyped ==
  /\ num \in [Thread -> Port \cup {NoPort}] /\ sock \in [Thread -> Port \cup {NoPort}]
  /\ cint \in [Client -> BOOLEAN] /\ msg \in [Client -> {"text", "END", "ok", "port"}]

(* A thread knows its own port or none, and listens there or nowhere.       *)
AtHome ==
  \A t \in Thread :
    /\ num[t] \in {NoPort, t - 1} /\ sock[t] \in {NoPort, t - 1}
    /\ tpc[t] \in {"none", "start", "bind"} => sock[t] = NoPort
    /\ tpc[t] \in {"recv", "reply"} => sock[t] = num[t]
    /\ t > tnum \/ (mpc = "create" /\ t = tnum) => tpc[t] = "none"

(* A thread hears those that were sent to it, and END is its last answer.   *)
OwnClients ==
  /\ \A t \in Thread :
       /\ \A m \in Range(threadq[t]) : server[m.from] = t - 1
       /\ tpc[t] = "reply" => server[cur[t].from] = t - 1
  /\ \A c \in Client : \A m \in Range(clientq[c]) :
       /\ m.port \in Port => m.kind = "port"
       /\ m.kind = "END" => \A t \in Thread : server[c] = t - 1 => tpc[t] = "done"

(* A patient client waits for the one answer to its one request.            *)
OneRequest ==
  /\ \A c \in Client :
       /\ cpc[c] \in Early => ~cint[c]
       /\ cpc[c] \notin Early => server[c] # MainPort
       /\ cpc[c] = "request" => clientq[c] = <<>>
  /\ \A i, j \in DOMAIN mainq : mainq[i] = mainq[j] => i = j
  /\ \A c \in Range(mainq) : cpc[c] = "answer" /\ clientq[c] = <<>>
  /\ mpc \in {"create", "send"} =>
       cpc[client] = "answer" /\ clientq[client] = <<>> /\ client \notin Range(mainq)

(* It says nothing, and is not interrupted, before its thread listens.      *)
SettledFirst ==
  \A c \in Client :
    cpc[c] \in {"reply", "bye", "done"} \/ (cpc[c] = "scanf" /\ cint[c]) => Settled(c)

(* The threads that know their port or are still to read it.                *)
Alive(t) ==
  tpc[t] \in {"start", "bind"} \/ (tpc[t] \in {"recv", "reply"} /\ sock[t] # NoPort)

EndComes(t) ==
  \/ \E m \in Range(threadq[t]) : m.kind = "END"
  \/ tpc[t] = "reply" /\ cur[t].kind = "END"

(* Client c is to be told of t, or has been and will send it an END.        *)
Engaged(c, t) ==
  \/ mpc = "send" /\ tnum = t /\ client = c
  \/ cpc[c] = "answer" /\ clientq[c] # <<>> /\ Head(clientq[c]).port = t - 1
  \/ server[c] = t - 1 /\ (cpc[c] \in {"scanf", "bye"} \/ (cpc[c] = "reply" /\ msg[c] # "END"))

EndIsDue == \A t \in Thread : Alive(t) => EndComes(t) \/ \E c \in Client : Engaged(c, t)

SessionInv ==
  /\ IInv /\ SessionTyped /\ AtHome /\ OwnClients
  /\ patient => OneRequest /\ SettledFirst
  /\ patient /\ mpc # "done" => EndIsDue

ServerActs ==
  MainRuns \/ ServerInterrupt \/ \E t \in Thread : ThreadRuns(t)

ClientActs(c) ==
  \/ Request(c) \/ ClientRuns(c) \/ ClientInterrupt(c)
  \/ \E w \in {"text", "END"} : Word(c, w)

LEMMA HearsExactly ==
  ASSUME ServerTyped, NEW c \in Client, NEW k \in {"text", "END"}, SendToServer(c, k)
  PROVE  \A t \in Thread : Range(threadq'[t]) = Range(threadq[t]) \cup
           (IF server[c] # MainPort /\ sock[t] = server[c] /\ Lives(t)
              THEN {[from |-> c, kind |-> k]} ELSE {})
<1> DEFINE m == [from |-> c, kind |-> k]
<1>1. threadq \in [Thread -> Seq(Datagram)] /\ m \in Datagram
  BY DEF ServerTyped, Datagram
<1>2. CASE server[c] = MainPort
  BY <1>2 DEF SendToServer
<1>3. CASE server[c] # MainPort
  <2>1. threadq' = [t \in Thread |-> IF sock[t] = server[c] /\ Lives(t)
                                       THEN Append(threadq[t], m) ELSE threadq[t]]
    BY <1>3 DEF SendToServer
  <2> HIDE DEF m
  <2>2. \A t \in Thread : Range(Append(threadq[t], m)) = Range(threadq[t]) \cup {m}
    BY <1>1, AppendRange
  <2>3. \A t \in Thread : Range(threadq'[t]) = Range(threadq[t]) \cup
          (IF sock[t] = server[c] /\ Lives(t) THEN {m} ELSE {})
    BY <2>1, <2>2
  <2> QED BY <1>3, <2>3 DEF m
<1> QED BY <1>2, <1>3

(* A step of client c leaves the server and the other clients alone.        *)
LEMMA OthersStay ==
  ASSUME IInv, SessionTyped, NEW c \in Client, ClientActs(c)
  PROVE  /\ UNCHANGED vars /\ UNCHANGED patient
         /\ cint' \in [Client -> BOOLEAN] /\ msg' \in [Client -> {"text", "END", "ok", "port"}]
         /\ \A d \in Client \ {c} :
              /\ cpc'[d] = cpc[d] /\ cint'[d] = cint[d] /\ server'[d] = server[d]
              /\ msg'[d] = msg[d] /\ clientq'[d] = clientq[d]
<1>0. /\ cpc \in [Client -> {"request", "answer", "scanf", "reply", "bye", "done"}]
      /\ server \in [Client -> Port \cup {MainPort}] /\ clientq \in [Client -> Seq(Message)]
      /\ cint \in [Client -> BOOLEAN] /\ msg \in [Client -> {"text", "END", "ok", "port"}]
  BY DEF IInv, ClientsTyped, SessionTyped
<1> USE <1>0 DEF Goes
<1>1. CASE Request(c)
  BY <1>1 DEF Request
<1>2. CASE GetPort(c)
  BY <1>2 DEF GetPort
<1>3. CASE NoPortCame(c)
  BY <1>3 DEF NoPortCame, netVars
<1>4. CASE NoWord(c) \/ \E w \in {"text", "END"} : Word(c, w)
  BY <1>4 DEF NoWord, Word, Say
<1>5. CASE GetReply(c)
  <2>1. Head(clientq[c]) \in Message
    BY <1>5, TailRange DEF GetReply
  <2>2. Head(clientq[c]).kind \in {"text", "END", "ok", "port"}
    BY <2>1 DEF Message
  <2> QED BY <1>5, <2>2 DEF GetReply
<1>6. CASE NoReply(c)
  BY <1>6 DEF NoReply, netVars
<1>7. CASE Bye(c)
  BY <1>7 DEF Bye
<1>8. CASE ClientInterrupt(c)
  BY <1>8 DEF ClientInterrupt, netVars
<1> QED BY <1>1, <1>2, <1>3, <1>4, <1>5, <1>6, <1>7, <1>8 DEF ClientActs, ClientRuns

LEMMA AtHomeKept ==
  ASSUME IInv, SessionTyped, AtHome, [SysNext]_sysVars
  PROVE  SessionTyped' /\ AtHome'
<1>0. /\ tpc \in [Thread -> {"none", "start", "bind", "recv", "reply", "done"}]
      /\ tnum \in 0..MaxThreads /\ mpc \in {"recv", "create", "send", "done"}
      /\ mpc \in {"create", "send"} => tnum > 0
      /\ Thread = 1..MaxThreads /\ MaxThreads \in Nat
      /\ \A t \in Thread : t - 1 \in Port
  BY ServerAssumption DEF IInv, ServerTyped, Thread, Port
<1>1. ASSUME NEW c \in Client, ClientActs(c) PROVE SessionTyped' /\ AtHome'
  BY <1>1, OthersStay DEF vars, SessionTyped, AtHome
<1>2. CASE UNCHANGED sysVars
  BY <1>2 DEF sysVars, vars, clientVars, SessionTyped, AtHome
<1>3. CASE MainRuns
  <2>1. UNCHANGED <<cint, msg, num, sock>>
    BY <1>3 DEF MainRuns, clientVars, MainStops, MainCreate, MainReceive, MainSend
  <2>2. SessionTyped'
    BY <2>1 DEF SessionTyped
  <2>3. CASE MainCreate
    BY <1>0, <2>1, <2>2, <2>3 DEF MainCreate, AtHome
  <2>4. CASE MainStops \/ MainSend \/ \E c : MainReceive(c)
    BY <1>0, <2>1, <2>2, <2>4 DEF MainStops, MainSend, MainReceive, AtHome
  <2> QED BY <1>3, <2>2, <2>3, <2>4 DEF MainRuns
<1>4. CASE ServerInterrupt
  BY <1>4 DEF ServerInterrupt, Interrupt, clientVars, SessionTyped, AtHome
<1>5. ASSUME NEW t \in Thread, ThreadRuns(t) PROVE SessionTyped' /\ AtHome'
  <2>1. UNCHANGED <<cint, msg, mpc, tnum>>
    BY <1>5 DEF ThreadRuns, ReadNumber, Bind, Receive, Reply, clientVars
  <2>2. CASE ReadNumber(t)
    BY <1>0, <2>1, <2>2 DEF ReadNumber, SessionTyped, AtHome
  <2>3. CASE Bind(t)
    BY <1>0, <2>1, <2>3 DEF Bind, SessionTyped, AtHome
  <2>4. CASE \E m : Receive(t, m)
    BY <1>0, <2>1, <2>4 DEF Receive, SessionTyped, AtHome
  <2>5. CASE Reply(t)
    BY <1>0, <2>1, <2>5 DEF Reply, SessionTyped, AtHome
  <2> QED BY <1>5, <2>2, <2>3, <2>4, <2>5 DEF ThreadRuns
<1> QED BY <1>1, <1>2, <1>3, <1>4, <1>5 DEF SysNext, ClientActs

(* What a step of the server leaves alone.                                  *)
LEMMA ClientsStay ==
  ASSUME ServerActs
  PROVE  UNCHANGED <<patient, cpc, cint, server, msg>>
BY DEF ServerActs, MainRuns, ServerInterrupt, ThreadRuns, clientVars

LEMMA OwnClientsKept ==
  ASSUME IInv, IInv', SessionTyped, AtHome, OwnClients, [SysNext]_sysVars
  PROVE  OwnClients'
<1>0. /\ tpc \in [Thread -> {"none", "start", "bind", "recv", "reply", "done"}]
      /\ cur \in [Thread -> Datagram] /\ threadq \in [Thread -> Seq(Datagram)]
      /\ server \in [Client -> Port \cup {MainPort}]
      /\ tnum \in 0..MaxThreads
      /\ mpc \in {"create", "send"} => tnum > 0
      /\ Thread = 1..MaxThreads /\ MaxThreads \in Nat
      /\ client \in Client /\ NoPort \notin Port
      /\ ServerTyped /\ ClientsTyped /\ EarlyUnserved /\ ThreadsHearLater
  BY ServerAssumption DEF IInv, ServerTyped, ClientsTyped, Thread
<1>1. /\ \A t \in Thread : \A m \in Range(threadq[t]) : m.from \in Client
      /\ \A t \in Thread : cur[t].from \in Client
  BY FromClients DEF IInv
(* Nothing comes, and no thread begins again.                               *)
<1>2. ASSUME UNCHANGED <<server, threadq, clientq, cur>>,
             \A t \in Thread : tpc'[t] = "reply" => tpc[t] = "reply",
             \A t \in Thread : tpc[t] = "done" => tpc'[t] = "done"
      PROVE  OwnClients'
  BY <1>2 DEF OwnClients
<1>3. CASE UNCHANGED sysVars
  BY <1>2, <1>3 DEF sysVars, vars, clientVars, netVars
<1>4. CASE ServerInterrupt
  BY <1>2, <1>4 DEF ServerInterrupt, Interrupt, clientVars, netVars
<1>5. CASE MainRuns
  <2>1. CASE MainStops /\ UNCHANGED <<clientVars, netVars>>
    BY <1>2, <2>1 DEF MainStops, clientVars, netVars
  <2>2. CASE MainCreate /\ UNCHANGED <<clientVars, netVars>>
    <3>1. mpc = "create" /\ tpc' = [tpc EXCEPT ![tnum] = "start"] /\ UNCHANGED cur
      BY <2>2 DEF MainCreate
    <3>2. tnum \in Thread
      BY <1>0, <3>1
    <3>3. tpc[tnum] = "none"
      BY <3>1, <3>2 DEF AtHome
    <3> QED BY <1>0, <1>2, <2>2, <3>1, <3>3 DEF MainCreate, clientVars, netVars
  <2>3. CASE (\E c : MainReceive(c)) /\ UNCHANGED <<clientVars, threadq, clientq>>
    BY <1>2, <2>3 DEF MainReceive, clientVars
  <2>4. CASE /\ MainSend /\ SendToClient(client, [kind |-> "port", port |-> Told])
             /\ UNCHANGED <<clientVars, mainq, threadq>>
    <3> DEFINE m == [kind |-> "port", port |-> Told]
    <3>1. Told \in Port
      <4>1. tnum \in 1..MaxThreads
        BY <1>0, <2>4 DEF MainSend
      <4> QED BY <1>0, <4>1 DEF Told, Port
    <3>2. m \in Message /\ m.kind = "port"
      BY <3>1 DEF Message
    <3>3. SendToClient(client, m)
      BY <2>4
    <3> HIDE DEF m
    <3>4. \A d \in Client : Range(clientq'[d]) \subseteq Range(clientq[d]) \cup {m}
      BY <1>0, <3>2, <3>3, ClientHears
    <3> QED BY <2>4, <3>2, <3>4 DEF MainSend, clientVars, OwnClients
  <2> QED BY <1>5, <2>1, <2>2, <2>3, <2>4 DEF MainRuns
<1>6. ASSUME NEW t \in Thread, ThreadRuns(t) PROVE OwnClients'
  <2>1. CASE (ReadNumber(t) \/ Bind(t)) /\ UNCHANGED <<clientVars, netVars>>
    BY <1>0, <1>2, <2>1 DEF ReadNumber, Bind, clientVars, netVars
  <2>2. CASE /\ threadq[t] # <<>> /\ Receive(t, Head(threadq[t]))
             /\ threadq' = [threadq EXCEPT ![t] = Tail(@)]
             /\ UNCHANGED <<clientVars, mainq, clientq>>
    <3>1. Range(Tail(threadq[t])) \subseteq Range(threadq[t]) /\ Head(threadq[t]) \in Range(threadq[t])
      BY <1>0, <2>2, TailRange
    <3>2. UNCHANGED <<server, clientq>>
      BY <2>2 DEF clientVars
    <3>3. \A u \in Thread : \A m \in Range(threadq'[u]) : server'[m.from] = u - 1
      BY <1>0, <2>2, <3>1, <3>2 DEF OwnClients
    <3>4. \A u \in Thread : /\ tpc'[u] = "reply" => server'[cur'[u].from] = u - 1
                            /\ tpc[u] = "done" => tpc'[u] = "done"
      BY <1>0, <2>2, <3>1, <3>2 DEF Receive, OwnClients
    <3> QED BY <3>2, <3>3, <3>4 DEF OwnClients
  <2>3. CASE /\ Reply(t)
             /\ SendToClient(cur[t].from, [kind |-> Answer(t), port |-> NoPort])
             /\ UNCHANGED <<clientVars, mainq, threadq>>
    <3> DEFINE m == [kind |-> Answer(t), port |-> NoPort]
               c == cur[t].from
    <3>1. /\ c \in Client /\ server[c] = t - 1
          /\ m \in Message /\ m.port \notin Port /\ (m.kind = "END" => tpc'[t] = "done")
      BY <1>0, <1>1, <2>3 DEF Reply, OwnClients, Message, Answer
    <3>2. SendToClient(c, m)
      BY <2>3
    <3> HIDE DEF m, c
    <3>3. \A d \in Client : Range(clientq'[d]) \subseteq
            Range(clientq[d]) \cup (IF d = c THEN {m} ELSE {})
      BY <1>0, <3>1, <3>2, ClientHears
    <3>4. UNCHANGED <<server, threadq, cur>>
      BY <2>3 DEF Reply, clientVars
    <3>5. \A u \in Thread : /\ tpc'[u] = "reply" => tpc[u] = "reply"
                            /\ tpc[u] = "done" => tpc'[u] = "done"
      BY <1>0, <2>3 DEF Reply
    <3>6. \A u \in Thread : server[c] = u - 1 => u = t
      BY <1>0, <3>1
    <3> QED BY <3>1, <3>3, <3>4, <3>5, <3>6 DEF OwnClients
  <2> QED BY <1>6, <2>1, <2>2, <2>3 DEF ThreadRuns
<1>7. ASSUME NEW c \in Client, ClientActs(c) PROVE OwnClients'
  <2>1. /\ UNCHANGED <<tpc, cur, sock>>
        /\ \A d \in Client \ {c} : server'[d] = server[d] /\ clientq'[d] = clientq[d]
    BY <1>7, OthersStay DEF vars
  (* A word of c.                                                           *)
  <2>2. ASSUME NEW k \in {"text", "END"}, SendToServer(c, k), UNCHANGED <<server, clientq>>
        PROVE  OwnClients'
    <3>1. \A t \in Thread : \A m \in Range(threadq'[t]) :
            m \in Range(threadq[t]) \/ (m.from = c /\ server[c] \in Port /\ sock[t] = server[c])
      BY <1>0, <2>2, HearsExactly
    <3>2. \A t \in Thread : sock[t] \in Port => sock[t] = t - 1
      BY <1>0 DEF AtHome
    <3> QED BY <2>1, <2>2, <3>1, <3>2 DEF OwnClients
  (* It reads, or nothing comes or goes.                                    *)
  <2>3. ASSUME UNCHANGED <<server, threadq>>, clientq' = clientq \/ Range(clientq'[c]) \subseteq Range(clientq[c])
        PROVE  OwnClients'
    <3>1. \A d \in Client : Range(clientq'[d]) \subseteq Range(clientq[d])
      BY <2>1, <2>3
    <3> QED BY <2>1, <2>3, <3>1 DEF OwnClients
  <2>4. CASE GetPort(c)
    <3>1. /\ cpc[c] = "answer" /\ clientq[c] # <<>>
          /\ clientq' = [clientq EXCEPT ![c] = Tail(@)] /\ UNCHANGED threadq
      BY <2>4 DEF GetPort
    <3>2. \A d \in Client : Range(clientq'[d]) \subseteq Range(clientq[d])
      BY <1>0, <3>1, ClientReads
    <3>3. \A m \in Range(clientq[c]) : m.kind # "END"
      BY <1>0, <3>1 DEF EarlyUnserved, Early, OwnClients
    <3>4. \A t \in Thread : /\ \A m \in Range(threadq[t]) : m.from # c
                            /\ tpc[t] = "reply" => cur[t].from # c
      BY <1>0, <3>1 DEF ThreadsHearLater, Early
    <3>5. \A t \in Thread : /\ \A m \in Range(threadq'[t]) : server'[m.from] = t - 1
                            /\ tpc'[t] = "reply" => server'[cur'[t].from] = t - 1
      BY <1>1, <2>1, <3>1, <3>4 DEF OwnClients
    <3>6. \A d \in Client : \A m \in Range(clientq'[d]) :
            /\ m.port \in Port => m.kind = "port"
            /\ m.kind = "END" => d # c
      BY <3>2, <3>3 DEF OwnClients
    <3> QED BY <2>1, <3>2, <3>5, <3>6 DEF OwnClients
  <2>5. CASE GetReply(c)
    <3>1. \A d \in Client : Range(clientq'[d]) \subseteq Range(clientq[d])
      BY <1>0, <2>5, ClientReads DEF GetReply
    <3> QED BY <2>3, <2>5, <3>1 DEF GetReply
  <2>6. CASE NoPortCame(c) \/ NoReply(c) \/ ClientInterrupt(c)
    BY <2>3, <2>6 DEF NoPortCame, NoReply, ClientInterrupt, netVars
  <2>7. CASE Request(c) \/ Bye(c) \/ NoWord(c) \/ \E w \in {"text", "END"} : Word(c, w)
    BY <2>2, <2>7 DEF Request, Bye, NoWord, Word, Say
  <2> QED BY <1>7, <2>4, <2>5, <2>6, <2>7 DEF ClientActs, ClientRuns
<1> QED BY <1>3, <1>4, <1>5, <1>6, <1>7 DEF SysNext, ClientActs

LEMMA OneRequestKept ==
  ASSUME IInv, IInv', SessionTyped, OneRequest, patient, [SysNext]_sysVars
  PROVE  OneRequest'
<1>0. /\ cpc \in [Client -> {"request", "answer", "scanf", "reply", "bye", "done"}]
      /\ cint \in [Client -> BOOLEAN] /\ server \in [Client -> Port \cup {MainPort}]
      /\ clientq \in [Client -> Seq(Message)] /\ mainq \in Seq(Client) /\ client \in Client
      /\ ServerTyped /\ ClientsTyped /\ EarlyUnserved /\ ThreadsHearLater /\ Distinct(mainq)
      /\ Range(mainq) \subseteq Client
  BY RangeOfSeq DEF IInv, ServerTyped, ClientsTyped, SessionTyped, OneRequest, Distinct
<1>1. ASSUME UNCHANGED <<cpc, cint, server, clientq, mainq, client>>,
             mpc' \in {"create", "send"} => mpc \in {"create", "send"}
      PROVE  OneRequest'
  BY <1>1 DEF OneRequest
<1>2. CASE UNCHANGED sysVars
  BY <1>1, <1>2 DEF sysVars, vars, clientVars, netVars
<1>3. CASE ServerInterrupt
  BY <1>1, <1>3 DEF ServerInterrupt, Interrupt, clientVars, netVars
<1>4. CASE MainRuns
  <2>1. CASE (MainStops \/ MainCreate) /\ UNCHANGED <<clientVars, netVars>>
    BY <1>1, <2>1 DEF MainStops, MainCreate, clientVars, netVars
  <2>2. CASE /\ mainq # <<>> /\ MainReceive(Head(mainq))
             /\ mainq' = Tail(mainq)
             /\ UNCHANGED <<clientVars, threadq, clientq>>
    <3>1. /\ Distinct(mainq') /\ Head(mainq) \notin Range(mainq')
          /\ Head(mainq) \in Range(mainq) /\ Range(mainq') \subseteq Range(mainq)
      BY <1>0, <2>2, TailDistinct, TailRange
    <3>2. client' = Head(mainq) /\ UNCHANGED <<cpc, cint, server, clientq>>
      BY <2>2 DEF MainReceive, clientVars
    <3> QED BY <3>1, <3>2 DEF OneRequest, Distinct
  <2>3. CASE /\ MainSend /\ SendToClient(client, [kind |-> "port", port |-> Told])
             /\ UNCHANGED <<clientVars, mainq, threadq>>
    <3>1. mpc = "send" /\ mpc' = "recv" /\ UNCHANGED <<cpc, cint, server, mainq>>
      BY <2>3 DEF MainSend, clientVars
    <3>2. cpc[client] = "answer" /\ client \notin Range(mainq)
      BY <3>1 DEF OneRequest
    <3>3. \A d \in Client \ {client} : clientq'[d] = clientq[d]
      BY <1>0, <2>3 DEF SendToClient
    <3> QED BY <1>0, <3>1, <3>2, <3>3 DEF OneRequest
  <2> QED BY <1>4, <2>1, <2>2, <2>3 DEF MainRuns
<1>5. ASSUME NEW t \in Thread, ThreadRuns(t) PROVE OneRequest'
  <2>1. CASE \/ (ReadNumber(t) \/ Bind(t)) /\ UNCHANGED <<clientVars, netVars>>
             \/ (\E m : Receive(t, m)) /\ UNCHANGED <<clientVars, mainq, clientq>>
    BY <1>1, <2>1 DEF ReadNumber, Bind, Receive, clientVars, netVars
  <2>2. CASE /\ Reply(t)
             /\ SendToClient(cur[t].from, [kind |-> Answer(t), port |-> NoPort])
             /\ UNCHANGED <<clientVars, mainq, threadq>>
    <3>1. UNCHANGED <<mpc, client, cpc, cint, server, mainq>> /\ tpc[t] = "reply"
      BY <2>2 DEF Reply, clientVars
    <3>2. cpc[cur[t].from] \notin Early
      BY <1>0, <3>1 DEF ThreadsHearLater
    <3>3. \A d \in Client : cpc[d] \in Early => clientq'[d] = clientq[d]
      BY <1>0, <2>2, <3>2 DEF SendToClient
    <3> QED BY <1>0, <3>1, <3>3 DEF OneRequest, Early
  <2> QED BY <1>5, <2>1, <2>2 DEF ThreadRuns
<1>6. ASSUME NEW c \in Client, ClientActs(c) PROVE OneRequest'
  <2>1. /\ UNCHANGED <<mpc, client>>
        /\ \A d \in Client \ {c} :
             /\ cpc'[d] = cpc[d] /\ cint'[d] = cint[d] /\ server'[d] = server[d]
             /\ clientq'[d] = clientq[d]
    BY <1>6, OthersStay DEF vars
  (* Nothing more is asked of main by who has its port.                     *)
  <2>2. ASSUME cpc[c] \notin Early \/ clientq[c] # <<>>,
               cpc'[c] \notin Early, server'[c] # MainPort, UNCHANGED mainq
        PROVE  OneRequest'
    <3>1. c \notin Range(mainq) /\ (mpc \in {"create", "send"} => client # c)
      BY <2>2 DEF OneRequest, Early
    <3> QED BY <1>0, <2>1, <2>2, <3>1 DEF OneRequest, Early
  <2>3. CASE Request(c)
    <3>1. /\ cpc[c] = "request" /\ cpc' = [cpc EXCEPT ![c] = "answer"]
          /\ UNCHANGED <<cint, server, clientq>>
      BY <2>3 DEF Request, Goes
    <3>2. c \notin Range(mainq) /\ clientq[c] = <<>> /\ ~cint[c]
      BY <3>1 DEF OneRequest, Early
    <3>3. mainq' = mainq \/ mainq' = Append(mainq, c)
      BY <2>3, <3>1 DEF Request, SendToServer, IInv, EarlyUnserved, Early
    <3>4. Distinct(mainq') /\ Range(mainq') \subseteq Range(mainq) \cup {c}
      <4>1. Distinct(Append(mainq, c)) /\ Range(Append(mainq, c)) = Range(mainq) \cup {c}
        BY <1>0, <3>2, AppendDistinct, AppendRange
      <4> QED BY <1>0, <3>3, <4>1
    <3>5. mpc \in {"create", "send"} => client # c
      BY <3>1 DEF OneRequest
    <3> QED BY <1>0, <2>1, <3>1, <3>2, <3>4, <3>5 DEF OneRequest, Early, Distinct
  <2>4. CASE GetPort(c)
    <3>1. cpc[c] = "answer" /\ clientq[c] # <<>> /\ ~cint[c] /\ UNCHANGED mainq
      BY <2>4 DEF GetPort, OneRequest, Early
    <3>2. cpc'[c] = "scanf"
      BY <1>0, <2>4, <3>1 DEF GetPort, Goes, AfterTest
    <3>3. Head(clientq[c]).port \in Port
      BY <1>0, <3>1, TailRange DEF EarlyUnserved, Early
    <3>4. server'[c] # MainPort
      BY <1>0, <2>4, <3>3, SystemAssumption DEF GetPort, PortOf
    <3> QED BY <2>2, <3>1, <3>2, <3>4 DEF Early
  <2>5. ~NoPortCame(c)
    BY DEF NoPortCame, OneRequest, Early
  <2>6. CASE NoWord(c) \/ Bye(c) \/ \E w \in {"text", "END"} : Word(c, w)
    <3>1. /\ cpc[c] \in {"scanf", "bye"} /\ UNCHANGED server
          /\ \E k \in {"text", "END"} : SendToServer(c, k)
      BY <2>6 DEF NoWord, Bye, Word, Say
    <3>2. cpc'[c] \in {"reply", "done"}
      BY <1>0, <2>6 DEF NoWord, Bye, Word, Say, Goes
    <3>3. server[c] # MainPort
      BY <3>1 DEF OneRequest, Early
    <3>4. UNCHANGED mainq
      BY <3>1, <3>3 DEF SendToServer
    <3> QED BY <2>2, <3>1, <3>2, <3>3, <3>4 DEF Early
  <2>7. CASE GetReply(c) \/ NoReply(c)
    <3>1. cpc[c] = "reply" /\ UNCHANGED <<server, mainq>>
      BY <2>7 DEF GetReply, NoReply, netVars
    <3>2. cpc'[c] \in {"bye", "scanf", "done"}
      BY <1>0, <2>7 DEF GetReply, NoReply, Goes, AfterReply, AfterTest
    <3>3. server[c] # MainPort
      BY <3>1 DEF OneRequest, Early
    <3> QED BY <2>2, <3>1, <3>2, <3>3 DEF Early
  <2>8. CASE ClientInterrupt(c)
    <3>1. cpc[c] \notin Early /\ UNCHANGED <<cpc, server, mainq>>
      BY <2>8 DEF ClientInterrupt, netVars, Early
    <3>2. server[c] # MainPort
      BY <3>1 DEF OneRequest
    <3> QED BY <2>2, <3>1, <3>2
  <2> QED BY <1>6, <2>3, <2>4, <2>5, <2>6, <2>7, <2>8 DEF ClientActs, ClientRuns
<1> QED BY <1>2, <1>3, <1>4, <1>5, <1>6 DEF SysNext, ClientActs

LEMMA SettledFirstKept ==
  ASSUME IInv, SessionTyped, OneRequest, SettledFirst, patient, [SysNext]_sysVars
  PROVE  SettledFirst'
<1>0. /\ tpc \in [Thread -> {"none", "start", "bind", "recv", "reply", "done"}]
      /\ cpc \in [Client -> {"request", "answer", "scanf", "reply", "bye", "done"}]
      /\ cint \in [Client -> BOOLEAN] /\ server \in [Client -> Port \cup {MainPort}]
      /\ tnum \in 0..MaxThreads
      /\ mpc \in {"create", "send"} => tnum > 0
      /\ Thread = 1..MaxThreads /\ MaxThreads \in Nat
  BY ServerAssumption DEF IInv, ServerTyped, ClientsTyped, SessionTyped, Thread
<1>1. ASSUME UNCHANGED <<cpc, cint, server>>,
             \A t \in Thread : tpc'[t] \in {"start", "bind"} => tpc[t] \in {"start", "bind"}
      PROVE  SettledFirst'
  BY <1>1 DEF SettledFirst, Settled
<1>2. CASE UNCHANGED sysVars
  BY <1>1, <1>2 DEF sysVars, vars, clientVars
<1>3. CASE ServerInterrupt
  BY <1>1, <1>3 DEF ServerInterrupt, Interrupt, clientVars
<1>4. CASE MainRuns
  <2>1. CASE MainStops \/ MainSend \/ \E c : MainReceive(c)
    BY <1>1, <1>4, <2>1, ClientsStay DEF ServerActs, MainStops, MainSend, MainReceive
  (* The port of the thread created has not been told.                      *)
  <2>2. CASE MainCreate
    <3>1. mpc = "create" /\ tpc' = [tpc EXCEPT ![tnum] = "start"]
      BY <2>2 DEF MainCreate
    <3>2. tnum \in 1..MaxThreads
      BY <1>0, <3>1
    <3>3. UNCHANGED <<cpc, cint, server>>
      BY <1>4, ClientsStay DEF ServerActs
    <3>4. ASSUME NEW c \in Client PROVE server[c] # tnum - 1
      <4>1. SUFFICES ASSUME server[c] = tnum - 1 PROVE FALSE
        OBVIOUS
      <4>2. server[c] \in Port
        BY <3>2, <4>1, ServerAssumption DEF Port
      <4>3. server[c] \in ToldPorts
        BY <4>2 DEF Held, IInv, HeldWereTold
      <4> QED BY <3>1, <3>2, <4>1, <4>3 DEF ToldPorts
    <3>5. \A c \in Client, t \in Thread :
            server[c] = t - 1 /\ tpc'[t] \in {"start", "bind"} => tpc[t] \in {"start", "bind"}
      BY <1>0, <3>1, <3>4
    <3> QED BY <3>3, <3>5 DEF SettledFirst, Settled
  <2> QED BY <1>4, <2>1, <2>2 DEF MainRuns
<1>5. ASSUME NEW t \in Thread, ThreadRuns(t) PROVE SettledFirst'
  <2>1. UNCHANGED <<cpc, cint, server>>
    BY <1>5, ClientsStay DEF ServerActs
  <2>2. \A u \in Thread : tpc'[u] \in {"start", "bind"} => tpc[u] \in {"start", "bind"}
    BY <1>0, <1>5 DEF ThreadRuns, ReadNumber, Bind, Receive, Reply
  <2> QED BY <1>1, <2>1, <2>2
<1>6. ASSUME NEW c \in Client, ClientActs(c) PROVE SettledFirst'
  <2>1. /\ UNCHANGED tpc
        /\ \A d \in Client \ {c} :
             cpc'[d] = cpc[d] /\ cint'[d] = cint[d] /\ server'[d] = server[d]
    BY <1>6, OthersStay DEF vars
  <2>2. ASSUME UNCHANGED server, Settled(c) PROVE SettledFirst'
    BY <2>1, <2>2 DEF SettledFirst, Settled
  <2>3. ASSUME cpc'[c] \in Early \/ (cpc'[c] = "scanf" /\ ~cint'[c]) PROVE SettledFirst'
    <3>1. ~(cpc'[c] \in {"reply", "bye", "done"} \/ (cpc'[c] = "scanf" /\ cint'[c]))
      BY <2>3 DEF Early
    <3> QED BY <2>1, <3>1 DEF SettledFirst, Settled
  <2>4. CASE Request(c)
    <3>1. cpc'[c] \in Early
      BY <1>0, <2>4 DEF Request, Goes, Early
    <3> QED BY <2>3, <3>1
  <2>5. CASE GetPort(c)
    <3>1. ~cint[c] /\ UNCHANGED cint
      BY <2>5 DEF GetPort, OneRequest, Early
    <3>2. cpc'[c] = "scanf"
      BY <1>0, <2>5, <3>1 DEF GetPort, Goes, AfterTest
    <3> QED BY <2>3, <3>1, <3>2
  <2>6. ~NoPortCame(c)
    BY DEF NoPortCame, OneRequest, Early
  <2>7. CASE GetReply(c) \/ NoReply(c) \/ NoWord(c) \/ Bye(c)
    <3>1. Settled(c) /\ UNCHANGED server
      BY <2>7 DEF GetReply, NoReply, NoWord, Say, Bye, SettledFirst
    <3> QED BY <2>2, <3>1
  <2>8. CASE ClientInterrupt(c) \/ \E w \in {"text", "END"} : Word(c, w)
    <3>1. Settled(c) /\ UNCHANGED server
      BY <2>8 DEF ClientInterrupt, Word, Say
    <3> QED BY <2>2, <3>1
  <2> QED BY <1>6, <2>4, <2>5, <2>6, <2>7, <2>8 DEF ClientActs, ClientRuns
<1> QED BY <1>2, <1>3, <1>4, <1>5, <1>6 DEF SysNext, ClientActs

LEMMA EndIsDueKept ==
  ASSUME IInv, SessionTyped, AtHome, OwnClients, OneRequest, SettledFirst, EndIsDue,
         patient, mpc # "done", [SysNext]_sysVars, mpc' # "done"
  PROVE  EndIsDue'
<1>0. /\ tpc \in [Thread -> {"none", "start", "bind", "recv", "reply", "done"}]
      /\ cpc \in [Client -> {"request", "answer", "scanf", "reply", "bye", "done"}]
      /\ server \in [Client -> Port \cup {MainPort}] /\ sock \in [Thread -> Port \cup {NoPort}]
      /\ clientq \in [Client -> Seq(Message)] /\ threadq \in [Thread -> Seq(Datagram)]
      /\ cur \in [Thread -> Datagram] /\ client \in Client
      /\ tnum \in 0..MaxThreads
      /\ mpc \in {"create", "send"} => tnum > 0
      /\ Thread = 1..MaxThreads /\ MaxThreads \in Nat
      /\ msg \in [Client -> {"text", "END", "ok", "port"}]
      /\ ServerTyped /\ ClientsTyped /\ EarlyUnserved /\ ThreadsHearLater
  BY ServerAssumption DEF IInv, ServerTyped, ClientsTyped, SessionTyped, Thread
<1>1. SUFFICES ASSUME NEW t \in Thread, Alive(t)'
               PROVE  EndComes(t)' \/ \E c \in Client : Engaged(c, t)'
  BY DEF EndIsDue
<1>2. CASE UNCHANGED sysVars
  BY <1>1, <1>2 DEF sysVars, vars, clientVars, netVars, EndIsDue, Alive, EndComes, Engaged
<1>3. CASE ServerInterrupt
  BY <1>1, <1>3 DEF ServerInterrupt, Interrupt, clientVars, netVars,
                    EndIsDue, Alive, EndComes, Engaged
<1>4. CASE MainRuns
  <2>1. CASE MainCreate /\ UNCHANGED <<clientVars, netVars>>
    <3>1. /\ mpc = "create" /\ mpc' = "send" /\ tpc' = [tpc EXCEPT ![tnum] = "start"]
          /\ UNCHANGED <<tnum, client, cur, sock, cpc, server, msg, threadq, clientq>>
      BY <1>1, <2>1 DEF MainCreate, clientVars, netVars
    <3>2. CASE t = tnum
      BY <1>0, <3>1, <3>2 DEF Engaged
    <3>3. CASE t # tnum
      BY <1>0, <1>1, <3>1, <3>3 DEF EndIsDue, Alive, EndComes, Engaged
    <3> QED BY <3>2, <3>3
  <2>2. CASE (\E c : MainReceive(c)) /\ UNCHANGED <<clientVars, threadq, clientq>>
    BY <1>1, <2>2 DEF MainReceive, clientVars, EndIsDue, Alive, EndComes, Engaged
  <2>3. CASE /\ MainSend /\ SendToClient(client, [kind |-> "port", port |-> Told])
             /\ UNCHANGED <<clientVars, mainq, threadq>>
    <3> DEFINE m == [kind |-> "port", port |-> Told]
    <3>1. /\ mpc = "send" /\ mpc' = "recv"
          /\ UNCHANGED <<tnum, client, tpc, cur, sock, cpc, server, msg, threadq>>
      BY <2>3 DEF MainSend, clientVars
    <3>2. cpc[client] = "answer" /\ clientq[client] = <<>>
      BY <3>1 DEF OneRequest
    <3>3. m.port = tnum - 1
      BY DEF Told
    <3> HIDE DEF m
    <3>4. clientq' = [clientq EXCEPT ![client] = Append(<<>>, m)]
      BY <2>3, <3>2 DEF SendToClient, m
    <3>5. Head(Append(<<>>, m)) = m /\ Append(<<>>, m) # <<>>
      OBVIOUS
    <3>6. CASE t = tnum
      <4>1. clientq'[client] # <<>> /\ Head(clientq'[client]).port = t - 1
        BY <1>0, <3>3, <3>4, <3>5, <3>6
      <4>2. cpc'[client'] = "answer" /\ client' = client
        BY <3>1, <3>2
      <4> QED BY <1>0, <4>1, <4>2 DEF Engaged
    <3>7. ASSUME t # tnum, NEW c \in Client, Engaged(c, t) PROVE Engaged(c, t)'
      <4>1. CASE c = client
        BY <1>0, <3>1, <3>2, <3>7, <4>1 DEF Engaged
      <4>2. CASE c # client
        BY <1>0, <3>1, <3>4, <3>7, <4>2 DEF Engaged
      <4> QED BY <4>1, <4>2
    <3>8. CASE t # tnum
      BY <1>1, <3>1, <3>7, <3>8 DEF EndIsDue, Alive, EndComes
    <3> QED BY <3>6, <3>8
  <2>4. ~MainStops
    BY <1>1 DEF MainStops
  <2> QED BY <1>4, <2>1, <2>2, <2>3, <2>4 DEF MainRuns
<1>5. ASSUME NEW u \in Thread, ThreadRuns(u)
      PROVE  EndComes(t)' \/ \E c \in Client : Engaged(c, t)'
  <2>1. UNCHANGED <<mpc, tnum, client, cpc, server, msg>>
    BY <1>5 DEF ThreadRuns, ReadNumber, Bind, Receive, Reply, clientVars
  <2>2. CASE (ReadNumber(u) \/ Bind(u)) /\ UNCHANGED <<clientVars, netVars>>
    <3>1. /\ UNCHANGED <<cur, threadq, clientq>>
          /\ tpc[u] \in {"start", "bind"} /\ \A v \in Thread \ {u} :
               tpc'[v] = tpc[v] /\ sock'[v] = sock[v]
      BY <1>0, <2>2 DEF ReadNumber, Bind, netVars
    <3> QED BY <1>1, <2>1, <3>1 DEF EndIsDue, Alive, EndComes, Engaged
  <2>3. CASE /\ threadq[u] # <<>> /\ Receive(u, Head(threadq[u]))
             /\ threadq' = [threadq EXCEPT ![u] = Tail(@)]
             /\ UNCHANGED <<clientVars, mainq, clientq>>
    <3>1. /\ tpc[u] = "recv" /\ tpc' = [tpc EXCEPT ![u] = "reply"]
          /\ cur' = [cur EXCEPT ![u] = Head(threadq[u])] /\ UNCHANGED <<sock, clientq>>
      BY <2>3 DEF Receive
    <3>2. Range(threadq[u]) = {Head(threadq[u])} \cup Range(Tail(threadq[u]))
      BY <1>0, <2>3, TailRange
    <3>3. Alive(t)
      BY <1>0, <1>1, <3>1 DEF Alive
    <3>4. EndComes(t) => EndComes(t)'
      BY <1>0, <2>3, <3>1, <3>2 DEF EndComes
    <3> QED BY <2>1, <3>1, <3>3, <3>4 DEF EndIsDue, Engaged
  <2>4. CASE /\ Reply(u)
             /\ SendToClient(cur[u].from, [kind |-> Answer(u), port |-> NoPort])
             /\ UNCHANGED <<clientVars, mainq, threadq>>
    <3>1. tpc[u] = "reply" /\ UNCHANGED <<cur, threadq>>
      BY <2>4 DEF Reply
    <3>2. \/ cur[u].kind # "END" /\ tpc' = [tpc EXCEPT ![u] = "recv"] /\ UNCHANGED sock
          \/ /\ tpc' = [tpc EXCEPT ![u] = "done"] /\ sock' = [sock EXCEPT ![u] = NoPort]
      BY <2>4 DEF Reply, Answer
    <3>3. Alive(t) /\ (t = u => cur[u].kind # "END" /\ tpc'[u] = "recv")
      BY <1>0, <1>1, <3>1, <3>2 DEF Alive
    <3>4. EndComes(t) => EndComes(t)'
      BY <1>0, <3>1, <3>2, <3>3 DEF EndComes
    <3>5. cpc[cur[u].from] \notin Early
      BY <1>0, <3>1 DEF ThreadsHearLater
    <3>6. \A c \in Client : cpc[c] = "answer" => clientq'[c] = clientq[c]
      BY <1>0, <2>4, <3>5 DEF SendToClient, Early
    <3> QED BY <2>1, <3>3, <3>4, <3>6 DEF EndIsDue, Engaged
  <2> QED BY <1>5, <2>2, <2>3, <2>4 DEF ThreadRuns
<1>6. ASSUME NEW c \in Client, ClientActs(c)
      PROVE  EndComes(t)' \/ \E d \in Client : Engaged(d, t)'
  <2>1. /\ UNCHANGED <<mpc, tnum, client, tpc, cur, sock>>
        /\ \A d \in Client \ {c} :
             /\ cpc'[d] = cpc[d] /\ server'[d] = server[d]
             /\ msg'[d] = msg[d] /\ clientq'[d] = clientq[d]
    BY <1>6, OthersStay DEF vars
  <2>2. Alive(t) /\ tpc[t] \notin {"none", "done"}
    BY <1>1, <2>1 DEF Alive
  <2>3. ASSUME NEW k \in {"text", "END"}, SendToServer(c, k)
        PROVE  \A m \in Range(threadq[t]) : m \in Range(threadq'[t])
    BY <1>0, <2>3, HearsExactly
  <2>4. EndComes(t) => EndComes(t)'
    <3>1. \A m \in Range(threadq[t]) : m \in Range(threadq'[t])
      BY <1>6, <2>3 DEF ClientActs, ClientRuns, Request, GetPort, NoPortCame, NoWord, Say,
         Word, GetReply, NoReply, Bye, ClientInterrupt, netVars
    <3> QED BY <2>1, <3>1 DEF EndComes
  <2>5. \A d \in Client \ {c} : Engaged(d, t) => Engaged(d, t)'
    BY <2>1 DEF Engaged
  (* An END that is said arrives.                                           *)
  <2>6. ASSUME server[c] = t - 1, Settled(c), SendToServer(c, "END") PROVE EndComes(t)'
    <3>1. tpc[t] \in {"recv", "reply"} /\ sock[t] # NoPort
      BY <1>0, <2>2, <2>6 DEF Settled, Alive
    <3>2. sock[t] = t - 1 /\ Lives(t)
      BY <3>1 DEF AtHome, Lives
    <3>3. server[c] # MainPort
      BY <1>0, <2>6, SystemAssumption, ServerAssumption DEF Port
    <3>4. [from |-> c, kind |-> "END"] \in Range(threadq'[t])
      BY <1>0, <2>6, <3>2, <3>3, HearsExactly
    <3> QED BY <3>4 DEF EndComes
  <2>7. ASSUME Engaged(c, t) PROVE Engaged(c, t)' \/ EndComes(t)'
    <3>1. CASE mpc = "send" /\ tnum = t /\ client = c
      BY <2>1, <3>1 DEF Engaged
    <3>2. CASE cpc[c] = "answer" /\ clientq[c] # <<>> /\ Head(clientq[c]).port = t - 1
      <4>1. CASE GetPort(c)
        <5>1. ~cint[c]
          BY <3>2 DEF OneRequest, Early
        <5>2. cpc'[c] = "scanf" /\ server'[c] = t - 1
          BY <1>0, <3>2, <4>1, <5>1 DEF GetPort, Goes, AfterTest, PortOf
        <5> QED BY <5>2 DEF Engaged
      <4>2. CASE ClientInterrupt(c)
        BY <3>2, <4>2 DEF ClientInterrupt, Engaged, netVars
      <4>3. ~NoPortCame(c)
        BY DEF NoPortCame, OneRequest, Early
      <4> QED BY <1>6, <3>2, <4>1, <4>2, <4>3 DEF ClientActs, ClientRuns, Request, Word, NoWord,
                 GetReply, NoReply, Bye
    <3>3. CASE /\ server[c] = t - 1
               /\ cpc[c] \in {"scanf", "bye"} \/ (cpc[c] = "reply" /\ msg[c] # "END")
      <4>1. ASSUME NEW w \in {"text", "END"}, Say(c, w), Settled(c)
            PROVE  Engaged(c, t)' \/ EndComes(t)'
        <5>1. CASE w = "END"
          BY <2>6, <3>3, <4>1, <5>1 DEF Say
        <5>2. CASE w = "text"
          <6>1. cpc'[c] = "reply" /\ msg'[c] = "text" /\ server'[c] = t - 1
            BY <1>0, <3>3, <4>1, <5>2 DEF Say, Goes
          <6> QED BY <6>1 DEF Engaged
        <5> QED BY <5>1, <5>2
      <4>2. CASE \E w \in {"text", "END"} : Word(c, w)
        BY <4>1, <4>2 DEF Word
      <4>3. CASE NoWord(c)
        BY <4>1, <4>3 DEF NoWord, SettledFirst
      <4>4. CASE GetReply(c)
        <5>1. cpc[c] = "reply" /\ clientq[c] # <<>> /\ UNCHANGED server
          BY <4>4 DEF GetReply
        <5>2. Head(clientq[c]) \in Range(clientq[c])
          BY <1>0, <5>1, TailRange
        <5>3. Head(clientq[c]).kind # "END"
          BY <2>2, <3>3, <5>2 DEF OwnClients
        <5>4. cpc'[c] \in {"bye", "scanf"}
          BY <1>0, <4>4, <5>3 DEF GetReply, Goes, AfterReply, AfterTest
        <5> QED BY <3>3, <5>1, <5>4 DEF Engaged
      <4>5. CASE NoReply(c)
        <5>1. cpc[c] = "reply" /\ UNCHANGED server
          BY <4>5 DEF NoReply
        <5>2. cpc'[c] \in {"bye", "scanf"}
          BY <1>0, <3>3, <4>5, <5>1 DEF NoReply, Goes, AfterReply, AfterTest
        <5> QED BY <3>3, <5>1, <5>2 DEF Engaged
      <4>6. CASE Bye(c)
        BY <2>6, <3>3, <4>6 DEF Bye, SettledFirst
      <4>7. CASE ClientInterrupt(c)
        BY <3>3, <4>7 DEF ClientInterrupt, Engaged
      <4> QED BY <1>6, <3>3, <4>2, <4>3, <4>4, <4>5, <4>6, <4>7
              DEF ClientActs, ClientRuns, Request, GetPort, NoPortCame
    <3> QED BY <2>7, <3>1, <3>2, <3>3 DEF Engaged
  <2> QED BY <2>2, <2>4, <2>5, <2>7 DEF EndIsDue
<1> QED BY <1>2, <1>3, <1>4, <1>5, <1>6 DEF SysNext, ClientActs

LEMMA SessionInitial ==
  ASSUME MainPort \notin Port, SysInit PROVE SessionInv
<1>1. IInv
  BY InitHolds, ServerAssumption
<1>2. Range(<<>>) = {} /\ DOMAIN <<>> = {}
  BY RangeEmpty
<1>3. /\ \A c \in Client : /\ clientq[c] = <<>> /\ server[c] = MainPort
                           /\ cpc[c] = "request" /\ ~cint[c]
      /\ \A t \in Thread : /\ threadq[t] = <<>> /\ tpc[t] = "none"
                           /\ sock[t] = NoPort /\ num[t] = NoPort
      /\ mainq = <<>> /\ mpc = "recv"
  BY DEF SysInit, Init
<1>4. SessionTyped
  BY DEF SysInit, Init, SessionTyped
<1>5. AtHome
  BY <1>3 DEF AtHome
<1>6. OwnClients
  BY <1>2, <1>3 DEF OwnClients
<1>7. OneRequest
  BY <1>2, <1>3 DEF OneRequest, Early
<1>8. SettledFirst
  BY <1>3 DEF SettledFirst
<1>9. EndIsDue
  BY <1>3 DEF EndIsDue, Alive
<1> QED BY <1>1, <1>4, <1>5, <1>6, <1>7, <1>8, <1>9 DEF SessionInv

LEMMA SessionInductive ==
  ASSUME SessionInv, [SysNext]_sysVars PROVE SessionInv'
<1>1. IInv'
  BY ServerKeeps, ClientKeeps, StandsStill, ServerAssumption DEF SysNext, SessionInv
<1>2. UNCHANGED patient
  <2>1. ASSUME NEW c \in Client, ClientActs(c) PROVE UNCHANGED patient
    BY <2>1, OthersStay DEF SessionInv
  <2>2. CASE UNCHANGED sysVars
    BY <2>2 DEF sysVars, clientVars
  <2> QED BY <2>1, <2>2, ClientsStay DEF SysNext, ServerActs, ClientActs
<1>3. SessionTyped' /\ AtHome' /\ OwnClients'
  BY <1>1, AtHomeKept, OwnClientsKept DEF SessionInv
<1>4. patient => OneRequest' /\ SettledFirst'
  BY <1>1, OneRequestKept, SettledFirstKept DEF SessionInv
<1>5. mpc' # "done" => mpc # "done"
  <2>1. \A c \in Client : ClientActs(c) => UNCHANGED mpc
    BY OthersStay DEF SessionInv, vars
  <2> QED BY <2>1 DEF SysNext, sysVars, vars, MainRuns, ServerInterrupt, ThreadRuns, Interrupt,
             MainStops, MainCreate, MainReceive, MainSend, ReadNumber, Bind, Receive, Reply,
             ClientActs
<1>6. patient /\ mpc' # "done" => EndIsDue'
  BY <1>5, EndIsDueKept DEF SessionInv
<1> QED BY <1>1, <1>2, <1>3, <1>4, <1>6 DEF SessionInv

(* With patient users, whoever is interrupted in whatever wait, every       *)
(* thread that knew its port has ended when the clients have gone: until it *)
(* ends there is an END on its way to it, or a client that is still to send *)
(* one (client.c of ex19/p1 does so after every way out of its loop but the *)
(* answer to an END).                                                       *)
THEOREM SessionsEnd == SysSpec => []SessionEndsThread
<1>1. SysInit => SessionInv
  BY SessionInitial, SystemAssumption
<1>2. SessionInv /\ [SysNext]_sysVars => SessionInv'
  BY SessionInductive
<1>3. SessionInv => SessionEndsThread
  <2> SUFFICES ASSUME SessionInv, patient, Quiet, NEW t \in Thread,
                      tpc[t] \notin {"none", "done"}, num[t] # NoPort
               PROVE  FALSE
    BY DEF SessionEndsThread
  <2>1. mpc = "recv" /\ tpc[t] = "recv" /\ threadq[t] = <<>>
    BY DEF Quiet
  <2>2. Alive(t)
    BY <2>1 DEF Alive, SessionInv, AtHome
  <2>3. Range(<<>>) = {}
    BY RangeEmpty
  <2>4. EndComes(t) \/ \E c \in Client : Engaged(c, t)
    BY <2>1, <2>2 DEF SessionInv, EndIsDue
  <2> QED BY <2>1, <2>3, <2>4 DEF Quiet, EndComes, Engaged
<1> QED BY <1>1, <1>2, <1>3, PTL DEF SysSpec

=============================================================================
