------------------------------ MODULE Exercises ------------------------------
(***************************************************************************)
(* The small programs for model checking.  They share nothing: in a        *)
(* behaviour one of them runs, and the others stay in an initial state.    *)
(***************************************************************************)
EXTENDS Integers

CONSTANTS
  Run, Keyed,                       \* of SemPipe
  Server, Client, NoQueue,          \* of PosixQueue
  Buyer, MAGNUM, Stocks, Needs, LoadSize, MaxLoads, Loader, Free, \* of Warehouse
  Talker, Watched, Echo, MSGLEN, Room, NoClient, \* of EchoTcp
  MaxSent,                          \* of EchoUdp, with its clients among Talker
  Thread, Times,                    \* of SharedCounter
  MaxWords,                         \* of CommandLine
  Name, Full, Short, Places, Zeros, NoEntry,    \* of PhoneArray
  Stem, Ending, MaxTyped, MaxEntries, NoEnding, \* of PhoneHeap
  Sizes                             \* of Spiral

VARIABLES
  program, \* which of them runs
  ppc, cpc, pipe, pgot, cgot, semid,
  pc, queue, got, name, held, waiting, oneByOne,
  mag, foo_mutex, wpc, shop, reg, val, a, loads, initial, wanted,
  spc, client, cexit, fd, link, up, down, left,
  upc, stop, from, sender, sent, queued, echoes,
  total, tpc, copy, turns,
  algorithm, prog, argv, k, port, addr, ifname, outcome,
  my_sprav, chel, poisk, found, book, last, broken,
  size, turn, m, next, counter, status, co

Pipe  == INSTANCE SemPipe
Posix == INSTANCE PosixQueue
Magaz == INSTANCE Warehouse WITH pc <- wpc
Tcp   == INSTANCE EchoTcp WITH Client <- Talker, Server <- Echo
Udp   == INSTANCE EchoUdp WITH Client <- Talker, pc <- upc
Count == INSTANCE SharedCounter
Alone == INSTANCE Sequential

ASSUME ExercisesAssumption ==
  /\ Pipe!PipeAssumption /\ Posix!QueueAssumption /\ Magaz!WarehouseAssumption
  /\ Tcp!TcpAssumption /\ Udp!UdpAssumption
  /\ Count!CounterAssumption /\ Alone!SequentialAssumption

pipeVars  == <<ppc, cpc, pipe, pgot, cgot, semid>>
posixVars == <<pc, queue, got, name, held, waiting, oneByOne>>
magazVars == <<mag, foo_mutex, wpc, shop, reg, val, a, loads, initial, wanted>>
tcpVars   == <<spc, client, cexit, fd, link, up, down, left>>
udpVars   == <<upc, stop, from, sender, sent, queued, echoes>>
countVars == <<total, tpc, copy, turns>>
aloneVars ==
  <<algorithm, prog, argv, k, port, addr, ifname, outcome,
    my_sprav, chel, poisk, found, book, last, broken,
    size, turn, m, next, counter, status, co>>
vars ==
  <<program, pipeVars, posixVars, magazVars, tcpVars, udpVars, countVars, aloneVars>>

PipeRuns == program = "pipe" /\ UNCHANGED
  <<program, posixVars, magazVars, tcpVars, udpVars, countVars, aloneVars>>
PosixRuns == program = "posix" /\ UNCHANGED
  <<program, pipeVars, magazVars, tcpVars, udpVars, countVars, aloneVars>>
MagazRuns == program = "magaz" /\ UNCHANGED
  <<program, pipeVars, posixVars, tcpVars, udpVars, countVars, aloneVars>>
TcpRuns == program = "tcp" /\ UNCHANGED
  <<program, pipeVars, posixVars, magazVars, udpVars, countVars, aloneVars>>
UdpRuns == program = "udp" /\ UNCHANGED
  <<program, pipeVars, posixVars, magazVars, tcpVars, countVars, aloneVars>>
CountRuns == program = "count" /\ UNCHANGED
  <<program, pipeVars, posixVars, magazVars, tcpVars, udpVars, aloneVars>>
AloneRuns == program = "alone" /\ UNCHANGED
  <<program, pipeVars, posixVars, magazVars, tcpVars, udpVars, countVars>>

(* One initial state is enough for a program that does not run.             *)
Init ==
  /\ program \in {"pipe", "posix", "magaz", "tcp", "udp", "count", "alone"}
  /\ Pipe!Init
  /\ Posix!Init /\ (program # "posix" => oneByOne)
  /\ Magaz!Init
  /\ program # "magaz" =>
       /\ \A s \in Magaz!Shop : mag[s] = CHOOSE n \in Stocks : TRUE
       /\ \A b \in Buyer : val[b] = CHOOSE n \in Needs : TRUE
  /\ Tcp!Init /\ Udp!Init /\ Count!Init
  /\ IF program = "alone" THEN Alone!Init ELSE Alone!Rests

Next ==
  \/ PipeRuns /\ Pipe!Next
  \/ PosixRuns /\ Posix!Next
  \/ MagazRuns /\ Magaz!Next
  \/ TcpRuns /\ Tcp!Next
  \/ UdpRuns /\ Udp!Next
  \/ CountRuns /\ Count!Next
  \/ AloneRuns /\ Alone!Next

Spec ==
  /\ Init /\ [][Next]_vars
  /\ \A r \in Run : WF_vars(PipeRuns /\ Pipe!Runs(r))
  /\ \A p \in Server \cup Client : WF_vars(PosixRuns /\ Posix!Runs(p))
  /\ WF_vars(TcpRuns /\ Tcp!ServerRuns)
  /\ \A c \in Talker : WF_vars(TcpRuns /\ Tcp!ClientRuns(c))

-----------------------------------------------------------------------------
(* Properties; each is explained where it is defined.                       *)

(* The types of the programs that do not give them with another property.   *)
ExercisesTyped ==
  Magaz!TypeOK /\ Tcp!TypeOK /\ Udp!TypeOK /\ Count!TypeOK /\ Alone!TypeOK

(* pipe.c: without a kill each side reads what the other has written.       *)
ExchangeRight == Pipe!ExchangeRight

(* pipe.c: every run ends, whatever those before have left behind.          *)
RunsEnd == Pipe!RunsEnd

(* ex16/p1: one by one, each end hears the other.                           *)
OthersHeard == Posix!OthersHeard

(* ex16/p1: words given and taken balance on each queue.                    *)
WordsBalanced == Posix!WordsBalanced

(* ex16/p1: every client that finds a queue takes a word from it.           *)
ClientAnswered == Posix!ClientAnswered

(* ex14: goods are neither lost nor sold twice.                             *)
GoodsConserved == Magaz!GoodsConserved

(* ex14: the loader goes on while anybody needs goods.                      *)
LoaderOutlivesNeed == Magaz!LoaderOutlivesNeed

(* ex18/p2: client and server end with each other.                          *)
NeitherOutlives == Tcp!NeitherOutlives

(* ex18/p2: a talk nobody ends comes to rest with both sides sending.       *)
EndsOrStandsStill == Tcp!EndsOrStandsStill

(* ex18/p1: no datagram is sent back twice.                                 *)
NoSecondEcho == Udp!NoSecondEcho

(* streams.c: lost additions leave two at least.                            *)
AtLeastTwo == Count!AtLeastTwo

(* The programs run with what their command lines say, or not at all.       *)
LineObeyed == Alone!Line!LineObeyed

(* ex4.3.c: the array with its count is a list.                             *)
ArrayIsList == Alone!Array!ArrayIsList

(* ex6.c: names and beginnings of numbers are a list.                       *)
StemsAreList == Alone!Heap!StemsAreList

(* ex2.4.c: the numbers follow the spiral.                                  *)
SpiralFollowed == Alone!Snail!SpiralFollowed

=============================================================================
