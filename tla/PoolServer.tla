----------------------------- MODULE PoolServer -----------------------------
(***************************************************************************)
(* The dynamic UDP server pool of ex19/p2/server.c.                        *)
(*                                                                         *)
(* A main thread waits for any datagram on a well-known port and answers   *)
(* with the number of a port on which a child server thread is to serve    *)
(* the sender.  MINTHREAD pool threads are created at start and reused;    *)
(* when all of them are busy a dynamic thread is created for the client    *)
(* and ends with it.  All threads share the table ports[], one entry per   *)
(* port STARTPORT + k, under one semaphore, and read the table tinfo[]     *)
(* without it.                                                             *)
(*                                                                         *)
(* Every sem_wait ... sem_post section of the code is one action: the      *)
(* sections touch only ports[] (and one word of tinfo[]), none blocks, and *)
(* nothing reads or writes ports[] outside them, so nobody can tell such a *)
(* section from an atomic step.  What lies between two sections is split   *)
(* wherever another thread can observe the difference.                     *)
(*                                                                         *)
(* Ports are named by their index k; the port number is STARTPORT + k.     *)
(* The clients are the environment: any datagram may arrive at any time,   *)
(* so what holds here holds under loss, duplication and reordering.        *)
(* PoolSystem closes the system with the clients of ex19/p2/client.c.      *)
(***************************************************************************)
EXTENDS Integers, FiniteSets

CONSTANTS
  Client,      \* the client sockets datagrams come from
  MINTHREAD,   \* pool threads created at start
  MAXCLIENT,   \* entries of tinfo[]; no thread is created from this count on
  NUMPORT,     \* entries of ports[]
  MaxCreated,  \* bound: calls of pthread_create in a behaviour
  Foreign,     \* port indices another process of the host has bound
  Garbage,     \* entries of ports[] whose ready_thread malloc may leave set
  IOErrors     \* whether recvfrom, sendto and pthread_create may fail

ASSUME PoolAssumption ==
  /\ Client # {}
  /\ MINTHREAD \in Nat \ {0}
  /\ MAXCLIENT \in Nat /\ MINTHREAD <= MAXCLIENT
  /\ MaxCreated \in Nat /\ MINTHREAD <= MaxCreated
  /\ NUMPORT \in Nat /\ MaxCreated < NUMPORT /\ MAXCLIENT < NUMPORT
  /\ Foreign \subseteq 0 .. NUMPORT - 1
  /\ Garbage \subseteq 0 .. NUMPORT - 1
  /\ IOErrors \in BOOLEAN

Slot     == 0 .. NUMPORT - 1
PoolSlot == 0 .. MINTHREAD - 1

(* Threads are numbered in the order of the pthread_create calls. *)
Thread     == 1 .. MaxCreated
PoolThread == 1 .. MINTHREAD

NoSock    == -1   \* no socket bound
Elsewhere == -2   \* a port outside ports[]: what an unset thread_num leads to

(* What the 24 bytes of a datagram can be: a port number (the handshake     *)
(* sends the main server's answer back), the text "END", or other text.     *)
Datagram ==
  [from : Client, kind : {"hello"}, port : Slot] \cup
  [from : Client, kind : {"text", "END"}, port : {NoSock}]

NoMsg == [from |-> CHOOSE c \in Client : TRUE, kind |-> "none", port |-> NoSock]

VARIABLES
  flag, got_client, ready_thread,  \* the fields of ports[k]
  tinfo,                           \* tinfo[k].thread_num, as a port index
  tpc, my_num, sock, f, check,     \* a thread's control point and locals
  cur,                             \* its msg and client_thread
  mpc, client, tnum, j, reply,     \* the main thread's; reply is what msg holds
  created,                         \* calls of pthread_create so far
  cexit, proc                      \* the SIGINT flag; the state of the process

portVars   == <<flag, got_client, ready_thread>>
threadVars == <<tpc, my_num, sock, f, check, cur>>
mainVars   == <<mpc, client, tnum, j, reply, created, tinfo>>
procVars   == <<cexit, proc>>
vars       == <<portVars, threadVars, mainVars, procVars>>

-----------------------------------------------------------------------------
(* Helpers. *)

TPC == {"none", "start", "bind", "ready", "recv", "judge", "sendOk",
        "sendEnd", "endFree", "clear", "unflag", "done"}

MPC == {"createPool", "recv", "count", "scan", "create", "spin", "send",
        "cleanup", "exit"}

(* Threads that have taken a slot; a thread that ended keeps its my_num.   *)
Registered == {t \in Thread : tpc[t] \notin {"none", "start"}}

FlagSet == {k \in Slot : flag[k]}

count_threads == Cardinality(FlagSet)

(* Mutant: the search leaves out the last pool slot. *)
FreePool_Short == {k \in 0 .. MINTHREAD - 2 : ~got_client[k]}

(* The pool slots find_free_childserver would return; it returns the least. *)
FreePool == {k \in PoolSlot : ~got_client[k]}

(* The port index a thread reads from tinfo[]: past the array, and in an   *)
(* entry nobody has set, there is no port anybody has been told of.        *)
ThreadNum(k) == IF k < MAXCLIENT THEN tinfo[k] ELSE Elsewhere

(* Mutant: the slot is not given back. *)
Released_Never(k) == got_client

(* The table after a thread has given its slot back. *)
Released(k) == [got_client EXCEPT ![k] = FALSE]

(* Mutant: off by one. *)
PastPool_OneLess(n) == n > MINTHREAD

(* The literal 5 of the code is MINTHREAD. *)
PastPool(n) == n >= MINTHREAD

(* The steps that enter a critical section. *)
Enter  == proc = "up"
(* The steps that do not: the process exists, ports[] may be freed.        *)
Alive  == proc \in {"up", "freed"}

Goto(t, from, to) == tpc[t] = from /\ tpc' = [tpc EXCEPT ![t] = to]

(* The port a hello names is the one the thread has bound.                  *)
Matches(t) == cur[t].kind = "hello" /\ cur[t].port = sock[t]

(* Port indices no further bind can have.                                   *)
Taken == Foreign \cup {sock[u] : u \in Thread}

-----------------------------------------------------------------------------
(* A server thread: tfunc.                                                  *)

(* The thread takes the slot whose number is the count of taken slots.      *)
Register(t) ==
  /\ Enter
  /\ Goto(t, "start", "bind")
  /\ my_num' = [my_num EXCEPT ![t] = count_threads]
  /\ flag' = [flag EXCEPT ![count_threads] = TRUE]
  /\ got_client' = [got_client EXCEPT ![count_threads] = FALSE]
  /\ UNCHANGED <<ready_thread, sock, f, check, cur, mainVars, procVars>>

(* socket and bind, on the port found in tinfo[my_num]; then the loop test. *)
Bind(t) ==
  /\ Alive
  /\ LET p == ThreadNum(my_num[t]) IN
     \/ /\ p \notin Taken \ {NoSock, Elsewhere}
        /\ Goto(t, "bind", IF cexit THEN "clear" ELSE "ready")
        /\ sock' = [sock EXCEPT ![t] = p]
     \/ /\ p \in Taken \/ p = Elsewhere \/ IOErrors
        /\ Goto(t, "bind", "clear")
        /\ UNCHANGED sock
  /\ UNCHANGED <<portVars, my_num, f, check, cur, mainVars, procVars>>

(* The top of the loop, and the target of goto recvfrom.                    *)
MarkReady(t) ==
  /\ Enter
  /\ Goto(t, "ready", "recv")
  /\ ready_thread' = [ready_thread EXCEPT ![my_num[t]] = TRUE]
  /\ UNCHANGED <<flag, got_client, my_num, sock, f, check, cur, mainVars, procVars>>

(* recvfrom returns m; the first datagram since the start or since the last *)
(* END also reads the busy bit of the slot, later ones use the local copy.  *)
Receive(t, m) ==
  /\ IF f[t] THEN Alive ELSE Enter
  /\ check' = [check EXCEPT ![t] = IF f[t] THEN @ ELSE got_client[my_num[t]]]
  /\ Goto(t, "recv", IF ~check'[t] THEN "judge"
                     ELSE IF m.kind = "END" THEN "sendEnd" ELSE "sendOk")
  /\ f' = [f EXCEPT ![t] = TRUE]
  /\ cur' = [cur EXCEPT ![t] = m]
  /\ UNCHANGED <<portVars, my_num, sock, mainVars, procVars>>

RecvError(t) ==
  /\ IOErrors /\ Alive
  /\ Goto(t, "recv", "clear")
  /\ UNCHANGED <<portVars, my_num, sock, f, check, cur, mainVars, procVars>>

(* Mutant: the local copy of the busy bit is not set. *)
Accept_TableOnly(t) ==
  /\ Enter
  /\ Matches(t)
  /\ Goto(t, "judge", "sendOk")
  /\ got_client' = [got_client EXCEPT ![my_num[t]] = TRUE]
  /\ UNCHANGED <<flag, ready_thread, my_num, sock, f, check, cur, mainVars, procVars>>

(* A free thread is sent its own port number: it has a client now.          *)
Accept(t) ==
  /\ Enter
  /\ Matches(t)
  /\ Goto(t, "judge", "sendOk")
  /\ got_client' = [got_client EXCEPT ![my_num[t]] = TRUE]
  /\ check' = [check EXCEPT ![t] = TRUE]
  /\ UNCHANGED <<flag, ready_thread, my_num, sock, f, cur, mainVars, procVars>>

(* A free thread is sent something else: a pool thread waits on, a dynamic  *)
(* thread gives up.  (From here on cur is not read before it is written:    *)
(* it is reset where a thread goes back to recvfrom.)                       *)
Reject(t) ==
  /\ Alive
  /\ ~Matches(t)
  /\ Goto(t, "judge", IF my_num[t] < MINTHREAD THEN "ready" ELSE "clear")
  /\ cur' = [cur EXCEPT ![t] = NoMsg]
  /\ UNCHANGED <<portVars, my_num, sock, f, check, mainVars, procVars>>

(* The answer "ok", and the test of the loop.                               *)
ReplyOk(t) ==
  /\ Alive
  /\ Goto(t, "sendOk", IF cexit THEN "clear" ELSE "ready")
  /\ cur' = [cur EXCEPT ![t] = NoMsg]
  /\ UNCHANGED <<portVars, my_num, sock, f, check, mainVars, procVars>>

(* END is echoed before the slot is given back.                             *)
ReplyEnd(t) ==
  /\ Alive
  /\ Goto(t, "sendEnd", "endFree")
  /\ cur' = [cur EXCEPT ![t] = NoMsg]
  /\ UNCHANGED <<portVars, my_num, sock, f, check, mainVars, procVars>>

SendError(t) ==
  /\ IOErrors /\ Alive
  /\ Goto(t, "sendOk", "clear") \/ Goto(t, "sendEnd", "clear")
  /\ cur' = [cur EXCEPT ![t] = NoMsg]
  /\ UNCHANGED <<portVars, my_num, sock, f, check, mainVars, procVars>>

(* After END a pool thread is free again; a dynamic thread ends, and its    *)
(* locals with it.  (Its close() comes just before the section and is one   *)
(* step with it: in between, the thread only holds an entry without a       *)
(* socket, as it does between Clear and Unflag.)                            *)
EndFree(t) ==
  /\ Enter
  /\ got_client' = Released(my_num[t])
  /\ f' = [f EXCEPT ![t] = FALSE]
  /\ check' = [check EXCEPT ![t] = FALSE]
  /\ \/ /\ my_num[t] < MINTHREAD
        /\ Goto(t, "endFree", "ready")
        /\ UNCHANGED <<flag, sock>>
     \/ /\ my_num[t] >= MINTHREAD
        /\ Goto(t, "endFree", "done")
        /\ sock' = [sock EXCEPT ![t] = NoSock]
        /\ flag' = [flag EXCEPT ![my_num[t]] = FALSE]
  /\ UNCHANGED <<ready_thread, my_num, cur, mainVars, procVars>>

(* The end of the loop and cleanup_thread: close, then give the slot back   *)
(* in one section and, past the pool, the table entry in a second one.      *)
(* (close() is one step with the first section, as in EndFree.)             *)
Clear(t) ==
  /\ Enter
  /\ Goto(t, "clear", IF PastPool(my_num[t]) THEN "unflag" ELSE "done")
  /\ sock' = [sock EXCEPT ![t] = NoSock]
  /\ got_client' = Released(my_num[t])
  /\ f' = [f EXCEPT ![t] = FALSE]
  /\ check' = [check EXCEPT ![t] = FALSE]
  /\ UNCHANGED <<flag, ready_thread, my_num, cur, mainVars, procVars>>

Unflag(t) ==
  /\ Enter
  /\ Goto(t, "unflag", "done")
  /\ flag' = [flag EXCEPT ![my_num[t]] = FALSE]
  /\ UNCHANGED <<got_client, ready_thread, my_num, sock, f, check, cur, mainVars, procVars>>

-----------------------------------------------------------------------------
(* The main thread.                                                         *)

MainAt(from) == mpc = from /\ proc = "up"

(* The test of the loop.  The next turn writes tnum and j before it reads   *)
(* them, and recvfrom overwrites msg: all three are reset here.             *)
NextTurn ==
  /\ mpc' = IF cexit THEN "cleanup" ELSE "recv"
  /\ tnum' = 0 /\ j' = 0 /\ reply' = 0

(* pthread_create, whose result the code does not look at.                  *)
Spawn ==
  /\ created' = created + 1
  /\ \/ tpc' = [tpc EXCEPT ![created + 1] = "start"]
     \/ IOErrors /\ UNCHANGED tpc

CreatePool ==
  /\ MainAt("createPool")
  /\ Spawn
  /\ IF created + 1 = MINTHREAD THEN NextTurn ELSE UNCHANGED <<mpc, tnum, j, reply>>
  /\ UNCHANGED <<portVars, my_num, sock, f, check, cur, client, tinfo, procVars>>

(* A datagram from c: find_free_childserver.  The bound on threads is a     *)
(* bound on the environment: no request comes once MaxCreated is reached.   *)
MainReceive(c) ==
  /\ MainAt("recv")
  /\ created < MaxCreated
  /\ client' = c
  /\ \/ /\ FreePool = {}
        /\ mpc' = "count"
        /\ UNCHANGED reply
     \/ /\ \E k \in FreePool : reply' = k /\ \A l \in FreePool : k <= l
        /\ mpc' = "send"
  /\ UNCHANGED <<portVars, threadVars, tnum, j, created, tinfo, procVars>>

(* Mutant: one thread short of the limit. *)
MainCount_OneLess ==
  /\ MainAt("count")
  /\ \/ /\ count_threads < MAXCLIENT - 1
        /\ tnum' = count_threads
        /\ mpc' = "scan"
        /\ UNCHANGED <<j, reply>>
     \/ /\ count_threads >= MAXCLIENT - 1
        /\ NextTurn
  /\ UNCHANGED <<portVars, threadVars, client, created, tinfo, procVars>>

(* Mutant: off by one at the limit. *)
MainCount_OneMore ==
  /\ MainAt("count")
  /\ \/ /\ count_threads <= MAXCLIENT
        /\ tnum' = count_threads
        /\ mpc' = "scan"
        /\ UNCHANGED <<j, reply>>
     \/ /\ count_threads > MAXCLIENT
        /\ NextTurn
  /\ UNCHANGED <<portVars, threadVars, client, created, tinfo, procVars>>

(* count_threads; at the limit the client is not answered.                  *)
MainCount ==
  /\ MainAt("count")
  /\ \/ /\ count_threads < MAXCLIENT
        /\ tnum' = count_threads
        /\ mpc' = "scan"
        /\ UNCHANGED <<j, reply>>
     \/ /\ count_threads >= MAXCLIENT
        /\ NextTurn
  /\ UNCHANGED <<portVars, threadVars, client, created, tinfo, procVars>>

(* One turn of the search for an entry that is not flagged.                 *)
MainScan ==
  /\ MainAt("scan")
  /\ IF flag[j] THEN j' = j + 1 /\ UNCHANGED mpc
                ELSE mpc' = "create" /\ UNCHANGED j
  /\ UNCHANGED <<portVars, threadVars, client, tnum, reply, created, tinfo, procVars>>

(* The port goes to tinfo[tnum], with the count of a while ago as index.    *)
MainCreate ==
  /\ MainAt("create")
  /\ tinfo' = [tinfo EXCEPT ![tnum] = j]
  /\ Spawn
  /\ reply' = j
  /\ mpc' = "spin"
  /\ UNCHANGED <<portVars, my_num, sock, f, check, cur, client, tnum, j, procVars>>

(* Mutant: the main thread does not wait for the new thread. *)
MainSpin_NoWait ==
  /\ MainAt("spin")
  /\ mpc' = "send"
  /\ UNCHANGED <<portVars, threadVars, client, tnum, j, reply, created, tinfo, procVars>>

(* new_ready: leaves the busy wait when ports[j] says so.                   *)
MainSpin ==
  /\ MainAt("spin")
  /\ ready_thread[j]
  /\ mpc' = "send"
  /\ UNCHANGED <<portVars, threadVars, client, tnum, j, reply, created, tinfo, procVars>>

(* The answer to the client: the port number in msg.                        *)
MainSend ==
  /\ MainAt("send")
  /\ NextTurn
  /\ UNCHANGED <<portVars, threadVars, client, created, tinfo, procVars>>

(* recvfrom or sendto fails: goto cleanup.                                  *)
MainError ==
  /\ IOErrors
  /\ MainAt("recv") \/ MainAt("send")
  /\ mpc' = "cleanup"
  /\ UNCHANGED <<portVars, threadVars, client, tnum, j, reply, created, tinfo, procVars>>

(* all_global_free; return from main ends the process some time later.      *)
MainCleanup ==
  /\ MainAt("cleanup")
  /\ mpc' = "exit"
  /\ proc' = "freed"
  /\ UNCHANGED <<portVars, threadVars, client, tnum, j, reply, created, tinfo, cexit>>

MainExit ==
  /\ mpc = "exit" /\ proc = "freed"
  /\ proc' = "gone"
  /\ UNCHANGED <<portVars, threadVars, mainVars, cexit>>

(* SIGINT: hdl, and EINTR if the main thread is inside recvfrom by then.    *)
Interrupt ==
  /\ proc = "up"
  /\ cexit' = TRUE
  /\ UNCHANGED mpc \/ (mpc = "recv" /\ mpc' = "cleanup")
  /\ UNCHANGED <<portVars, threadVars, client, tnum, j, reply, created, tinfo, proc>>

(* A thread enters a critical section after ports has been set to NULL.     *)
UseAfterFree(t) ==
  /\ proc = "freed"
  /\ \/ tpc[t] \in {"start", "ready", "endFree", "clear", "unflag"}
     \/ tpc[t] = "recv" /\ ~f[t]
     \/ tpc[t] = "judge" /\ Matches(t)
  /\ proc' = "crashed"
  /\ UNCHANGED <<portVars, threadVars, mainVars, cexit>>

-----------------------------------------------------------------------------
(* ports[] comes from malloc, and ports_create sets flag and got_client of  *)
(* each entry but not ready_thread, which the main thread reads: it is what *)
(* the memory held, anything in Garbage.                                    *)
Init ==
  /\ flag         = [k \in Slot |-> FALSE]
  /\ got_client   = [k \in Slot |-> FALSE]
  /\ ready_thread \in [Slot -> BOOLEAN]
  /\ \A k \in Slot : ready_thread[k] => k \in Garbage
  /\ tinfo  = [k \in 0 .. MAXCLIENT - 1 |-> IF k < MINTHREAD THEN k ELSE Elsewhere]
  /\ tpc    = [t \in Thread |-> "none"]
  /\ my_num = [t \in Thread |-> 0]
  /\ sock   = [t \in Thread |-> NoSock]
  /\ f      = [t \in Thread |-> FALSE]
  /\ check  = [t \in Thread |-> FALSE]
  /\ cur    = [t \in Thread |-> NoMsg]
  /\ mpc = "createPool" /\ client \in Client
  /\ tnum = 0 /\ j = 0 /\ reply = 0 /\ created = 0
  /\ cexit = FALSE /\ proc = "up"

(* What a thread does on its own, without a new datagram.                   *)
ThreadStep(t) ==
  \/ Register(t) \/ Bind(t) \/ MarkReady(t) \/ Accept(t) \/ Reject(t)
  \/ ReplyOk(t) \/ ReplyEnd(t) \/ EndFree(t) \/ Clear(t) \/ Unflag(t)

ThreadFault(t) == RecvError(t) \/ SendError(t) \/ UseAfterFree(t)

MainStep ==
  \/ CreatePool \/ MainCount \/ MainScan \/ MainCreate \/ MainSpin
  \/ MainSend \/ MainCleanup \/ MainExit

Next ==
  \/ MainStep
  \/ MainError
  \/ Interrupt
  \/ \E c \in Client : MainReceive(c)
  \/ \E t \in Thread : ThreadStep(t) \/ ThreadFault(t)
  \/ \E t \in Thread, m \in Datagram : Receive(t, m)

(* Every thread that can take a step of its own eventually does: the        *)
(* scheduler runs every thread and sem_wait does not starve anybody.        *)
Fairness == WF_vars(MainStep) /\ \A t \in Thread : WF_vars(ThreadStep(t))

SafeSpec == Init /\ [][Next]_vars
Spec     == SafeSpec /\ Fairness

-----------------------------------------------------------------------------
(* Properties.                                                              *)

(* Every variable has its type.  Two of the bounds are not by construction: *)
(* the search for an entry never runs off ports[] (the code lets it go up   *)
(* to MAXPORT, past NUMPORT), and tinfo[] is only written inside its array. *)
TypeOK ==
  /\ flag \in [Slot -> BOOLEAN]
  /\ got_client \in [Slot -> BOOLEAN]
  /\ ready_thread \in [Slot -> BOOLEAN]
  /\ tinfo \in [0 .. MAXCLIENT - 1 -> Slot \cup {Elsewhere}]
  /\ tpc \in [Thread -> TPC]
  /\ my_num \in [Thread -> Slot]
  /\ sock \in [Thread -> Slot \cup {NoSock, Elsewhere}]
  /\ f \in [Thread -> BOOLEAN]
  /\ check \in [Thread -> BOOLEAN]
  /\ cur \in [Thread -> Datagram \cup {NoMsg}]
  /\ mpc \in MPC
  /\ client \in Client
  /\ tnum \in 0 .. MAXCLIENT - 1 /\ j \in Slot /\ reply \in Slot
  /\ created \in 0 .. MaxCreated
  /\ cexit \in BOOLEAN
  /\ proc \in {"up", "freed", "gone", "crashed"}

(* The numbers below MINTHREAD, which decide who survives an END and whose  *)
(* port may be handed out again, belong to the pool threads, one each, and  *)
(* no dynamic thread is ever given a pool port: although a thread numbers   *)
(* itself by a count, and the main thread hands out ports and creates       *)
(* threads before the pool threads have run at all.                         *)
PoolSlotsOwned ==
  /\ \A t \in Registered : my_num[t] < MINTHREAD <=> t \in PoolThread
  /\ \A t, u \in Registered \cap PoolThread : my_num[t] = my_num[u] => t = u
  /\ mpc \in {"create", "spin"} => j >= MINTHREAD

(* The bit by which the main thread finds a free pool thread is what that   *)
(* thread itself believes, whatever the other threads do to the table: a    *)
(* busy pool thread is not handed out, an idle one is not held back.        *)
PoolGotClientAccurate ==
  \A t \in Registered \cap PoolThread : got_client[my_num[t]] <=> check[t]

(* No entry of a dynamic thread stays flagged once nobody is left to clear  *)
(* it, on whichever of its three ways out the thread went: a leaked entry   *)
(* would count against MAXCLIENT for ever.                                  *)
NoEntryLeaked ==
  \A k \in FlagSet : k >= MINTHREAD =>
    \E t \in Registered : my_num[t] = k /\ tpc[t] # "done"

(* No dynamic thread has begun to end.                                      *)
FirstGeneration ==
  \A t \in Thread \ PoolThread :
    tpc[t] \notin {"endFree", "clear", "unflag", "done"}

(* The memory of ports[] is zero when malloc returns it: so it is where a   *)
(* block of this size (NUMPORT * 16 bytes, some 900 KB) is fresh from the   *)
(* kernel, as glibc has it.  Nothing in the code sees to it.                *)
FreshMemory == Garbage = {}

(* Before the first dynamic thread ends, counting is a sound way to number  *)
(* threads: the numbers are distinct, whatever the memory held.  And if it  *)
(* was zero, each thread has bound the port of its number, and a port that  *)
(* is sent to a client has a thread waiting on it.  (A ready bit that is    *)
(* set from the start lets the main thread go on before the new thread has  *)
(* taken a number: then neither need be so.  After the first end two        *)
(* threads may share a number: see MainKeepsServing.)                       *)
FirstGenerationAligned ==
  FirstGeneration =>
    /\ \A t, u \in Registered : my_num[t] = my_num[u] => t = u
    /\ FreshMemory =>
         /\ \A t \in Thread : sock[t] \in {NoSock, my_num[t]}
         /\ mpc = "send" /\ reply >= MINTHREAD => \E t \in Thread : sock[t] = reply

(* README:24-25: when a client and its dynamic thread end, the main server  *)
(* goes on working.  It does not: a thread that ends between the count and  *)
(* the registration of the next one leaves the main thread spinning on the  *)
(* ready bit of an entry that nobody will register.                         *)
MainKeepsServing == mpc = "spin" ~> mpc # "spin" \/ cexit

=============================================================================
