-------------------------- MODULE PoolServerProofs --------------------------
(***************************************************************************)
(* What PoolServer guarantees for every number of pool threads, of threads *)
(* created, of table entries and of clients, whether or not calls fail:    *)
(* TypeOK, PoolSlotsOwned, PoolGotClientAccurate, NoEntryLeaked and        *)
(* FirstGenerationAligned.                                                 *)
(*                                                                         *)
(* A thread numbers itself by counting flags, so its number says nothing   *)
(* by itself.  The argument is that the flags of the pool slots fill up    *)
(* from 0 without a gap while only pool threads run, that no dynamic       *)
(* thread is created before they are full, and that they stay full: so the *)
(* count is a fresh pool slot for a pool thread and is at least MINTHREAD  *)
(* for any other.  Past the pool the same argument goes on only until the  *)
(* first dynamic thread clears its flag: see Aligned.                      *)
(***************************************************************************)
EXTENDS PoolServer, FiniteSetTheorems, TLAPS

RegisteredPool == Registered \cap PoolThread

PoolFull == PoolSlot \subseteq FlagSet

(* Which threads exist, and the reserve of the bound.                       *)
Creation ==
  /\ \A t \in Thread : tpc[t] # "none" => t <= created
  /\ mpc = "createPool" <=> created < MINTHREAD
  /\ mpc \in {"count", "scan", "create"} => created < MaxCreated

(* Every flag has an owner that is still to clear it, or a pool thread.     *)
FlagOwned ==
  \A k \in FlagSet : \E t \in Registered :
    my_num[t] = k /\ (k >= MINTHREAD => tpc[t] # "done")

Numbers ==
  /\ \A t \in Registered : my_num[t] < MaxCreated
  /\ \A t \in Registered : my_num[t] < MINTHREAD <=> t \in PoolThread
  /\ \A t, u \in RegisteredPool : my_num[t] = my_num[u] => t = u
  /\ \A t \in RegisteredPool : flag[my_num[t]]

(* Until the pool slots are full they are taken in order.                   *)
Filling ==
  ~PoolFull => /\ \A t \in Thread \ PoolThread : tpc[t] = "none"
               /\ FlagSet = 0 .. count_threads - 1

(* The main thread leaves the pool only when it is full.                    *)
MainPastPool ==
  /\ \A k \in PoolSlot : got_client[k] => flag[k]
  /\ mpc \in {"count", "scan", "create", "spin"} => PoolFull
  /\ mpc \in {"create", "spin"} => j >= MINTHREAD

Busy ==
  /\ PoolGotClientAccurate
  /\ \A t \in Thread : t \notin Registered => ~check[t]

(* Only a thread past the pool comes to clear its flag.                     *)
Unflagging == \A t \in Thread : tpc[t] = "unflag" => my_num[t] >= MINTHREAD

IInv ==
  /\ TypeOK /\ Creation /\ FlagOwned /\ Numbers /\ Filling /\ MainPastPool
  /\ Busy /\ Unflagging

-----------------------------------------------------------------------------
(* Counting.                                                                *)

(* A thread about to take a slot finds fewer flags than there are threads,  *)
(* as every flag has an owner and the thread owns none.                     *)
LEMMA CountBound ==
  ASSUME TypeOK, FlagOwned, NEW t \in Thread, t \notin Registered
  PROVE  /\ IsFiniteSet(FlagSet)
         /\ count_threads \in Nat
         /\ count_threads < MaxCreated
<1> DEFINE owner == [k \in FlagSet |-> CHOOSE u \in Registered : my_num[u] = k]
           Other == Thread \ {t}
<1>1. IsFiniteSet(Thread) /\ Cardinality(Thread) = MaxCreated
  BY FS_Interval, PoolAssumption DEF Thread
<1>2. IsFiniteSet(Other) /\ Cardinality(Other) = MaxCreated - 1
  BY <1>1, FS_RemoveElement
<1>3. owner \in Injection(FlagSet, Other)
  <2>1. \A k \in FlagSet : owner[k] \in Registered /\ my_num[owner[k]] = k
    BY DEF FlagOwned
  <2>2. Registered \subseteq Other
    BY DEF Registered
  <2> QED BY <2>1, <2>2 DEF Injection, IsInjective
<1>4. IsFiniteSet(FlagSet) /\ Cardinality(FlagSet) <= MaxCreated - 1
  BY <1>2, <1>3, FS_Injection
<1> QED BY <1>4, FS_CardinalityType, PoolAssumption DEF count_threads

(* When every pool slot is taken, every pool thread has taken one.          *)
LEMMA PoolComplete ==
  ASSUME TypeOK, FlagOwned, Numbers, PoolFull
  PROVE  PoolThread \subseteq Registered
<1> DEFINE owner == [k \in PoolSlot |-> CHOOSE u \in Registered : my_num[u] = k]
<1>1. /\ IsFiniteSet(PoolSlot) /\ Cardinality(PoolSlot) = MINTHREAD
      /\ IsFiniteSet(PoolThread) /\ Cardinality(PoolThread) = MINTHREAD
  BY FS_Interval, PoolAssumption DEF PoolSlot, PoolThread
<1>2. IsFiniteSet(RegisteredPool) /\ Cardinality(RegisteredPool) <= MINTHREAD
  BY <1>1, FS_Subset DEF RegisteredPool
<1>3. owner \in Injection(PoolSlot, RegisteredPool)
  <2>1. \A k \in PoolSlot : owner[k] \in Registered /\ my_num[owner[k]] = k
    BY DEF FlagOwned, PoolFull
  <2>2. \A k \in PoolSlot : owner[k] \in RegisteredPool
    BY <2>1, PoolAssumption DEF Numbers, RegisteredPool, PoolSlot
  <2> QED BY <2>1, <2>2 DEF Injection, IsInjective
<1>4. Cardinality(RegisteredPool) = MINTHREAD
  BY <1>1, <1>2, <1>3, FS_Injection, FS_CardinalityType, PoolAssumption
<1>5. RegisteredPool = PoolThread
  BY <1>1, <1>4, FS_Subset DEF RegisteredPool
<1> QED BY <1>5 DEF RegisteredPool

(* The number a thread takes: a pool slot nobody has for a pool thread, at  *)
(* least MINTHREAD for any other.                                           *)
LEMMA FreshNumber ==
  ASSUME IInv, NEW t \in Thread, tpc[t] = "start"
  PROVE  /\ count_threads \in 0 .. MaxCreated - 1
         /\ count_threads < MINTHREAD <=> t \in PoolThread
         /\ t \in PoolThread => count_threads \notin FlagSet
         /\ t \in PoolThread => FlagSet = 0 .. count_threads - 1
<1>1. count_threads \in Nat /\ count_threads < MaxCreated /\ IsFiniteSet(FlagSet)
  BY CountBound DEF IInv, Registered
<1>2. CASE PoolFull
  <2>1. t \notin PoolThread
    BY <1>2, PoolComplete DEF IInv, Registered
  <2>2. Cardinality(PoolSlot) = MINTHREAD
    BY FS_Interval, PoolAssumption DEF PoolSlot
  <2>3. MINTHREAD <= count_threads
    BY <1>1, <1>2, <2>2, FS_Subset DEF PoolFull, count_threads
  <2> QED BY <1>1, <2>1, <2>3, PoolAssumption
<1>3. CASE ~PoolFull
  <2>1. FlagSet = 0 .. count_threads - 1
    BY <1>3 DEF IInv, Filling
  <2>2. t \in PoolThread
    BY <1>3 DEF IInv, Filling
  <2>3. count_threads < MINTHREAD
    BY <1>1, <1>3, <2>1, PoolAssumption DEF PoolFull, PoolSlot
  <2> QED BY <1>1, <2>1, <2>2, <2>3, PoolAssumption
<1> QED BY <1>2, <1>3

-----------------------------------------------------------------------------
(* The steps.                                                               *)

(* The control points in which a thread owns a slot and is not yet through. *)
Serving == TPC \ {"none", "start", "done"}

LEMMA InitTyped == Init => TypeOK
<1> SUFFICES ASSUME Init PROVE TypeOK
  OBVIOUS
<1>1. /\ flag \in [Slot -> BOOLEAN]
      /\ got_client \in [Slot -> BOOLEAN]
      /\ ready_thread \in [Slot -> BOOLEAN]
  BY DEF Init
<1>2. tinfo \in [0 .. MAXCLIENT - 1 -> Slot \cup {Elsewhere}]
  BY PoolAssumption DEF Init, Slot
<1>3. /\ tpc \in [Thread -> TPC]
      /\ sock \in [Thread -> Slot \cup {NoSock, Elsewhere}]
      /\ f \in [Thread -> BOOLEAN]
      /\ check \in [Thread -> BOOLEAN]
      /\ cur \in [Thread -> Datagram \cup {NoMsg}]
  BY DEF Init, TPC
<1>4. 0 \in Slot /\ 0 \in 0 .. MAXCLIENT - 1 /\ 0 \in 0 .. MaxCreated
  BY PoolAssumption DEF Slot
<1> QED BY <1>1, <1>2, <1>3, <1>4 DEF Init, TypeOK, MPC

(* Each step keeps the types; the two bounds that are not by construction   *)
(* come from CountBound (a thread's number is an entry of ports[]) and from *)
(* Numbers (an entry from MaxCreated on is never flagged).                  *)
LEMMA NextTyped ==
  ASSUME IInv, [Next]_vars
  PROVE  TypeOK'
<1> USE DEF TypeOK
<1>0. TypeOK
  BY DEF IInv
<1>1. CASE UNCHANGED vars
  BY <1>0, <1>1 DEF vars, portVars, threadVars, mainVars, procVars
<1>2. ASSUME NEW t \in Thread, Register(t) PROVE TypeOK'
  <2>1. count_threads \in Slot
    BY <1>2, FreshNumber, PoolAssumption DEF Register, Goto, Slot
  <2> QED
    BY <1>0, <1>2, <2>1 DEF Register, Goto, TPC, mainVars, procVars
<1>3. ASSUME NEW t \in Thread, Bind(t) PROVE TypeOK'
  <2>1. ThreadNum(my_num[t]) \in Slot \cup {NoSock, Elsewhere}
    BY <1>0, PoolAssumption DEF ThreadNum, Slot
  <2> QED
    BY <1>0, <1>3, <2>1 DEF Bind, Goto, TPC, portVars, mainVars, procVars
<1>4. ASSUME NEW t \in Thread, MarkReady(t) PROVE TypeOK'
  BY <1>0, <1>4 DEF MarkReady, Goto, TPC, mainVars, procVars
<1>5. ASSUME NEW t \in Thread, NEW m \in Datagram, Receive(t, m) PROVE TypeOK'
  BY <1>0, <1>5 DEF Receive, Goto, TPC, portVars, mainVars, procVars
<1>6. ASSUME NEW t \in Thread, RecvError(t) PROVE TypeOK'
  BY <1>0, <1>6 DEF RecvError, Goto, TPC, portVars, mainVars, procVars
<1>7. ASSUME NEW t \in Thread, Accept(t) PROVE TypeOK'
  BY <1>0, <1>7 DEF Accept, Goto, TPC, mainVars, procVars
<1>8. ASSUME NEW t \in Thread, Reject(t) PROVE TypeOK'
  BY <1>0, <1>8 DEF Reject, Goto, TPC, portVars, mainVars, procVars
<1>9. ASSUME NEW t \in Thread, ReplyOk(t) PROVE TypeOK'
  BY <1>0, <1>9 DEF ReplyOk, Goto, TPC, portVars, mainVars, procVars
<1>10. ASSUME NEW t \in Thread, ReplyEnd(t) PROVE TypeOK'
  BY <1>0, <1>10 DEF ReplyEnd, Goto, TPC, portVars, mainVars, procVars
<1>11. ASSUME NEW t \in Thread, SendError(t) PROVE TypeOK'
  BY <1>0, <1>11 DEF SendError, Goto, TPC, portVars, mainVars, procVars
<1>12. ASSUME NEW t \in Thread, EndFree(t) PROVE TypeOK'
  BY <1>0, <1>12 DEF EndFree, Released, Goto, TPC, mainVars, procVars
<1>13. ASSUME NEW t \in Thread, Clear(t) PROVE TypeOK'
  BY <1>0, <1>13 DEF Clear, Released, Goto, TPC, mainVars, procVars
<1>14. ASSUME NEW t \in Thread, Unflag(t) PROVE TypeOK'
  BY <1>0, <1>14 DEF Unflag, Goto, TPC, mainVars, procVars
<1>15. ASSUME NEW t \in Thread, UseAfterFree(t) PROVE TypeOK'
  BY <1>0, <1>15 DEF UseAfterFree, portVars, threadVars, mainVars
<1>16. CASE CreatePool
  <2>1. created + 1 \in 0 .. MaxCreated
    BY <1>0, <1>16, PoolAssumption DEF CreatePool, MainAt, IInv, Creation
  <2>2. tpc' \in [Thread -> TPC] /\ created' \in 0 .. MaxCreated
    BY <1>0, <1>16, <2>1 DEF CreatePool, Spawn, TPC
  <2>3. mpc' \in MPC /\ tnum' \in 0 .. MAXCLIENT - 1 /\ j' \in Slot /\ reply' \in Slot
    BY <1>0, <1>16, PoolAssumption DEF CreatePool, NextTurn, MPC, Slot
  <2> QED
    BY <1>0, <1>16, <2>2, <2>3 DEF CreatePool, portVars, procVars
<1>17. ASSUME NEW c \in Client, MainReceive(c) PROVE TypeOK'
  BY <1>0, <1>17, PoolAssumption
     DEF MainReceive, FreePool, PoolSlot, Slot, MPC, portVars, threadVars, procVars
<1>18. CASE MainCount
  <2>1. IsFiniteSet(Slot) /\ FlagSet \subseteq Slot
    BY FS_Interval, PoolAssumption DEF FlagSet, Slot
  <2>2. count_threads \in Nat
    BY <2>1, FS_Subset, FS_CardinalityType DEF count_threads
  <2> QED
    BY <1>0, <1>18, <2>2, PoolAssumption
       DEF MainCount, NextTurn, MPC, Slot, portVars, threadVars, procVars
<1>19. CASE MainScan
  <2>1. flag[j] => j + 1 \in Slot
    BY <1>0, PoolAssumption DEF IInv, FlagOwned, Numbers, FlagSet, Slot
  <2> QED
    BY <1>0, <1>19, <2>1 DEF MainScan, MPC, portVars, threadVars, procVars
<1>20. CASE MainCreate
  <2>1. created + 1 \in 0 .. MaxCreated
    BY <1>0, <1>20, PoolAssumption DEF MainCreate, MainAt, IInv, Creation
  <2> QED
    BY <1>0, <1>20, <2>1 DEF MainCreate, Spawn, TPC, MPC, portVars, procVars
<1>21. CASE MainSpin
  BY <1>0, <1>21 DEF MainSpin, MPC, portVars, threadVars, procVars
<1>22. CASE MainSend
  BY <1>0, <1>22, PoolAssumption
     DEF MainSend, NextTurn, MPC, Slot, portVars, threadVars, procVars
<1>23. CASE MainError
  BY <1>0, <1>23 DEF MainError, MPC, portVars, threadVars, procVars
<1>24. CASE MainCleanup
  BY <1>0, <1>24 DEF MainCleanup, MPC, portVars, threadVars
<1>25. CASE MainExit
  BY <1>0, <1>25 DEF MainExit, MPC, portVars, threadVars, mainVars
<1>26. CASE Interrupt
  BY <1>0, <1>26 DEF Interrupt, MPC, portVars, threadVars
<1> QED
  BY <1>1, <1>2, <1>3, <1>4, <1>5, <1>6, <1>7, <1>8, <1>9, <1>10, <1>11, <1>12,
     <1>13, <1>14, <1>15, <1>16, <1>17, <1>18, <1>19, <1>20, <1>21, <1>22, <1>23,
     <1>24, <1>25, <1>26
     DEF Next, MainStep, ThreadStep, ThreadFault

(* A thread that owns a slot moves on inside its loop.                      *)
LEMMA ThreadMoves ==
  ASSUME IInv, TypeOK', NEW t \in Thread, NEW x \in Serving \ {"unflag"},
         tpc[t] \in Serving, tpc' = [tpc EXCEPT ![t] = x],
         UNCHANGED <<flag, got_client, my_num, created, mpc, j>>,
         \A u \in Thread : \/ check'[u] = check[u]
                           \/ u = t /\ check'[t] = got_client[my_num[t]]
  PROVE  IInv'
<1>1. /\ Registered' = Registered
      /\ RegisteredPool' = RegisteredPool
      /\ FlagSet' = FlagSet
      /\ PoolFull' = PoolFull
      /\ count_threads' = count_threads
  BY DEF IInv, TypeOK, Registered, RegisteredPool, FlagSet, PoolFull, count_threads,
         Serving
<1>2. \A u \in Thread : (tpc[u] = "none") = (tpc'[u] = "none")
                      /\ (tpc[u] = "done") = (tpc'[u] = "done")
  BY DEF IInv, TypeOK, Serving
<1>3. Creation'
  BY <1>2 DEF IInv, Creation
<1>4. FlagOwned'
  BY <1>1, <1>2 DEF IInv, FlagOwned, Registered
<1>5. Numbers'
  BY <1>1 DEF IInv, Numbers
<1>6. Filling'
  BY <1>1, <1>2 DEF IInv, Filling
<1>7. MainPastPool'
  BY <1>1 DEF IInv, MainPastPool
<1>8. Busy'
  <2>1. t \in Registered
    BY DEF Registered, Serving
  <2> QED
    BY <1>1, <2>1 DEF IInv, Busy, PoolGotClientAccurate, Registered
<1>9. Unflagging'
  BY DEF IInv, TypeOK, Unflagging
<1> QED BY <1>3, <1>4, <1>5, <1>6, <1>7, <1>8, <1>9 DEF IInv

(* The main thread moves on without creating a thread.                      *)
LEMMA MainMoves ==
  ASSUME IInv, TypeOK',
         UNCHANGED <<flag, got_client, my_num, tpc, check, created>>,
         mpc' = "createPool" <=> mpc = "createPool",
         mpc' \in {"count", "scan", "create"} => created < MaxCreated,
         mpc' \in {"count", "scan", "create", "spin"} => PoolFull,
         mpc' \in {"create", "spin"} => j' >= MINTHREAD
  PROVE  IInv'
<1>1. /\ Registered' = Registered
      /\ RegisteredPool' = RegisteredPool
      /\ FlagSet' = FlagSet
      /\ PoolFull' = PoolFull
      /\ count_threads' = count_threads
  BY DEF Registered, RegisteredPool, FlagSet, PoolFull, count_threads
<1>2. Creation'
  BY DEF IInv, Creation
<1>3. FlagOwned' /\ Numbers' /\ Filling'
  BY <1>1 DEF IInv, FlagOwned, Numbers, Filling
<1>4. MainPastPool'
  BY <1>1 DEF IInv, MainPastPool
<1>5. Busy'
  BY <1>1 DEF IInv, Busy, PoolGotClientAccurate
<1>6. Unflagging'
  BY DEF IInv, Unflagging
<1> QED BY <1>2, <1>3, <1>4, <1>5, <1>6 DEF IInv

(* A thread takes its slot.                                                 *)
LEMMA RegisterStep ==
  ASSUME IInv, TypeOK', NEW t \in Thread, Register(t)
  PROVE  IInv'
<1> DEFINE n == count_threads
<1>1. /\ tpc[t] = "start" /\ tpc' = [tpc EXCEPT ![t] = "bind"]
      /\ my_num' = [my_num EXCEPT ![t] = n]
      /\ flag' = [flag EXCEPT ![n] = TRUE]
      /\ got_client' = [got_client EXCEPT ![n] = FALSE]
      /\ UNCHANGED <<check, mpc, j, created>>
  BY DEF Register, Goto, mainVars
<1>2. /\ n \in 0 .. MaxCreated - 1
      /\ n < MINTHREAD <=> t \in PoolThread
      /\ t \in PoolThread => n \notin FlagSet
      /\ t \in PoolThread => FlagSet = 0 .. n - 1
  BY <1>1, FreshNumber
<1>3. n \in Slot
  BY <1>2, PoolAssumption DEF Slot
<1> HIDE DEF n
<1>4. /\ t \notin Registered
      /\ Registered' = Registered \cup {t}
      /\ FlagSet' = FlagSet \cup {n}
  BY <1>1, <1>3 DEF IInv, TypeOK, Registered, FlagSet
<1>5. Creation'
  BY <1>1 DEF IInv, TypeOK, Creation
<1>6. FlagOwned'
  BY <1>1, <1>4 DEF IInv, TypeOK, FlagOwned, Registered
<1>7. Numbers'
  <2>1. my_num'[t] = n /\ \A u \in Registered : u # t /\ my_num'[u] = my_num[u]
    BY <1>1, <1>4 DEF IInv, TypeOK, Registered
  <2>2. \A u \in RegisteredPool : my_num[u] \in FlagSet
    BY DEF IInv, TypeOK, Numbers, RegisteredPool, Registered, FlagSet
  <2>3. RegisteredPool' = RegisteredPool \cup ({t} \cap PoolThread)
    BY <1>4 DEF RegisteredPool
  <2>4. \A u \in Registered' : my_num'[u] < MaxCreated
    BY <1>2, <1>4, <2>1, PoolAssumption DEF IInv, Numbers
  <2>5. \A u \in Registered' : my_num'[u] < MINTHREAD <=> u \in PoolThread
    BY <1>2, <1>4, <2>1 DEF IInv, Numbers
  <2>6. \A u, v \in RegisteredPool' : my_num'[u] = my_num'[v] => u = v
    BY <1>2, <2>1, <2>2, <2>3 DEF IInv, Numbers, RegisteredPool
  <2>7. \A u \in RegisteredPool' : my_num'[u] \in FlagSet'
    BY <1>4, <2>1, <2>2, <2>3 DEF RegisteredPool
  <2> QED BY <2>4, <2>5, <2>6, <2>7 DEF Numbers, FlagSet
<1>8. Filling'
  <2>1. CASE PoolFull
    BY <1>4, <2>1 DEF Filling, PoolFull
  <2>2. CASE ~PoolFull
    <3>1. \A u \in Thread \ PoolThread : tpc[u] = "none"
      BY <2>2 DEF IInv, Filling
    <3>2. t \in PoolThread
      BY <1>1, <3>1
    <3>3. FlagSet' = 0 .. n
      BY <1>2, <1>4, <3>2
    <3>4. Cardinality(0 .. n) = n + 1
      BY <1>2, FS_Interval, PoolAssumption
    <3>5. FlagSet' = 0 .. count_threads' - 1
      BY <1>2, <3>3, <3>4, PoolAssumption DEF count_threads
    <3> QED BY <1>1, <3>1, <3>2, <3>5 DEF Filling
  <2> QED BY <2>1, <2>2
<1>9. MainPastPool'
  BY <1>1, <1>3, <1>4
     DEF IInv, TypeOK, MainPastPool, PoolFull, PoolSlot, FlagSet, Slot
<1>10. Busy'
  <2>1. \A u \in Registered \cap PoolThread : u # t /\ my_num'[u] = my_num[u]
    BY <1>1, <1>4 DEF IInv, TypeOK
  <2>2. \A u \in Registered \cap PoolThread : my_num[u] # n
    BY <1>2, <1>4 DEF IInv, TypeOK, Numbers, RegisteredPool, FlagSet, Registered
  <2>3. my_num'[t] = n /\ got_client'[n] = FALSE /\ ~check'[t]
    BY <1>1, <1>3, <1>4 DEF IInv, TypeOK, Busy
  <2>4. \A k \in Slot : k # n => got_client'[k] = got_client[k]
    BY <1>1, <1>3 DEF IInv, TypeOK
  <2> QED
    BY <1>1, <1>4, <2>1, <2>2, <2>3, <2>4
       DEF IInv, TypeOK, Busy, PoolGotClientAccurate, Registered
<1>11. Unflagging'
  BY <1>1 DEF IInv, TypeOK, Unflagging
<1> QED BY <1>5, <1>6, <1>7, <1>8, <1>9, <1>10, <1>11 DEF IInv

(* A free thread takes a client.                                            *)
LEMMA AcceptStep ==
  ASSUME IInv, TypeOK', NEW t \in Thread, Accept(t)
  PROVE  IInv'
<1>1. /\ tpc[t] = "judge" /\ tpc' = [tpc EXCEPT ![t] = "sendOk"]
      /\ got_client' = [got_client EXCEPT ![my_num[t]] = TRUE]
      /\ check' = [check EXCEPT ![t] = TRUE]
      /\ UNCHANGED <<flag, my_num, mpc, j, created>>
  BY DEF Accept, Goto, mainVars
<1>2. /\ t \in Registered
      /\ Registered' = Registered /\ RegisteredPool' = RegisteredPool
      /\ FlagSet' = FlagSet /\ PoolFull' = PoolFull /\ count_threads' = count_threads
  BY <1>1 DEF IInv, TypeOK, Registered, RegisteredPool, FlagSet, PoolFull, count_threads
<1>3. Creation'
  BY <1>1 DEF IInv, TypeOK, Creation
<1>4. FlagOwned'
  BY <1>1, <1>2 DEF IInv, TypeOK, FlagOwned, Registered
<1>5. Numbers'
  BY <1>1, <1>2 DEF IInv, Numbers
<1>6. Filling'
  BY <1>1, <1>2 DEF IInv, TypeOK, Filling
<1>7. MainPastPool'
  <2>1. my_num[t] \in PoolSlot => flag[my_num[t]]
    BY <1>2, PoolAssumption
       DEF IInv, TypeOK, Numbers, RegisteredPool, PoolSlot, Registered, Slot
  <2>2. \A k \in PoolSlot : got_client'[k] => got_client[k] \/ k = my_num[t]
    BY <1>1, PoolAssumption DEF IInv, TypeOK, PoolSlot, Slot
  <2> QED BY <1>1, <1>2, <2>1, <2>2 DEF IInv, MainPastPool
<1>8. Busy'
  BY <1>1, <1>2 DEF IInv, TypeOK, Busy, PoolGotClientAccurate, Numbers, Registered,
                    RegisteredPool
<1>9. Unflagging'
  BY <1>1 DEF IInv, TypeOK, Unflagging
<1> QED BY <1>3, <1>4, <1>5, <1>6, <1>7, <1>8, <1>9 DEF IInv

(* Giving a slot back leaves the pool numbers, their flags and their busy   *)
(* bits as they are, but for the pool thread that gives it back.            *)
LEMMA ReleaseStep ==
  ASSUME IInv, TypeOK', NEW t \in Thread, tpc[t] \in Serving,
         NEW x \in Serving \cup {"done"}, tpc' = [tpc EXCEPT ![t] = x],
         x = "done" /\ my_num[t] >= MINTHREAD => ~flag'[my_num[t]],
         x = "unflag" => my_num[t] >= MINTHREAD,
         \/ /\ got_client' = [got_client EXCEPT ![my_num[t]] = FALSE]
            /\ check' = [check EXCEPT ![t] = FALSE]
         \/ my_num[t] >= MINTHREAD /\ UNCHANGED <<got_client, check>>,
         \/ flag' = flag
         \/ my_num[t] >= MINTHREAD /\ flag' = [flag EXCEPT ![my_num[t]] = FALSE],
         UNCHANGED <<my_num, created, mpc, j>>
  PROVE  IInv'
<1>1. /\ t \in Registered
      /\ Registered' = Registered /\ RegisteredPool' = RegisteredPool
  BY DEF IInv, TypeOK, Registered, RegisteredPool, Serving
<1>2. \A k \in PoolSlot : flag'[k] = flag[k]
  <2>1. \A k \in PoolSlot : k \in Slot /\ k < MINTHREAD
    BY PoolAssumption DEF PoolSlot, Slot
  <2>2. CASE flag' = flag
    BY <2>2
  <2>3. CASE my_num[t] >= MINTHREAD /\ flag' = [flag EXCEPT ![my_num[t]] = FALSE]
    <3>1. my_num[t] \in Int /\ \A k \in PoolSlot : k \in Int /\ k # my_num[t]
      BY <2>1, <2>3, PoolAssumption DEF IInv, TypeOK, Slot
    <3>2. flag \in [Slot -> BOOLEAN]
      BY DEF IInv, TypeOK
    <3> QED BY <2>1, <2>3, <3>1, <3>2
  <2> QED BY <2>2, <2>3
<1>3. FlagSet' \subseteq FlagSet /\ PoolFull' = PoolFull
  BY <1>2, PoolAssumption DEF IInv, TypeOK, FlagSet, PoolFull, PoolSlot, Slot
<1>4. \A u \in RegisteredPool : my_num[u] \in PoolSlot
  BY PoolAssumption
     DEF IInv, TypeOK, Numbers, RegisteredPool, Registered, PoolSlot, Slot
<1>5. Creation'
  <2>1. \A u \in Thread : tpc'[u] # "none" => tpc[u] # "none"
    BY DEF IInv, TypeOK, Serving
  <2> QED BY <2>1 DEF IInv, Creation
<1>6. FlagOwned'
  <2> SUFFICES ASSUME NEW k \in FlagSet'
               PROVE  \E u \in Registered' :
                        my_num'[u] = k /\ (k >= MINTHREAD => tpc'[u] # "done")
    BY DEF FlagOwned
  <2>1. PICK u \in Registered : my_num[u] = k /\ (k >= MINTHREAD => tpc[u] # "done")
    BY <1>3 DEF IInv, FlagOwned
  <2>2. CASE u = t
    BY <1>1, <2>1, <2>2 DEF IInv, TypeOK, FlagSet, Serving
  <2>3. CASE u # t
    BY <1>1, <2>1, <2>3 DEF IInv, TypeOK, Registered
  <2> QED BY <2>2, <2>3
<1>7. Numbers'
  BY <1>1, <1>2, <1>4 DEF IInv, Numbers
<1>8. Filling'
  <2>1. CASE PoolFull
    BY <1>3, <2>1 DEF Filling
  <2>2. CASE ~PoolFull
    <3>1. \A u \in Thread \ PoolThread : tpc[u] = "none"
      BY <2>2 DEF IInv, Filling
    <3>2. t \in RegisteredPool
      BY <1>1, <3>1 DEF RegisteredPool, Serving
    <3>3. my_num[t] < MINTHREAD
      BY <3>2 DEF IInv, Numbers, RegisteredPool
    <3>4. flag' = flag
      BY <3>3, PoolAssumption DEF IInv, TypeOK, Slot
    <3>5. FlagSet' = FlagSet /\ count_threads' = count_threads
      BY <3>4 DEF FlagSet, count_threads
    <3>6. \A u \in Thread \ PoolThread : tpc'[u] = "none"
      BY <3>1, <3>2 DEF IInv, TypeOK, RegisteredPool
    <3> QED BY <2>2, <3>5, <3>6 DEF IInv, Filling
  <2> QED BY <2>1, <2>2
<1>9. MainPastPool'
  <2>1. \A k \in PoolSlot : got_client'[k] => got_client[k]
    BY PoolAssumption DEF IInv, TypeOK, PoolSlot, Slot
  <2> QED BY <1>2, <1>3, <2>1 DEF IInv, MainPastPool
<1>10. Busy'
  <2>1. \A u \in Thread : u \notin Registered => ~check'[u]
    BY <1>1 DEF IInv, TypeOK, Busy
  <2>2. ASSUME NEW u \in RegisteredPool
        PROVE  got_client'[my_num[u]] <=> check'[u]
    <3>1. u \in Thread /\ my_num[u] \in Slot /\ (got_client[my_num[u]] <=> check[u])
      BY DEF IInv, TypeOK, Busy, PoolGotClientAccurate, RegisteredPool, Registered
    <3>2. u # t => my_num[u] # my_num[t]
      BY <1>1, <1>4, PoolAssumption DEF IInv, Numbers, RegisteredPool, PoolSlot
    <3> QED BY <3>1, <3>2 DEF IInv, TypeOK
  <2> QED BY <1>1, <2>1, <2>2 DEF Busy, PoolGotClientAccurate, RegisteredPool
<1>11. Unflagging'
  BY DEF IInv, TypeOK, Unflagging
<1> QED BY <1>5, <1>6, <1>7, <1>8, <1>9, <1>10, <1>11 DEF IInv

(* pthread_create: the next thread starts, or, when it fails, does not.     *)
LEMMA SpawnStep ==
  ASSUME IInv, TypeOK', Spawn, created < MaxCreated,
         created + 1 <= MINTHREAD \/ PoolFull,
         UNCHANGED <<flag, got_client, my_num, check>>,
         mpc' = "createPool" <=> created' < MINTHREAD,
         mpc' \in {"count", "scan", "create"} => created' < MaxCreated,
         mpc' \in {"count", "scan", "create", "spin"} => PoolFull,
         mpc' \in {"create", "spin"} => j' >= MINTHREAD
  PROVE  IInv'
<1> DEFINE t == created + 1
<1>1. t \in Thread /\ created' = created + 1
  BY PoolAssumption DEF IInv, TypeOK, Thread, Spawn
<1>2. tpc' = tpc \/ tpc' = [tpc EXCEPT ![t] = "start"]
  BY DEF Spawn
<1>3. tpc[t] = "none"
  BY <1>1 DEF IInv, TypeOK, Creation
<1> HIDE DEF t
<1>4. /\ Registered' = Registered /\ RegisteredPool' = RegisteredPool
      /\ FlagSet' = FlagSet /\ PoolFull' = PoolFull /\ count_threads' = count_threads
  BY <1>1, <1>2, <1>3
     DEF IInv, TypeOK, Registered, RegisteredPool, FlagSet, PoolFull, count_threads
<1>5. \A u \in Registered : tpc'[u] = tpc[u]
  BY <1>1, <1>2, <1>3 DEF IInv, TypeOK, Registered
<1>6. Creation'
  <2>1. \A u \in Thread : tpc'[u] # "none" => tpc[u] # "none" \/ u = t
    BY <1>1, <1>2 DEF IInv, TypeOK
  <2>2. \A u \in Thread : tpc'[u] # "none" => u <= created'
    BY <1>1, <2>1, PoolAssumption DEF IInv, TypeOK, Creation, Thread, t
  <2> QED BY <2>2 DEF Creation
<1>7. FlagOwned' /\ Numbers'
  BY <1>4, <1>5 DEF IInv, FlagOwned, Numbers
<1>8. Filling'
  <2>1. CASE PoolFull
    BY <1>4, <2>1 DEF Filling
  <2>2. CASE ~PoolFull
    <3>1. t \in PoolThread
      BY <1>1, <2>2, PoolAssumption DEF IInv, TypeOK, PoolThread, Thread, t
    <3>2. \A u \in Thread \ PoolThread : tpc'[u] = tpc[u]
      BY <1>1, <1>2, <3>1 DEF IInv, TypeOK
    <3> QED BY <1>4, <2>2, <3>2 DEF IInv, Filling
  <2> QED BY <2>1, <2>2
<1>9. MainPastPool'
  BY <1>4 DEF IInv, MainPastPool
<1>10. Busy'
  BY <1>4 DEF IInv, Busy, PoolGotClientAccurate
<1>11. Unflagging'
  BY <1>1, <1>2 DEF IInv, TypeOK, Unflagging
<1> QED BY <1>6, <1>7, <1>8, <1>9, <1>10, <1>11 DEF IInv

-----------------------------------------------------------------------------
(* The invariant, and what follows from it.                                 *)

LEMMA InitInvariant == Init => IInv
<1> SUFFICES ASSUME Init PROVE IInv
  OBVIOUS
<1>1. TypeOK
  BY InitTyped
<1>2. Registered = {} /\ FlagSet = {} /\ count_threads = 0
  BY FS_EmptySet DEF Init, Registered, FlagSet, count_threads, Thread
<1>3. Creation /\ FlagOwned /\ Numbers /\ Busy
  BY <1>2, PoolAssumption
     DEF Init, Creation, FlagOwned, Numbers, RegisteredPool, Busy, PoolGotClientAccurate
<1>4. Filling
  BY <1>2 DEF Init, Filling, Thread
<1>5. MainPastPool
  BY PoolAssumption DEF Init, MainPastPool, PoolSlot, Slot
<1>6. Unflagging
  BY DEF Init, Unflagging
<1> QED BY <1>1, <1>3, <1>4, <1>5, <1>6 DEF IInv

LEMMA NextInvariant ==
  ASSUME IInv, [Next]_vars
  PROVE  IInv'
<1>0. TypeOK'
  BY NextTyped
<1>1. CASE UNCHANGED vars
  BY <1>0, <1>1, MainMoves
     DEF vars, portVars, threadVars, mainVars, procVars, IInv, Creation, MainPastPool
<1>2. ASSUME NEW t \in Thread, Register(t) PROVE IInv'
  BY <1>0, <1>2, RegisterStep
<1>3. ASSUME NEW t \in Thread, Bind(t) PROVE IInv'
  BY <1>0, <1>3, ThreadMoves
     DEF Bind, Goto, Serving, TPC, portVars, mainVars
<1>4. ASSUME NEW t \in Thread, MarkReady(t) PROVE IInv'
  BY <1>0, <1>4, ThreadMoves DEF MarkReady, Goto, Serving, TPC, mainVars
<1>5. ASSUME NEW t \in Thread, NEW m \in Datagram, Receive(t, m) PROVE IInv'
  <2>1. \A u \in Thread : \/ check'[u] = check[u]
                          \/ u = t /\ check'[t] = got_client[my_num[t]]
    BY <1>5 DEF Receive, IInv, TypeOK
  <2>2. PICK x \in {"judge", "sendEnd", "sendOk"} : Goto(t, "recv", x)
    BY <1>5 DEF Receive
  <2>3. tpc[t] \in Serving /\ x \in Serving /\ tpc' = [tpc EXCEPT ![t] = x]
    BY <2>2 DEF Goto, Serving, TPC
  <2> QED
    BY <1>0, <1>5, <2>1, <2>3, ThreadMoves DEF Receive, portVars, mainVars
<1>6. ASSUME NEW t \in Thread, RecvError(t) PROVE IInv'
  BY <1>0, <1>6, ThreadMoves DEF RecvError, Goto, Serving, TPC, portVars, mainVars
<1>7. ASSUME NEW t \in Thread, Accept(t) PROVE IInv'
  BY <1>0, <1>7, AcceptStep
<1>8. ASSUME NEW t \in Thread, Reject(t) PROVE IInv'
  BY <1>0, <1>8, ThreadMoves DEF Reject, Goto, Serving, TPC, portVars, mainVars
<1>9. ASSUME NEW t \in Thread, ReplyOk(t) PROVE IInv'
  BY <1>0, <1>9, ThreadMoves DEF ReplyOk, Goto, Serving, TPC, portVars, mainVars
<1>10. ASSUME NEW t \in Thread, ReplyEnd(t) PROVE IInv'
  BY <1>0, <1>10, ThreadMoves DEF ReplyEnd, Goto, Serving, TPC, portVars, mainVars
<1>11. ASSUME NEW t \in Thread, SendError(t) PROVE IInv'
  BY <1>0, <1>11, ThreadMoves DEF SendError, Goto, Serving, TPC, portVars, mainVars
<1>12. ASSUME NEW t \in Thread, EndFree(t) PROVE IInv'
  <2>0. /\ got_client' = [got_client EXCEPT ![my_num[t]] = FALSE]
        /\ check' = [check EXCEPT ![t] = FALSE]
        /\ UNCHANGED <<my_num, created, mpc, j>>
    BY <1>12 DEF EndFree, Released, mainVars
  <2>1. CASE my_num[t] < MINTHREAD /\ Goto(t, "endFree", "ready") /\ UNCHANGED flag
    <3>1. ~(my_num[t] >= MINTHREAD)
      BY <2>1, PoolAssumption DEF IInv, TypeOK, Slot
    <3> QED
      <4>1. tpc[t] \in Serving /\ tpc' = [tpc EXCEPT ![t] = "ready"]
            /\ "ready" \in Serving /\ flag' = flag
        BY <2>1 DEF Goto, Serving, TPC
      <4> QED BY <1>0, <1>12, <2>0, <3>1, <4>1, ReleaseStep
  <2>2. CASE /\ my_num[t] >= MINTHREAD /\ Goto(t, "endFree", "done")
             /\ flag' = [flag EXCEPT ![my_num[t]] = FALSE]
    <3>1. ~flag'[my_num[t]]
      BY <2>2 DEF IInv, TypeOK
    <3> QED
      <4>1. tpc[t] \in Serving /\ tpc' = [tpc EXCEPT ![t] = "done"]
        BY <2>2 DEF Goto, Serving, TPC
      <4> QED BY <1>0, <1>12, <2>0, <2>2, <3>1, <4>1, ReleaseStep
  <2> QED BY <1>12, <2>1, <2>2 DEF EndFree
<1>13. ASSUME NEW t \in Thread, Clear(t) PROVE IInv'
  <2>1. my_num[t] >= MINTHREAD => Goto(t, "clear", "unflag")
    BY <1>13 DEF Clear, PastPool
  <2>2. ~(my_num[t] >= MINTHREAD) => Goto(t, "clear", "done")
    BY <1>13 DEF Clear, PastPool
  <2>3. /\ got_client' = [got_client EXCEPT ![my_num[t]] = FALSE]
        /\ check' = [check EXCEPT ![t] = FALSE]
        /\ UNCHANGED <<flag, my_num, created, mpc, j>>
    BY <1>13 DEF Clear, Released, mainVars
  <2>4. tpc[t] \in Serving /\ "unflag" \in Serving
    BY <1>13 DEF Clear, Goto, Serving, TPC
  <2>5. CASE my_num[t] >= MINTHREAD
    <3>1. tpc' = [tpc EXCEPT ![t] = "unflag"]
      BY <2>1, <2>5 DEF Goto
    <3> QED BY <1>0, <1>13, <2>3, <2>4, <2>5, <3>1, ReleaseStep
  <2>6. CASE ~(my_num[t] >= MINTHREAD)
    <3>1. tpc' = [tpc EXCEPT ![t] = "done"]
      BY <2>2, <2>6 DEF Goto
    <3> QED BY <1>0, <1>13, <2>3, <2>4, <2>6, <3>1, ReleaseStep
  <2> QED BY <2>5, <2>6
<1>14. ASSUME NEW t \in Thread, Unflag(t) PROVE IInv'
  <2>1. ~flag'[my_num[t]]
    BY <1>14 DEF Unflag, IInv, TypeOK
  <2>2. my_num[t] >= MINTHREAD
    BY <1>14 DEF Unflag, Goto, IInv, Unflagging
  <2> QED
    BY <1>0, <1>14, <2>1, <2>2, ReleaseStep
       DEF Unflag, Goto, Serving, TPC, mainVars
<1>15. ASSUME NEW t \in Thread, UseAfterFree(t) PROVE IInv'
  BY <1>0, <1>15, MainMoves
     DEF UseAfterFree, portVars, threadVars, mainVars, IInv, Creation, MainPastPool
<1>16. CASE CreatePool
  <2>1. mpc = "createPool" /\ Spawn /\ created < MINTHREAD
    BY <1>16 DEF CreatePool, MainAt, IInv, Creation
  <2>2. created < MaxCreated /\ created + 1 <= MINTHREAD /\ created' = created + 1
    BY <2>1, PoolAssumption DEF IInv, TypeOK, Spawn
  <2>3. mpc' = "createPool" <=> created' < MINTHREAD
    BY <1>16, <2>1, <2>2, PoolAssumption DEF CreatePool, NextTurn, IInv, TypeOK
  <2>4. mpc' \in {"createPool", "cleanup", "recv"}
    BY <1>16, <2>1 DEF CreatePool, NextTurn
  <2> QED
    BY <1>0, <1>16, <2>1, <2>2, <2>3, <2>4, SpawnStep DEF CreatePool, portVars
<1>17. ASSUME NEW c \in Client, MainReceive(c) PROVE IInv'
  <2>1. mpc' = "count" => PoolFull
    <3>1. mpc' = "count" => FreePool = {}
      BY <1>17 DEF MainReceive
    <3>2. PoolSlot \subseteq Slot
      BY PoolAssumption DEF PoolSlot, Slot
    <3>3. FreePool = {} => \A k \in PoolSlot : flag[k]
      BY DEF FreePool, IInv, MainPastPool
    <3> QED BY <3>1, <3>2, <3>3 DEF PoolFull, FlagSet
  <2> QED
    BY <1>0, <1>17, <2>1, MainMoves DEF MainReceive, MainAt, portVars, threadVars
<1>18. CASE MainCount
  BY <1>0, <1>18, MainMoves
     DEF MainCount, MainAt, NextTurn, portVars, threadVars, IInv, Creation, MainPastPool
<1>19. CASE MainScan
  <2>1. mpc = "scan" /\ PoolFull /\ created < MaxCreated
    BY <1>19 DEF MainScan, MainAt, IInv, Creation, MainPastPool
  <2>2. mpc' = "create" => j' >= MINTHREAD
    BY <1>19, <2>1, PoolAssumption
       DEF MainScan, IInv, TypeOK, PoolFull, PoolSlot, FlagSet, Slot
  <2>3. mpc' \in {"scan", "create"}
    BY <1>19, <2>1 DEF MainScan
  <2> QED
    BY <1>0, <1>19, <2>1, <2>2, <2>3, MainMoves DEF MainScan, portVars, threadVars
<1>20. CASE MainCreate
  <2>1. /\ mpc = "create" /\ mpc' = "spin" /\ PoolFull /\ j' = j /\ j >= MINTHREAD
        /\ Spawn /\ created < MaxCreated /\ created >= MINTHREAD
        /\ created' = created + 1
    BY <1>20, PoolAssumption
       DEF MainCreate, MainAt, Spawn, IInv, TypeOK, Creation, MainPastPool
  <2>2. ~(created' < MINTHREAD)
    BY <2>1, PoolAssumption DEF IInv, TypeOK
  <2> QED
    BY <1>0, <1>20, <2>1, <2>2, SpawnStep DEF MainCreate, portVars
<1>21. CASE MainSpin
  BY <1>0, <1>21, MainMoves DEF MainSpin, MainAt, portVars, threadVars
<1>22. CASE MainSend
  BY <1>0, <1>22, MainMoves DEF MainSend, MainAt, NextTurn, portVars, threadVars
<1>23. CASE MainError
  BY <1>0, <1>23, MainMoves DEF MainError, MainAt, portVars, threadVars
<1>24. CASE MainCleanup
  BY <1>0, <1>24, MainMoves DEF MainCleanup, MainAt, portVars, threadVars
<1>25. CASE MainExit
  BY <1>0, <1>25, MainMoves
     DEF MainExit, portVars, threadVars, mainVars, IInv, Creation, MainPastPool
<1>26. CASE Interrupt
  <2>1. mpc' = mpc \/ (mpc = "recv" /\ mpc' = "cleanup")
    BY <1>26 DEF Interrupt
  <2>2. UNCHANGED <<flag, got_client, my_num, tpc, check, created, j>>
    BY <1>26 DEF Interrupt, portVars, threadVars
  <2>3. CASE mpc' = mpc
    <3>1. /\ mpc \in {"count", "scan", "create"} => created < MaxCreated
          /\ mpc \in {"count", "scan", "create", "spin"} => PoolFull
          /\ mpc \in {"create", "spin"} => j >= MINTHREAD
      BY DEF IInv, Creation, MainPastPool
    <3> QED BY <1>0, <2>2, <2>3, <3>1, MainMoves
  <2>4. CASE mpc = "recv" /\ mpc' = "cleanup"
    BY <1>0, <2>2, <2>4, MainMoves
  <2> QED BY <2>1, <2>3, <2>4
<1> QED
  BY <1>1, <1>2, <1>3, <1>4, <1>5, <1>6, <1>7, <1>8, <1>9, <1>10, <1>11, <1>12,
     <1>13, <1>14, <1>15, <1>16, <1>17, <1>18, <1>19, <1>20, <1>21, <1>22, <1>23,
     <1>24, <1>25, <1>26
     DEF Next, MainStep, ThreadStep, ThreadFault

(* The invariant holds in every behaviour.                                  *)
THEOREM Invariance == SafeSpec => []IInv
BY InitInvariant, NextInvariant, PTL DEF SafeSpec

(* No variable ever leaves its type; in particular a thread's number is     *)
(* always an entry of ports[], the search for an entry stays inside it, and *)
(* tinfo[] is written inside its array.                                     *)
THEOREM TypeCorrect == SafeSpec => []TypeOK
<1>1. IInv => TypeOK
  BY DEF IInv
<1> QED BY <1>1, Invariance, PTL

(* The numbers below MINTHREAD belong to the pool threads, one each, and no *)
(* dynamic thread is given a pool port.                                     *)
THEOREM PoolSlotsSafe == SafeSpec => []PoolSlotsOwned
<1>1. IInv => PoolSlotsOwned
  BY DEF IInv, PoolSlotsOwned, Numbers, RegisteredPool, MainPastPool
<1> QED BY <1>1, Invariance, PTL

(* The bit by which the main thread finds a free pool thread is always what *)
(* that thread itself believes.                                             *)
THEOREM PoolBusySafe == SafeSpec => []PoolGotClientAccurate
<1>1. IInv => PoolGotClientAccurate
  BY DEF IInv, Busy
<1> QED BY <1>1, Invariance, PTL

(* No entry of a dynamic thread stays flagged without a thread to clear it. *)
THEOREM NoLeak == SafeSpec => []NoEntryLeaked
<1>1. IInv => NoEntryLeaked
  BY DEF IInv, FlagOwned, NoEntryLeaked
<1> QED BY <1>1, Invariance, PTL

-----------------------------------------------------------------------------
(* The first generation of dynamic threads.                                 *)

Dynamic == Thread \ PoolThread

(* While nobody has cleared a flag past the pool, the flags fill up from 0, *)
(* so that every count is a number nobody has.                              *)
Aligned ==
  /\ FlagSet = 0 .. count_threads - 1
  /\ \A t \in Registered : flag[my_num[t]]
  /\ \A t, u \in Registered : my_num[t] = my_num[u] => t = u

(* A dynamic thread with number k that has bound its port.                  *)
HasPort(k) ==
  \E t \in Registered : t \in Dynamic /\ my_num[t] = k /\ tpc[t] # "bind"

Ports ==
  /\ \A k \in PoolSlot : tinfo[k] = k
  /\ \A t \in Registered : my_num[t] < MAXCLIENT /\ tinfo[my_num[t]] = my_num[t]
  /\ \A t \in Thread :
       sock[t] = NoSock \/ (t \in Registered /\ sock[t] = my_num[t])
  /\ \A t \in Registered :
       t \in Dynamic /\ tpc[t] # "bind" => sock[t] = my_num[t]
  /\ \A k \in Slot : ready_thread[k] /\ k >= MINTHREAD => HasPort(k)

(* The number main has counted is the one the thread it creates will take:  *)
(* there is one thread that has not taken its number yet, and main waits    *)
(* for it.                                                                  *)
Handing ==
  /\ \A t \in Dynamic : tpc[t] = "start" =>
       /\ mpc = "spin" /\ count_threads = j
       /\ \A u \in Dynamic : tpc[u] = "start" => u = t
  /\ mpc \in {"createPool", "recv", "count"} => j = 0
  /\ mpc = "scan" => j <= count_threads
  /\ mpc \in {"scan", "create"} => tnum = count_threads
  /\ mpc = "create" => j = tnum
  /\ mpc = "spin" => reply = j /\ j < MAXCLIENT /\ tinfo[j] = j
  /\ mpc = "send" /\ reply >= MINTHREAD => HasPort(reply)

(* The numbers need nothing of the memory that ports[] is in.               *)
NInv == FirstGeneration => Aligned

(* What the main thread sends does: it waits for the new thread only if the *)
(* ready bit of its entry was not set to begin with.                        *)
AInv == FirstGeneration /\ FreshMemory => Aligned /\ Ports /\ Handing

(* A dynamic thread that has begun to end does not go back.                 *)
LEMMA FirstBefore ==
  ASSUME IInv, [Next]_vars, FirstGeneration'
  PROVE  FirstGeneration
<1> DEFINE Ending == {"endFree", "clear", "unflag", "done"}
<1> SUFFICES ASSUME NEW u \in Thread \ PoolThread, tpc[u] \in Ending
             PROVE  tpc'[u] \in Ending
  BY DEF FirstGeneration
<1>0. /\ tpc \in [Thread -> TPC] /\ my_num \in [Thread -> Slot]
      /\ u \in Thread /\ ~(my_num[u] < MINTHREAD)
  BY DEF IInv, TypeOK, Numbers, Registered
<1>1. CASE UNCHANGED tpc
  BY <1>1
<1>2. ASSUME NEW t \in Thread, NEW x \in TPC, NEW y \in TPC, Goto(t, x, y),
             x \in Ending => y \in Ending
      PROVE  tpc'[u] \in Ending
  BY <1>0, <1>2 DEF Goto
<1>3. ASSUME NEW t \in Thread, EndFree(t) PROVE tpc'[u] \in Ending
  <2>1. CASE t = u
    BY <1>0, <1>3, <2>1 DEF EndFree, Goto
  <2>2. CASE t # u
    BY <1>0, <1>3, <2>2 DEF EndFree, Goto
  <2> QED BY <2>1, <2>2
<1>4. ASSUME NEW t \in Thread,
             Register(t) \/ Bind(t) \/ MarkReady(t) \/ RecvError(t) \/ Accept(t)
               \/ Reject(t) \/ ReplyOk(t) \/ ReplyEnd(t) \/ SendError(t)
               \/ Clear(t) \/ Unflag(t)
      PROVE  tpc'[u] \in Ending
  BY <1>0, <1>4 DEF Register, Bind, MarkReady, RecvError, Accept, Reject, ReplyOk,
     ReplyEnd, SendError, Clear, Unflag, Goto
<1>5. ASSUME NEW t \in Thread, NEW m \in Datagram, Receive(t, m)
      PROVE  tpc'[u] \in Ending
  BY <1>0, <1>5 DEF Receive, Goto
<1>6. CASE CreatePool \/ MainCreate
  <2>1. tpc' = tpc \/ tpc' = [tpc EXCEPT ![created + 1] = "start"]
    BY <1>6 DEF CreatePool, MainCreate, Spawn
  <2>2. created \in Nat /\ (tpc[u] # "none" => u <= created) /\ u \in Nat
    BY <1>0, PoolAssumption DEF IInv, TypeOK, Creation, Thread
  <2>3. u # created + 1
    BY <2>2
  <2> QED BY <1>0, <2>1, <2>3
<1>7. CASE \/ MainCount \/ MainScan \/ MainSpin \/ MainSend \/ MainCleanup \/ MainExit
           \/ MainError \/ Interrupt \/ (\E c \in Client : MainReceive(c))
           \/ (\E t \in Thread : UseAfterFree(t)) \/ UNCHANGED vars
  <2>1. UNCHANGED tpc
    BY <1>7 DEF MainCount, MainScan, MainSpin, MainSend, MainCleanup, MainExit,
       MainError, Interrupt, MainReceive, UseAfterFree, vars, threadVars
  <2> QED BY <1>1, <2>1
<1> QED
  BY <1>3, <1>4, <1>5, <1>6, <1>7 DEF Next, MainStep, ThreadStep, ThreadFault

(* A thread takes the next number.                                          *)
LEMMA RegisterNumbers ==
  ASSUME IInv, Aligned, NEW t \in Thread, Register(t)
  PROVE  Aligned'
<1> DEFINE n == count_threads
<1>1. /\ tpc[t] = "start" /\ tpc' = [tpc EXCEPT ![t] = "bind"]
      /\ my_num' = [my_num EXCEPT ![t] = n]
      /\ flag' = [flag EXCEPT ![n] = TRUE]
  BY DEF Register, Goto
<1>2. n \in 0 .. MaxCreated - 1
  BY <1>1, FreshNumber
<1>3. n \in Slot /\ n \in Nat
  BY <1>2, PoolAssumption DEF Slot
<1>4. FlagSet = 0 .. n - 1
  BY DEF Aligned
<1> HIDE DEF n
<1>5. /\ t \notin Registered
      /\ Registered' = Registered \cup {t}
      /\ FlagSet' = FlagSet \cup {n}
  BY <1>1, <1>3 DEF IInv, TypeOK, Registered, FlagSet
<1>6. FlagSet' = 0 .. n /\ count_threads' = n + 1
  <2>1. FlagSet' = 0 .. n
    BY <1>3, <1>4, <1>5
  <2> QED BY <1>3, <2>1, FS_Interval DEF count_threads
<1>7. \A u \in Registered : my_num[u] # n /\ my_num'[u] = my_num[u]
  <2> TAKE u \in Registered
  <2>1. u \in Thread /\ u # t /\ my_num[u] \in Slot
    BY <1>5 DEF IInv, TypeOK, Registered
  <2>2. my_num[u] \in FlagSet
    BY <2>1 DEF Aligned, FlagSet
  <2> QED BY <1>1, <1>3, <1>4, <2>1, <2>2 DEF IInv, TypeOK
<1>8. my_num'[t] = n /\ flag'[n]
  BY <1>1, <1>3 DEF IInv, TypeOK
<1>9. FlagSet' = 0 .. count_threads' - 1
  BY <1>3, <1>6
<1>10. \A u \in Registered' : flag'[my_num'[u]]
  BY <1>1, <1>3, <1>5, <1>7, <1>8 DEF Aligned, IInv, TypeOK
<1>11. \A u, v \in Registered' : my_num'[u] = my_num'[v] => u = v
  BY <1>5, <1>7, <1>8 DEF Aligned
<1> QED BY <1>9, <1>10, <1>11 DEF Aligned

(* Only a registration gives a number, and only the end of a dynamic thread *)
(* clears a flag.                                                           *)
LEMMA NextNumbered ==
  ASSUME IInv, NInv, [Next]_vars
  PROVE  NInv'
<1> SUFFICES ASSUME FirstGeneration' PROVE Aligned'
  BY DEF NInv
<1>0. FirstGeneration /\ Aligned /\ TypeOK
  BY FirstBefore DEF NInv, IInv
<1>1. ASSUME UNCHANGED <<flag, my_num>>, Registered' = Registered
      PROVE  Aligned'
  <2>1. FlagSet' = FlagSet /\ count_threads' = count_threads
    BY <1>1 DEF FlagSet, count_threads
  <2> QED BY <1>0, <1>1, <2>1 DEF Aligned
<1>2. ASSUME NEW t \in Thread, Register(t) PROVE Aligned'
  BY <1>0, <1>2, RegisterNumbers
<1>3. ASSUME NEW t \in Thread, NEW x \in TPC \ {"none", "start"},
             NEW y \in TPC \ {"none", "start"}, Goto(t, x, y)
      PROVE  Registered' = Registered
  BY <1>0, <1>3 DEF Goto, TypeOK, Registered
<1>4. ASSUME NEW t \in Thread,
             \/ Bind(t) \/ Accept(t) \/ Reject(t) \/ ReplyOk(t) \/ ReplyEnd(t)
             \/ RecvError(t) \/ SendError(t) \/ MarkReady(t)
             \/ \E m \in Datagram : Receive(t, m)
      PROVE  Aligned'
  <2>1. UNCHANGED <<flag, my_num>>
    BY <1>4 DEF Bind, Accept, Reject, ReplyOk, ReplyEnd, RecvError, SendError,
       MarkReady, Receive, portVars
  <2>2. \E x, y \in TPC \ {"none", "start"} : Goto(t, x, y)
    BY <1>4 DEF Bind, Accept, Reject, ReplyOk, ReplyEnd, RecvError, SendError,
       MarkReady, Receive, TPC
  <2> QED BY <1>1, <1>3, <2>1, <2>2
<1>5. ASSUME NEW t \in Thread, EndFree(t) \/ Clear(t) \/ Unflag(t) PROVE Aligned'
  <2>1. \E x, y \in TPC \ {"none", "start"} : Goto(t, x, y)
    BY <1>5 DEF EndFree, Clear, Unflag, TPC
  <2>2. tpc[t] \in {"endFree", "clear", "unflag"}
    BY <1>5 DEF EndFree, Clear, Unflag, Goto
  <2>3. t \in PoolThread /\ t \in Registered
    BY <1>0, <2>2 DEF FirstGeneration, Registered
  <2>4. my_num[t] < MINTHREAD /\ ~(my_num[t] >= MINTHREAD)
    BY <1>0, <2>3, PoolAssumption DEF IInv, Numbers, TypeOK, Slot
  <2>5. ~Unflag(t)
    BY <2>4 DEF Unflag, Goto, IInv, Unflagging
  <2>6. UNCHANGED <<flag, my_num>>
    BY <1>5, <2>4, <2>5 DEF EndFree, Clear
  <2> QED BY <1>1, <1>3, <2>1, <2>6
<1>6. CASE CreatePool \/ MainCreate
  <2>1. tpc' = tpc \/ tpc' = [tpc EXCEPT ![created + 1] = "start"]
    BY <1>6 DEF CreatePool, MainCreate, Spawn
  <2>2. created + 1 \in Thread => tpc[created + 1] = "none"
    BY <1>0 DEF IInv, TypeOK, Creation
  <2>3. Registered' = Registered
    BY <1>0, <2>1, <2>2 DEF TypeOK, Registered
  <2> QED BY <1>1, <1>6, <2>3 DEF CreatePool, MainCreate, portVars
<1>7. CASE \/ MainCount \/ MainScan \/ MainSpin \/ MainSend \/ MainCleanup \/ MainExit
           \/ MainError \/ Interrupt \/ (\E c \in Client : MainReceive(c))
           \/ (\E t \in Thread : UseAfterFree(t)) \/ UNCHANGED vars
  <2>1. UNCHANGED <<flag, my_num, tpc>>
    BY <1>7 DEF MainCount, MainScan, MainSpin, MainSend, MainCleanup, MainExit,
       MainError, Interrupt, MainReceive, UseAfterFree, vars, threadVars, portVars
  <2> QED BY <1>1, <2>1 DEF Registered
<1> QED
  BY <1>2, <1>4, <1>5, <1>6, <1>7 DEF Next, MainStep, ThreadStep, ThreadFault

(* A thread that has its number moves on.                                   *)
LEMMA ThreadKeeps ==
  ASSUME IInv, Aligned, Ports, Handing, NEW t \in Registered,
         NEW x \in TPC \ {"none", "start", "bind"}, tpc' = [tpc EXCEPT ![t] = x],
         sock'[t] \in {NoSock, my_num[t]},
         t \in Dynamic => sock'[t] = my_num[t],
         \A u \in Thread : u # t => sock'[u] = sock[u],
         UNCHANGED <<flag, my_num, mpc, tnum, j, reply, tinfo>>,
         \A k \in Slot : ready_thread'[k] => ready_thread[k] \/ k = my_num[t]
  PROVE  Aligned' /\ Ports' /\ Handing'
<1>1. /\ tpc \in [Thread -> TPC] /\ t \in Thread
      /\ tpc[t] \notin {"none", "start"} /\ tpc'[t] = x
      /\ \A u \in Thread : u # t => tpc'[u] = tpc[u]
  BY DEF IInv, TypeOK, Registered
<1>2. Registered' = Registered /\ FlagSet' = FlagSet /\ count_threads' = count_threads
  BY <1>1 DEF Registered, FlagSet, count_threads
<1>3. \A k : HasPort(k) => HasPort(k)'
  BY <1>1, <1>2 DEF HasPort, Registered
<1>4. t \in Dynamic => HasPort(my_num[t])'
  BY <1>1, <1>2 DEF HasPort
<1>5. my_num[t] >= MINTHREAD => t \in Dynamic
  BY <1>1, PoolAssumption DEF IInv, TypeOK, Numbers, Dynamic, Slot
<1>6. Aligned'
  BY <1>2 DEF Aligned
<1>7. Ports'
  <2>1. /\ \A k \in PoolSlot : tinfo'[k] = k
        /\ \A u \in Registered' : my_num'[u] < MAXCLIENT /\ tinfo'[my_num'[u]] = my_num'[u]
    BY <1>2 DEF Ports
  <2>2. \A u \in Thread :
          sock'[u] = NoSock \/ (u \in Registered' /\ sock'[u] = my_num'[u])
    BY <1>2 DEF Ports
  <2>3. \A u \in Registered' :
          u \in Dynamic /\ tpc'[u] # "bind" => sock'[u] = my_num'[u]
    BY <1>1, <1>2 DEF Ports, Registered
  <2>4. \A k \in Slot : ready_thread'[k] /\ k >= MINTHREAD => HasPort(k)'
    BY <1>3, <1>4, <1>5 DEF Ports
  <2> QED BY <2>1, <2>2, <2>3, <2>4 DEF Ports
<1>8. Handing'
  <2>1. \A u \in Dynamic : tpc'[u] = "start" => tpc[u] = "start"
    BY <1>1 DEF Dynamic
  <2>2. mpc' = "send" /\ reply' >= MINTHREAD => HasPort(reply)'
    BY <1>3 DEF Handing
  <2> QED BY <1>2, <2>1, <2>2 DEF Handing
<1> QED BY <1>6, <1>7, <1>8

(* A thread takes its number: the next one, and the one main has meant.     *)
LEMMA RegisterKeeps ==
  ASSUME IInv, Aligned, Ports, Handing, NEW t \in Thread, Register(t)
  PROVE  Aligned' /\ Ports' /\ Handing'
<1> DEFINE n == count_threads
<1>1. /\ tpc[t] = "start" /\ tpc' = [tpc EXCEPT ![t] = "bind"]
      /\ my_num' = [my_num EXCEPT ![t] = n]
      /\ flag' = [flag EXCEPT ![n] = TRUE]
      /\ UNCHANGED <<ready_thread, sock, mpc, tnum, j, reply, tinfo>>
  BY DEF Register, Goto, mainVars
<1>2. n \in 0 .. MaxCreated - 1 /\ (n < MINTHREAD <=> t \in PoolThread)
  BY <1>1, FreshNumber
<1>3. n \in Slot /\ n \in Nat
  BY <1>2, PoolAssumption DEF Slot
<1>4. FlagSet = 0 .. n - 1
  BY DEF Aligned
<1> HIDE DEF n
<1>5. /\ t \notin Registered
      /\ Registered' = Registered \cup {t}
      /\ FlagSet' = FlagSet \cup {n}
  BY <1>1, <1>3 DEF IInv, TypeOK, Registered, FlagSet
<1>6. FlagSet' = 0 .. n /\ count_threads' = n + 1
  <2>1. FlagSet' = 0 .. n
    BY <1>3, <1>4, <1>5
  <2> QED BY <1>3, <2>1, FS_Interval DEF count_threads
<1>7. \A u \in Registered : my_num[u] # n /\ my_num'[u] = my_num[u] /\ tpc'[u] = tpc[u]
  <2> TAKE u \in Registered
  <2>1. u \in Thread /\ u # t /\ my_num[u] \in Slot
    BY <1>5 DEF IInv, TypeOK, Registered
  <2>2. my_num[u] \in FlagSet
    BY <2>1 DEF Aligned, FlagSet
  <2> QED BY <1>1, <1>3, <1>4, <2>1, <2>2 DEF IInv, TypeOK
<1>8. my_num'[t] = n /\ tpc'[t] = "bind" /\ flag'[n]
  BY <1>1, <1>3 DEF IInv, TypeOK
<1>9. t \in Dynamic => mpc = "spin" /\ n = j
  BY <1>1 DEF Handing, n
<1>10. mpc \in {"count", "scan", "create", "spin"} => t \in Dynamic
  BY <1>1, PoolComplete DEF IInv, MainPastPool, Dynamic, Registered
<1>11. n < MAXCLIENT /\ tinfo[n] = n
  <2>1. CASE t \in PoolThread
    BY <1>2, <1>3, <2>1, PoolAssumption DEF Ports, PoolSlot
  <2>2. CASE t \in Dynamic
    BY <1>9, <2>2 DEF Handing
  <2> QED BY <2>1, <2>2 DEF Dynamic
<1>12. \A k : HasPort(k) => HasPort(k)'
  BY <1>5, <1>7 DEF HasPort
<1>13. Aligned'
  BY RegisterNumbers
<1>14. Ports'
  <2>1. \A k \in PoolSlot : tinfo'[k] = k
    BY <1>1 DEF Ports
  <2>2. \A u \in Registered' : my_num'[u] < MAXCLIENT /\ tinfo'[my_num'[u]] = my_num'[u]
    BY <1>1, <1>5, <1>7, <1>8, <1>11 DEF Ports
  <2>3. \A u \in Thread :
          sock'[u] = NoSock \/ (u \in Registered' /\ sock'[u] = my_num'[u])
    BY <1>1, <1>5, <1>7 DEF Ports
  <2>4. \A u \in Registered' :
          u \in Dynamic /\ tpc'[u] # "bind" => sock'[u] = my_num'[u]
    BY <1>1, <1>5, <1>7, <1>8 DEF Ports
  <2>5. \A k \in Slot : ready_thread'[k] /\ k >= MINTHREAD => HasPort(k)'
    BY <1>1, <1>12 DEF Ports
  <2> QED BY <2>1, <2>2, <2>3, <2>4, <2>5 DEF Ports
<1>15. Handing'
  <2>1. \A u \in Dynamic : tpc'[u] # "start"
    <3> SUFFICES ASSUME NEW u \in Dynamic, tpc'[u] = "start" PROVE FALSE
      OBVIOUS
    <3>1. u # t /\ tpc[u] = "start"
      BY <1>1, <1>8 DEF IInv, TypeOK, Dynamic
    <3>2. t \in Dynamic
      BY <1>10, <3>1 DEF Handing
    <3> QED BY <1>1, <3>1, <3>2 DEF Handing
  <2>2. mpc \notin {"count", "scan", "create"}
    BY <1>9, <1>10
  <2>3. mpc' = "send" /\ reply' >= MINTHREAD => HasPort(reply)'
    BY <1>1, <1>12 DEF Handing
  <2> QED BY <1>1, <2>1, <2>2, <2>3 DEF Handing
<1> QED BY <1>13, <1>14, <1>15

(* The main thread leaves numbers and ports alone.                          *)
LEMMA MainKeeps ==
  ASSUME Aligned, Ports, Registered' = Registered,
         UNCHANGED <<flag, ready_thread, my_num, sock, tinfo>>,
         \A t \in Registered : tpc'[t] = tpc[t]
  PROVE  /\ Aligned' /\ Ports'
         /\ count_threads' = count_threads
         /\ \A k : HasPort(k)' <=> HasPort(k)
<1>1. FlagSet' = FlagSet /\ count_threads' = count_threads
  BY DEF FlagSet, count_threads
<1>2. \A k : HasPort(k)' <=> HasPort(k)
  BY DEF HasPort
<1>3. Aligned'
  BY <1>1 DEF Aligned
<1>4. Ports'
  BY <1>2 DEF Ports
<1> QED BY <1>1, <1>2, <1>3, <1>4

(* No dynamic thread waits to take its number unless main waits for it.     *)
NobodyStarts == \A t \in Dynamic : tpc[t] # "start"

LEMMA NextAligned ==
  ASSUME IInv, IInv', AInv, [Next]_vars
  PROVE  AInv'
<1> SUFFICES ASSUME FirstGeneration', FreshMemory PROVE Aligned' /\ Ports' /\ Handing'
  BY DEF AInv
<1>0. FirstGeneration /\ Aligned /\ Ports /\ Handing
  BY FirstBefore DEF AInv
<1>t. TypeOK
  BY DEF IInv
<1>p. \A t \in Registered :
        /\ tpc[t] \in {"endFree", "clear", "unflag", "done"} => t \notin Dynamic
        /\ tpc[t] # "bind" /\ t \in Dynamic => sock[t] = my_num[t]
        /\ sock[t] \in {NoSock, my_num[t]}
        /\ my_num[t] \in Slot
        /\ my_num[t] < MINTHREAD <=> t \notin Dynamic
  BY <1>0, <1>t DEF FirstGeneration, Dynamic, Ports, Registered, IInv, Numbers, TypeOK
<1>n. \A t \in Dynamic : tpc'[t] \notin {"endFree", "clear", "unflag", "done"}
  BY DEF FirstGeneration, Dynamic
<1>s. mpc # "spin" => NobodyStarts
  BY <1>0 DEF Handing, NobodyStarts
<1>c. count_threads \in Nat
  <2>1. IsFiniteSet(Slot) /\ FlagSet \subseteq Slot
    BY FS_Interval, PoolAssumption DEF FlagSet, Slot
  <2> QED BY <2>1, FS_Subset, FS_CardinalityType DEF count_threads
<1>1. CASE UNCHANGED vars
  <2>1. \A k : HasPort(k)' <=> HasPort(k)
    BY <1>1, <1>t DEF vars, threadVars, HasPort, Registered
  <2> QED
    BY <1>0, <1>1, <2>1 DEF vars, portVars, threadVars, mainVars, Aligned, Ports, Handing,
       Registered, FlagSet, count_threads
<1> DEFINE Keeps == Aligned' /\ Ports' /\ Handing'
<1>2. ASSUME NEW t \in Thread, Register(t) PROVE Keeps
  BY <1>0, <1>2, RegisterKeeps
<1>3. ASSUME NEW t \in Thread, Bind(t) PROVE Keeps
  <2>1. t \in Registered /\ tpc[t] = "bind"
    BY <1>3 DEF Bind, Goto, Registered
  <2>2. ThreadNum(my_num[t]) = my_num[t]
    BY <1>0, <2>1 DEF Ports, ThreadNum
  <2>3. PICK x \in {"ready", "clear"} :
          /\ tpc' = [tpc EXCEPT ![t] = x]
          /\ \/ sock' = [sock EXCEPT ![t] = my_num[t]]
             \/ x = "clear" /\ UNCHANGED sock
    BY <1>3, <2>2 DEF Bind, Goto
  <2>4. t \in Dynamic => x = "ready"
    BY <1>n, <1>t, <2>1, <2>3 DEF TypeOK, Dynamic
  <2>5. /\ sock'[t] \in {NoSock, my_num[t]}
        /\ t \in Dynamic => sock'[t] = my_num[t]
        /\ \A u \in Thread : u # t => sock'[u] = sock[u]
    BY <1>p, <1>t, <2>1, <2>3, <2>4 DEF TypeOK
  <2> QED
    BY <1>0, <1>3, <2>1, <2>3, <2>5, ThreadKeeps DEF Bind, TPC, portVars, mainVars
<1>4. ASSUME NEW t \in Thread,
             \/ Accept(t) \/ Reject(t) \/ ReplyOk(t) \/ ReplyEnd(t) \/ RecvError(t)
             \/ SendError(t) \/ MarkReady(t) \/ \E m \in Datagram : Receive(t, m)
      PROVE  Keeps
  <2>1. PICK x \in TPC \ {"none", "start", "bind"} : tpc' = [tpc EXCEPT ![t] = x]
    BY <1>4 DEF Accept, Reject, ReplyOk, ReplyEnd, RecvError, SendError, MarkReady,
       Receive, Goto, TPC
  <2>2. t \in Registered /\ tpc[t] # "bind"
    BY <1>4 DEF Accept, Reject, ReplyOk, ReplyEnd, RecvError, SendError, MarkReady,
       Receive, Goto, Registered
  <2>3. /\ UNCHANGED <<flag, my_num, sock, mpc, tnum, j, reply, tinfo>>
        /\ ready_thread' \in {ready_thread, [ready_thread EXCEPT ![my_num[t]] = TRUE]}
    BY <1>4 DEF Accept, Reject, ReplyOk, ReplyEnd, RecvError, SendError, MarkReady,
       Receive, portVars, mainVars
  <2>4. \A k \in Slot : ready_thread'[k] => ready_thread[k] \/ k = my_num[t]
    BY <1>t, <2>3 DEF TypeOK
  <2> QED BY <1>0, <1>p, <2>1, <2>2, <2>3, <2>4, ThreadKeeps
<1>5. ASSUME NEW t \in Thread, EndFree(t) \/ Clear(t) PROVE Keeps
  <2>1. t \in Registered /\ t \notin Dynamic /\ my_num[t] < MINTHREAD
    BY <1>5, <1>p DEF EndFree, Clear, Goto, Registered
  <2>2. ~(my_num[t] >= MINTHREAD)
    BY <1>p, <2>1, PoolAssumption DEF Slot
  <2>3. PICK x \in {"ready", "done"} : tpc' = [tpc EXCEPT ![t] = x]
    BY <1>5, <2>2 DEF EndFree, Clear, Goto, PastPool
  <2>4. /\ UNCHANGED <<flag, ready_thread, my_num, mpc, tnum, j, reply, tinfo>>
        /\ sock' \in {sock, [sock EXCEPT ![t] = NoSock]}
    BY <1>5, <2>2 DEF EndFree, Clear, mainVars
  <2>5. /\ sock'[t] \in {NoSock, my_num[t]}
        /\ \A u \in Thread : u # t => sock'[u] = sock[u]
    BY <1>p, <1>t, <2>1, <2>4 DEF TypeOK
  <2> QED BY <1>0, <2>1, <2>3, <2>4, <2>5, ThreadKeeps DEF TPC
<1>6. ASSUME NEW t \in Thread, Unflag(t) PROVE Keeps
  <2>1. t \in Registered /\ t \notin Dynamic /\ my_num[t] >= MINTHREAD
    BY <1>6, <1>p DEF Unflag, Goto, Registered, IInv, Unflagging
  <2> QED BY <1>p, <2>1, PoolAssumption DEF Slot
<1>7. ASSUME Spawn, UNCHANGED <<flag, ready_thread, my_num, sock>>
      PROVE  /\ Registered' = Registered
             /\ \A t \in Registered : tpc'[t] = tpc[t]
             /\ \A t \in Thread : tpc'[t] = "start" => tpc[t] = "start" \/ t = created + 1
  <2>1. tpc' = tpc \/ tpc' = [tpc EXCEPT ![created + 1] = "start"]
    BY <1>7 DEF Spawn
  <2>2. created + 1 \in Thread => tpc[created + 1] = "none"
    BY <1>t DEF IInv, TypeOK, Creation
  <2> QED BY <1>t, <2>1, <2>2 DEF TypeOK, Registered
<1>8. CASE CreatePool
  <2>1. Registered' = Registered /\ \A t \in Registered : tpc'[t] = tpc[t]
    BY <1>7, <1>8 DEF CreatePool, portVars
  <2>2. /\ Aligned' /\ Ports' /\ count_threads' = count_threads
        /\ \A k : HasPort(k)' <=> HasPort(k)
    BY <1>0, <1>8, <2>1, MainKeeps DEF CreatePool, portVars
  <2>3. created + 1 \in PoolThread
    BY <1>8, <1>t, PoolAssumption DEF CreatePool, MainAt, IInv, Creation, TypeOK, PoolThread
  <2>4. NobodyStarts'
    BY <1>7, <1>8, <1>s, <2>3 DEF CreatePool, MainAt, NobodyStarts, Dynamic, portVars
  <2>5. mpc' \in {"createPool", "recv", "cleanup"} /\ j' = 0
    BY <1>0, <1>8 DEF CreatePool, MainAt, NextTurn, Handing
  <2> QED BY <2>2, <2>4, <2>5 DEF Handing, NobodyStarts
<1>9. CASE MainCreate
  <2>1. Registered' = Registered /\ \A t \in Registered : tpc'[t] = tpc[t]
    BY <1>7, <1>9 DEF MainCreate, portVars
  <2>2. /\ mpc = "create" /\ mpc' = "spin" /\ reply' = j /\ j' = j
        /\ tnum = count_threads /\ j = count_threads /\ j >= MINTHREAD
        /\ tinfo' = [tinfo EXCEPT ![j] = j] /\ j < MAXCLIENT
    BY <1>0, <1>9, <1>t, PoolAssumption
       DEF MainCreate, MainAt, Handing, IInv, MainPastPool, TypeOK
  <2>3. /\ FlagSet' = FlagSet /\ count_threads' = count_threads
        /\ UNCHANGED <<flag, ready_thread, my_num, sock>>
    BY <1>9 DEF MainCreate, portVars, FlagSet, count_threads
  <2>4. \A k : HasPort(k)' <=> HasPort(k)
    BY <2>1, <2>3 DEF HasPort
  <2>5. Aligned'
    BY <1>0, <2>1, <2>3 DEF Aligned
  <2>6. Ports'
    <3>1. \A k \in PoolSlot : tinfo'[k] = k
      BY <1>0, <1>t, <2>2, PoolAssumption DEF Ports, TypeOK, PoolSlot, Slot
    <3>2. \A t \in Registered : my_num[t] # j
      BY <1>0, <1>p, <1>t, <2>2 DEF Aligned, FlagSet, TypeOK, Slot
    <3>3. \A t \in Registered : my_num[t] < MAXCLIENT /\ tinfo'[my_num[t]] = my_num[t]
      BY <1>0, <1>p, <1>t, <2>2, <3>2 DEF Ports, TypeOK, Slot
    <3> QED BY <1>0, <2>1, <2>3, <2>4, <3>1, <3>3 DEF Ports
  <2>7. \A t \in Dynamic : tpc'[t] = "start" => t = created + 1
    BY <1>7, <1>9, <1>s, <2>2 DEF MainCreate, NobodyStarts, Dynamic, portVars
  <2>8. tinfo'[j] = j
    BY <1>t, <2>2, PoolAssumption DEF TypeOK, Slot
  <2> QED BY <2>2, <2>3, <2>5, <2>6, <2>7, <2>8 DEF Handing
<1>10. ASSUME UNCHANGED <<portVars, threadVars, tinfo>>
       PROVE  /\ Aligned' /\ Ports' /\ count_threads' = count_threads
              /\ \A k : HasPort(k)' <=> HasPort(k)
              /\ NobodyStarts => NobodyStarts'
  BY <1>0, <1>10, MainKeeps DEF portVars, threadVars, Registered, NobodyStarts
<1>11. ASSUME NEW c \in Client, MainReceive(c) PROVE Keeps
  <2>1. /\ UNCHANGED <<portVars, threadVars, tinfo>>
        /\ mpc = "recv" /\ mpc' \in {"count", "send"} /\ j' = j
        /\ mpc' = "send" => reply' < MINTHREAD
    BY <1>11, PoolAssumption DEF MainReceive, MainAt, FreePool, PoolSlot
  <2>2. ~(mpc' = "send" /\ reply' >= MINTHREAD)
    BY <2>1, PoolAssumption DEF IInv, TypeOK, Slot
  <2> QED BY <1>0, <1>10, <1>s, <2>1, <2>2 DEF Handing, NobodyStarts
<1>12. CASE MainCount
  <2>1. /\ UNCHANGED <<portVars, threadVars, tinfo>> /\ mpc = "count"
        /\ \/ mpc' = "scan" /\ tnum' = count_threads /\ j' = j
           \/ mpc' \in {"cleanup", "recv"} /\ j' = 0
    BY <1>12 DEF MainCount, MainAt, NextTurn
  <2> QED BY <1>0, <1>10, <1>s, <1>c, <2>1 DEF Handing, NobodyStarts
<1>13. CASE MainScan
  <2>1. /\ UNCHANGED <<portVars, threadVars, tinfo, tnum>> /\ mpc = "scan"
        /\ \/ flag[j] /\ mpc' = "scan" /\ j' = j + 1
           \/ ~flag[j] /\ mpc' = "create" /\ j' = j
    BY <1>13 DEF MainScan, MainAt
  <2>2. j \in Slot /\ j <= count_threads
    BY <1>0, <1>t, <2>1 DEF Handing, TypeOK
  <2>3. flag[j] <=> j \in 0 .. count_threads - 1
    BY <1>0, <2>2 DEF Aligned, FlagSet
  <2>4. \/ mpc' = "scan" /\ j' <= count_threads
        \/ mpc' = "create" /\ j' = count_threads
    BY <1>c, <2>1, <2>2, <2>3, PoolAssumption DEF Slot
  <2> QED BY <1>0, <1>10, <1>s, <2>1, <2>4 DEF Handing, NobodyStarts
<1>14. CASE MainSpin
  <2>1. /\ UNCHANGED <<portVars, threadVars, tinfo, reply, j>>
        /\ mpc = "spin" /\ mpc' = "send" /\ ready_thread[j]
    BY <1>14 DEF MainSpin, MainAt
  <2>2. HasPort(j) /\ reply = j
    BY <1>0, <1>t, <2>1 DEF Ports, Handing, TypeOK, IInv, MainPastPool
  <2>3. NobodyStarts
    <3>1. PICK w \in Registered : my_num[w] = j
      BY <2>2 DEF HasPort
    <3>2. j \in FlagSet
      BY <1>0, <1>t, <3>1 DEF Aligned, FlagSet, TypeOK
    <3>3. j # count_threads
      BY <1>0, <1>t, <3>2, PoolAssumption DEF Aligned, TypeOK, Slot
    <3> QED BY <1>0, <3>3 DEF Handing, NobodyStarts
  <2> QED BY <1>0, <1>10, <2>1, <2>2, <2>3 DEF Handing, NobodyStarts
<1>15. CASE MainSend \/ MainError
  <2>1. /\ UNCHANGED <<portVars, threadVars, tinfo>>
        /\ mpc \in {"recv", "send"}
        /\ mpc' = "cleanup" \/ (mpc' = "recv" /\ j' = 0)
    BY <1>15 DEF MainSend, MainError, MainAt, NextTurn
  <2> QED BY <1>10, <1>s, <2>1 DEF Handing, NobodyStarts
<1>16. CASE \/ MainCleanup \/ MainExit \/ Interrupt
            \/ \E t \in Thread : UseAfterFree(t)
  <2>1. /\ UNCHANGED <<portVars, threadVars, tinfo, tnum, j, reply>>
        /\ \/ mpc' = mpc
           \/ mpc \in {"cleanup", "recv"} /\ mpc' \in {"exit", "cleanup"}
    BY <1>16 DEF MainCleanup, MainExit, Interrupt, UseAfterFree, MainAt, mainVars
  <2>2. CASE mpc' = mpc
    <3>1. UNCHANGED tpc
      BY <2>1 DEF threadVars
    <3> QED BY <1>0, <1>10, <2>1, <2>2, <3>1 DEF Handing
  <2>3. CASE mpc \in {"cleanup", "recv"} /\ mpc' \in {"exit", "cleanup"}
    BY <1>10, <1>s, <2>1, <2>3 DEF Handing, NobodyStarts
  <2> QED BY <2>1, <2>2, <2>3
<1> QED
  BY <1>1, <1>2, <1>3, <1>4, <1>5, <1>6, <1>8, <1>9, <1>11, <1>12, <1>13, <1>14,
     <1>15, <1>16
     DEF Next, MainStep, ThreadStep, ThreadFault

LEMMA InitAligned == Init => NInv /\ AInv
<1> SUFFICES ASSUME Init PROVE Aligned /\ (FreshMemory => Ports /\ Handing)
  BY DEF NInv, AInv
<1>1. Registered = {} /\ FlagSet = {} /\ count_threads = 0
  BY FS_EmptySet DEF Init, Registered, FlagSet, count_threads, Thread
<1>2. Aligned
  BY <1>1 DEF Aligned
<1>3. FreshMemory => Ports
  <2>1. FreshMemory => \A k \in Slot : ~ready_thread[k]
    BY DEF Init, FreshMemory
  <2> QED BY <1>1, <2>1, PoolAssumption DEF Init, Ports, PoolSlot
<1>4. Handing
  BY DEF Init, Handing, Dynamic
<1> QED BY <1>2, <1>3, <1>4

(* Until the first dynamic thread begins to end, numbers are distinct,      *)
(* whatever the memory of ports[] held; and if it was zero, which the code  *)
(* relies on and does not see to, a thread has bound the port of its number *)
(* or none, and a port past the pool that is sent to a client has a thread  *)
(* that has bound it.                                                       *)
THEOREM FirstRight == SafeSpec => []FirstGenerationAligned
<1>1. NInv /\ AInv => FirstGenerationAligned
  <2>1. ASSUME FirstGeneration, NInv
        PROVE  \A t, u \in Registered : my_num[t] = my_num[u] => t = u
    BY <2>1 DEF NInv, Aligned
  <2>2. ASSUME FirstGeneration, FreshMemory, AInv
        PROVE  /\ \A t \in Thread : sock[t] \in {NoSock, my_num[t]}
               /\ mpc = "send" /\ reply >= MINTHREAD => \E t \in Thread : sock[t] = reply
    <3>1. Ports /\ Handing
      BY <2>2 DEF AInv
    <3>2. mpc = "send" /\ reply >= MINTHREAD => \E t \in Thread : sock[t] = reply
      BY <3>1 DEF Handing, HasPort, Ports, Dynamic
    <3> QED BY <3>1, <3>2 DEF Ports
  <2> QED BY <2>1, <2>2 DEF FirstGenerationAligned
<1>2. Init => IInv /\ NInv /\ AInv
  BY InitInvariant, InitAligned
<1>3. IInv /\ NInv /\ AInv /\ [Next]_vars => (IInv /\ NInv /\ AInv)'
  BY NextInvariant, NextNumbered, NextAligned
<1> QED BY <1>1, <1>2, <1>3, PTL DEF SafeSpec

=============================================================================
