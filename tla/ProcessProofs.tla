--------------------------- MODULE ProcessProofs ----------------------------
(***************************************************************************)
(* What is proved of the small programs of several processes or threads,   *)
(* where Exercises runs each among the others: every step of another       *)
(* program leaves its variables alone.  In turn: pipe.c, ex16/p1,          *)
(* streams.c, ex18 and ex14.                                               *)
(***************************************************************************)
EXTENDS Exercises, FiniteSetTheorems, SequenceTheorems, WellFoundedInduction, TLAPS

-----------------------------------------------------------------------------
(* pipe.c.  Runs follow each other, and one of the Keyed ends only when it  *)
(* has taken what its own child has put into the semaphore: so the next one *)
(* finds it at zero, and reads only after its own child has answered.       *)

PipeTyped ==
  /\ ppc \in [Run -> {"off", "write", "key", "wait", "read", "close", "done", "killed"}]
  /\ cpc \in [Run -> {"off", "read", "write", "post", "done"}]
  /\ semid \in Nat
  /\ DOMAIN pipe = Run /\ DOMAIN pgot = Run /\ DOMAIN cgot = Run

NoneKilled == \A r \in Run : ppc[r] # "killed"

Started(r) == ppc[r] \notin {"off", "done"}

(* How far the child is, when the parent has written and not yet read.      *)
ChildAnswers(r) ==
  \/ cpc[r] = "read" /\ pipe[r] = Pipe!Hello /\ cgot[r] = <<>>
  \/ cpc[r] = "write" /\ pipe[r] = <<>> /\ cgot[r] = Pipe!Hello
  \/ cpc[r] \in {"post", "done"} /\ pipe[r] = Pipe!Ok /\ cgot[r] = Pipe!Hello

Talk(r) ==
  \/ ppc[r] = "off" /\ cpc[r] = "off" /\ pipe[r] = <<>> /\ pgot[r] = <<>> /\ cgot[r] = <<>>
  \/ ppc[r] = "write" /\ cpc[r] = "read" /\ pipe[r] = <<>> /\ pgot[r] = <<>> /\ cgot[r] = <<>>
  \/ /\ ppc[r] \in {"key", "wait"} /\ pgot[r] = <<>> /\ ChildAnswers(r)
     /\ ppc[r] = "wait" => r \in Keyed
  \/ /\ ppc[r] = "read" /\ r \in Keyed /\ cpc[r] = "done"
     /\ pipe[r] = Pipe!Ok /\ pgot[r] = <<>> /\ cgot[r] = Pipe!Hello
  \/ /\ ppc[r] \in {"close", "done"} /\ r \in Keyed /\ cpc[r] = "done"
     /\ pgot[r] = Pipe!Ok /\ cgot[r] = Pipe!Hello
  \/ /\ ppc[r] = "done" /\ r \notin Keyed /\ pgot[r] = <<>>
     /\ ChildAnswers(r) \/ (cpc[r] = "done" /\ cgot[r] = Pipe!Hello)

(* The semaphore is up between the child's end and the parent's wait.       *)
Posted(r) == r \in Keyed /\ ppc[r] \in {"key", "wait"} /\ cpc[r] = "done"

OneTalk ==
  /\ \A r, q \in Run : Started(r) /\ Started(q) => r = q
  /\ \A r \in Run : Talk(r)
  /\ semid \in {0, 1} /\ (semid = 1 => \E r \in Run : Posted(r))

PipeInv == PipeTyped /\ (NoneKilled => OneTalk)

LEMMA PipeSteps == [Next]_vars => [Pipe!Next]_(Pipe!vars)
BY DEF Next, PipeRuns, PosixRuns, MagazRuns, TcpRuns, UdpRuns, CountRuns, AloneRuns,
       vars, pipeVars, Pipe!vars

LEMMA PipeInitial == Pipe!Init => PipeInv
<1> SUFFICES ASSUME Pipe!Init PROVE PipeInv
  OBVIOUS
<1>1. PipeTyped
  BY DEF Pipe!Init, PipeTyped
<1>2. \A r \in Run : Talk(r) /\ ~Started(r)
  BY DEF Pipe!Init, Talk, Started
<1> QED BY <1>1, <1>2 DEF Pipe!Init, PipeInv, OneTalk

(* Where the parent or the child of r goes, the others stay.                *)
LEMMA PipeTypeKept ==
  ASSUME PipeTyped, [Pipe!Next]_(Pipe!vars)
  PROVE  PipeTyped'
<1>1. ASSUME NEW r \in Run, Pipe!Fork(r) \/ Pipe!Runs(r) \/ Pipe!Kill(r)
      PROVE  PipeTyped'
  BY <1>1 DEF PipeTyped, Pipe!Fork, Pipe!Runs, Pipe!Kill, Pipe!ParentWrites, Pipe!ParentKey,
     Pipe!ParentWaits, Pipe!ParentReads, Pipe!ParentCloses, Pipe!ChildReads, Pipe!ChildWrites,
     Pipe!ChildPosts, Pipe!ParentGoes, Pipe!ChildGoes
<1>2. CASE UNCHANGED Pipe!vars
  BY <1>2 DEF Pipe!vars, PipeTyped
<1> QED BY <1>1, <1>2 DEF Pipe!Next

LEMMA TalkKept ==
  ASSUME PipeTyped, OneTalk, NEW r \in Run, Pipe!Fork(r) \/ Pipe!Runs(r)
  PROVE  OneTalk'
<1> USE DEF PipeTyped, Pipe!ParentGoes, Pipe!ChildGoes, Started, Posted
<1>0. Talk(r)
  BY DEF OneTalk
(* The other runs stay as they are, and only one of all is on.              *)
<1>1. ASSUME \A q \in Run \ {r} : /\ ppc'[q] = ppc[q] /\ cpc'[q] = cpc[q] /\ pipe'[q] = pipe[q]
                                  /\ pgot'[q] = pgot[q] /\ cgot'[q] = cgot[q],
             Talk(r)', Started(r)' => \A q \in Run \ {r} : ~Started(q),
             semid' \in {0, 1}, semid' = 1 => Posted(r)' \/ (semid = 1 /\ ~Posted(r))
      PROVE  OneTalk'
  <2>1. \A q \in Run \ {r} : Talk(q)'
    BY <1>1 DEF OneTalk, Talk, ChildAnswers
  <2>2. \A q, p \in Run : Started(q)' /\ Started(p)' => q = p
    BY <1>1 DEF OneTalk
  <2>3. semid' = 1 => \E q \in Run : Posted(q)'
    BY <1>1 DEF OneTalk
  <2> QED BY <1>1, <2>1, <2>2, <2>3 DEF OneTalk
<1>2. Started(r) => \A q \in Run \ {r} : ~Started(q)
  BY DEF OneTalk
<1>3. /\ \A w : <<>> \o <<w>> = <<w>> /\ Head(<<w>>) = w
      /\ Pipe!Ok # <<>> /\ <<>> \o Pipe!Hello = Pipe!Hello
  BY DEF Pipe!Hello, Pipe!Ok
<1>4. CASE Pipe!Fork(r)
  BY <1>0, <1>1, <1>4 DEF Pipe!Fork, Pipe!ParentEnded, OneTalk, Talk
<1>5. CASE Pipe!ParentWrites(r)
  <2>1. Talk(r)'
    BY <1>0, <1>3, <1>5 DEF Pipe!ParentWrites, Talk, ChildAnswers
  <2> QED BY <1>1, <1>2, <1>5, <2>1 DEF Pipe!ParentWrites, OneTalk
<1>6. CASE Pipe!ParentKey(r)
  <2>1. Talk(r)'
    BY <1>0, <1>6 DEF Pipe!ParentKey, Talk, ChildAnswers
  <2> QED BY <1>1, <1>2, <1>6, <2>1 DEF Pipe!ParentKey, OneTalk
<1>7. CASE Pipe!ParentWaits(r)
  <2>1. semid = 1 /\ Posted(r)
    BY <1>2, <1>7 DEF Pipe!ParentWaits, OneTalk
  <2>2. Talk(r)'
    BY <1>0, <1>7, <2>1 DEF Pipe!ParentWaits, Talk, ChildAnswers
  <2> QED BY <1>1, <1>2, <1>7, <2>1, <2>2 DEF Pipe!ParentWaits
<1>8. CASE Pipe!ParentReads(r)
  <2>1. Talk(r)'
    BY <1>0, <1>3, <1>8 DEF Pipe!ParentReads, Talk, Pipe!Ok
  <2> QED BY <1>1, <1>2, <1>8, <2>1 DEF Pipe!ParentReads, OneTalk
<1>9. CASE Pipe!ParentCloses(r)
  <2>1. Talk(r)'
    BY <1>0, <1>9 DEF Pipe!ParentCloses, Talk
  <2> QED BY <1>1, <1>2, <1>9, <2>1 DEF Pipe!ParentCloses, OneTalk
<1>10. CASE Pipe!ChildReads(r)
  <2>1. Talk(r)'
    BY <1>0, <1>10 DEF Pipe!ChildReads, Talk, ChildAnswers
  <2> QED BY <1>1, <1>2, <1>10, <2>1 DEF Pipe!ChildReads, OneTalk
<1>11. CASE Pipe!ChildWrites(r)
  <2>1. Talk(r)'
    BY <1>0, <1>3, <1>11 DEF Pipe!ChildWrites, Talk, ChildAnswers, Pipe!ParentEnded, Pipe!Ok
  <2> QED BY <1>1, <1>2, <1>11, <2>1 DEF Pipe!ChildWrites, OneTalk
<1>12. CASE Pipe!ChildPosts(r)
  <2>1. Talk(r)'
    BY <1>0, <1>12 DEF Pipe!ChildPosts, Talk, ChildAnswers
  <2>2. r \in Keyed => semid = 0 /\ Posted(r)'
    BY <1>0, <1>2, <1>12 DEF Pipe!ChildPosts, OneTalk, Talk
  <2> QED BY <1>1, <1>2, <1>12, <2>1, <2>2 DEF Pipe!ChildPosts, OneTalk
<1> QED BY <1>4, <1>5, <1>6, <1>7, <1>8, <1>9, <1>10, <1>11, <1>12 DEF Pipe!Runs

LEMMA PipeInductive == PipeInv /\ [Pipe!Next]_(Pipe!vars) => PipeInv'
<1> SUFFICES ASSUME PipeInv, [Pipe!Next]_(Pipe!vars) PROVE PipeInv'
  OBVIOUS
<1>1. PipeTyped'
  BY PipeTypeKept DEF PipeInv
<1>2. ASSUME NoneKilled' PROVE OneTalk'
  <2>1. CASE UNCHANGED Pipe!vars
    BY <1>2, <2>1 DEF Pipe!vars, PipeInv, NoneKilled, OneTalk, Talk, ChildAnswers,
                      Started, Posted
  <2>2. ASSUME NEW r \in Run, Pipe!Fork(r) \/ Pipe!Runs(r) PROVE OneTalk'
    <3>1. NoneKilled
      BY <1>2, <2>2 DEF PipeInv, PipeTyped, NoneKilled, Pipe!Fork, Pipe!Runs, Pipe!ParentWrites,
         Pipe!ParentKey, Pipe!ParentWaits, Pipe!ParentReads, Pipe!ParentCloses, Pipe!ChildReads,
         Pipe!ChildWrites, Pipe!ChildPosts, Pipe!ParentGoes
    <3> QED BY <2>2, <3>1, TalkKept DEF PipeInv
  <2>3. ASSUME NEW r \in Run, Pipe!Kill(r) PROVE FALSE
    BY <1>2, <2>3 DEF Pipe!Kill, Pipe!ParentGoes, NoneKilled, PipeInv, PipeTyped
  <2> QED BY <2>1, <2>2, <2>3 DEF Pipe!Next
<1> QED BY <1>1, <1>2 DEF PipeInv

(* pipe.c: as long as nothing is killed the child reads the parent's string *)
(* and the parent the child's answer, for any number of runs on the one     *)
(* semaphore, with and without the file of the key.                         *)
THEOREM RightExchange == Spec => []ExchangeRight
<1>1. Init => PipeInv
  BY PipeInitial DEF Init
<1>2. PipeInv /\ [Next]_vars => PipeInv'
  BY PipeInductive, PipeSteps
<1>3. PipeInv => ExchangeRight
  BY DEF PipeInv, NoneKilled, OneTalk, Talk, ChildAnswers, ExchangeRight, Pipe!ExchangeRight
<1> QED BY <1>1, <1>2, <1>3, PTL DEF Spec

-----------------------------------------------------------------------------
(* ex16/p1, any processes at any time.  Who stands in line at a queue is at *)
(* mq_receive() on that queue, and nobody stands there twice; so a word     *)
(* goes to somebody who waits for it and each step moves both sides of the  *)
(* balance alike.                                                           *)

PosixTyped ==
  /\ pc \in [Posix!Process -> {"off", "receive", "wait", "send", "unlink", "done"}]
  /\ queue \in [Posix!Process -> Posix!Queue \cup {NoQueue}] /\ name \in Posix!Queue \cup {NoQueue}
  /\ held \in [Posix!Queue -> Seq(Posix!Process)] /\ waiting \in [Posix!Queue -> Seq(Posix!Process)]
  /\ \A p \in Posix!Process : pc[p] \in {"receive", "wait", "send", "unlink"} =>
       queue[p] \in Posix!Queue

InLine ==
  \A q \in Posix!Queue :
    /\ \A i \in DOMAIN waiting[q] : pc[waiting[q][i]] = "wait" /\ queue[waiting[q][i]] = q
    /\ \A i, j \in DOMAIN waiting[q] : waiting[q][i] = waiting[q][j] => i = j

PosixInv == PosixTyped /\ InLine /\ Posix!WordsBalanced

(* What PosixQueue calls by these names is what the library's facts are of. *)
LEMMA PosixSets ==
  \A A : Posix!Cardinality(A) = Cardinality(A) /\ (Posix!IsFiniteSet(A) <=> IsFiniteSet(A))
BY DEF Posix!Cardinality, Cardinality, Posix!IsFiniteSet, IsFiniteSet

(* A word goes in between those in the queue, and none goes.                *)
LEMMA InsertedLonger ==
  ASSUME NEW q \in Seq(Posix!Process), NEW p \in Posix!Process
  PROVE  Posix!Inserted(q, p) \in Seq(Posix!Process) /\ Len(Posix!Inserted(q, p)) = Len(q) + 1
<1> DEFINE before == {i \in DOMAIN q : Posix!Priority(q[i]) >= Posix!Priority(p)}
           n == Cardinality(before)
<1>1. Len(q) \in Nat /\ DOMAIN q = 1 .. Len(q) /\ \A i \in 1 .. Len(q) : q[i] \in Posix!Process
  OBVIOUS
<1>2. IsFiniteSet(1 .. Len(q)) /\ Cardinality(1 .. Len(q)) = Len(q)
  <2>1. /\ IsFiniteSet(1 .. Len(q))
        /\ Cardinality(1 .. Len(q)) = IF 1 > Len(q) THEN 0 ELSE Len(q) - 1 + 1
    BY <1>1, FS_Interval
  <2> QED BY <1>1, <2>1
<1>3. n \in Nat /\ n <= Len(q)
  BY <1>1, <1>2, FS_Subset, FS_CardinalityType
<1>4. Posix!Inserted(q, p) = Posix!InsertAt(q, 1 + n, p)
  BY PosixSets DEF Posix!Inserted
<1> HIDE DEF n
<1>5. (1 + n) - 1 = n
  BY <1>3
<1>6. Posix!Inserted(q, p) = SubSeq(q, 1, n) \o <<p>> \o SubSeq(q, 1 + n, Len(q))
  BY <1>4, <1>5 DEF Posix!InsertAt
<1>7. SubSeq(q, 1, n) \in Seq(Posix!Process) /\ Len(SubSeq(q, 1, n)) = n
  <2>1. \A i \in 1 .. n : q[i] \in Posix!Process
    BY <1>1, <1>3
  <2> QED BY <1>3, <2>1, SubSeqProperties
<1>8. /\ SubSeq(q, 1 + n, Len(q)) \in Seq(Posix!Process)
      /\ Len(SubSeq(q, 1 + n, Len(q))) = Len(q) - n
  <2>1. \A i \in 1 + n .. Len(q) : q[i] \in Posix!Process
    BY <1>1, <1>3
  <2>2. 1 + n \in Int /\ Len(q) \in Int /\ Len(q) - (1 + n) + 1 = Len(q) - n
    BY <1>1, <1>3
  <2>3. /\ SubSeq(q, 1 + n, Len(q)) \in Seq(Posix!Process)
        /\ Len(SubSeq(q, 1 + n, Len(q))) = IF 1 + n <= Len(q) THEN Len(q) - (1 + n) + 1 ELSE 0
    BY <2>1, <2>2, SubSeqProperties
  <2>4. CASE n = Len(q)
    <3>1. ~(1 + n <= Len(q)) /\ Len(q) - n = 0
      BY <1>3, <2>4
    <3> QED BY <2>3, <3>1
  <2>5. CASE n # Len(q)
    <3>1. \A i, j \in Nat : i <= j /\ i # j => 1 + i <= j
      OBVIOUS
    <3>2. 1 + n <= Len(q)
      BY <1>1, <1>3, <2>5, <3>1, Zenon
    <3> QED BY <2>2, <2>3, <3>2
  <2> QED BY <2>4, <2>5
<1>9. <<p>> \in Seq(Posix!Process) /\ Len(<<p>>) = 1
  OBVIOUS
<1>10. /\ SubSeq(q, 1, n) \o <<p>> \in Seq(Posix!Process)
       /\ Len(SubSeq(q, 1, n) \o <<p>>) = n + 1
  BY <1>7, <1>9, ConcatProperties
<1>11. /\ Posix!Inserted(q, p) \in Seq(Posix!Process)
       /\ Len(Posix!Inserted(q, p)) = (n + 1) + (Len(q) - n)
  BY <1>6, <1>8, <1>10, ConcatProperties
<1>12. (n + 1) + (Len(q) - n) = Len(q) + 1
  BY <1>1, <1>3
<1> QED BY <1>11, <1>12

(* A set that one element joins or quits.                                   *)
LEMMA SetMoves ==
  ASSUME NEW A, NEW B, NEW p, IsFiniteSet(A), B \ {p} = A \ {p}
  PROVE  Cardinality(B) = Cardinality(A) - (IF p \in A THEN 1 ELSE 0) + (IF p \in B THEN 1 ELSE 0)
<1>1. /\ IsFiniteSet(A \ {p}) /\ Cardinality(A) \in Nat
      /\ Cardinality(A \ {p}) = Cardinality(A) - (IF p \in A THEN 1 ELSE 0)
  <2>1. Cardinality(A) \in Nat
    BY FS_CardinalityType
  <2> QED BY <2>1, FS_RemoveElement
<1>2. CASE p \in B
  <2>1. B = (A \ {p}) \cup {p}
    BY <1>2
  <2>2. Cardinality(B) = Cardinality(A \ {p}) + 1
    BY <1>1, <2>1, FS_AddElement
  <2> QED BY <1>1, <1>2, <2>2
<1>3. CASE p \notin B
  <2>1. B = A \ {p}
    BY <1>3
  <2> QED BY <1>1, <1>3, <2>1
<1> QED BY <1>2, <1>3

(* The servers that owe queue q a word, and the clients it owes one, where  *)
(* the processes are as at has it.                                          *)
Owing(at, q)  == {s \in Server : queue[s] = q /\ at[s] = "send"}
Asking(at, q) == {c \in Client : queue[c] = q /\ at[c] \in {"receive", "wait"}}

(* What p counts for where it is.                                           *)
Owes(p, where) == IF p \in Server /\ where = "send" THEN 1 ELSE 0
Asks(p, where) == IF p \in Client /\ where \in {"receive", "wait"} THEN 1 ELSE 0

LEMMA SetsFinite ==
  ASSUME NEW at, NEW q
  PROVE  /\ IsFiniteSet(Owing(at, q)) /\ IsFiniteSet(Asking(at, q))
         /\ Cardinality(Owing(at, q)) \in Nat /\ Cardinality(Asking(at, q)) \in Nat
<1>1. Owing(at, q) \in SUBSET Server /\ Asking(at, q) \in SUBSET Client
  BY DEF Owing, Asking
<1>2. IsFiniteSet(Owing(at, q)) /\ IsFiniteSet(Asking(at, q))
  BY <1>1, FS_Subset, PosixSets, ExercisesAssumption DEF Posix!QueueAssumption
<1> QED BY <1>2, FS_CardinalityType

(* What goes on at other queues does not matter to q.                       *)
LEMMA OthersMove ==
  ASSUME NEW at, NEW then, NEW q, \A r \in Posix!Process : queue[r] = q => then[r] = at[r]
  PROVE  Owing(then, q) = Owing(at, q) /\ Asking(then, q) = Asking(at, q)
BY DEF Owing, Asking, Posix!Process

(* One process of q goes somewhere else.                                    *)
LEMMA OneMoves ==
  ASSUME NEW at, NEW then, NEW q, NEW p \in Posix!Process, queue[p] = q,
         \A r \in Posix!Process \ {p} : then[r] = at[r]
  PROVE  /\ Cardinality(Owing(then, q)) =
              Cardinality(Owing(at, q)) - Owes(p, at[p]) + Owes(p, then[p])
         /\ Cardinality(Asking(then, q)) =
              Cardinality(Asking(at, q)) - Asks(p, at[p]) + Asks(p, then[p])
<1>1. Owing(then, q) \ {p} = Owing(at, q) \ {p} /\ Asking(then, q) \ {p} = Asking(at, q) \ {p}
  BY DEF Owing, Asking, Posix!Process
<1>2. /\ Owes(p, at[p]) = (IF p \in Owing(at, q) THEN 1 ELSE 0)
      /\ Owes(p, then[p]) = (IF p \in Owing(then, q) THEN 1 ELSE 0)
  BY DEF Owing, Owes
<1>3. /\ Asks(p, at[p]) = (IF p \in Asking(at, q) THEN 1 ELSE 0)
      /\ Asks(p, then[p]) = (IF p \in Asking(then, q) THEN 1 ELSE 0)
  BY DEF Asking, Asks
<1>4. Cardinality(Owing(then, q)) = Cardinality(Owing(at, q)) - Owes(p, at[p]) + Owes(p, then[p])
  <2>1. IsFiniteSet(Owing(at, q))
    BY SetsFinite
  <2>2. Cardinality(Owing(then, q)) =
          Cardinality(Owing(at, q)) - (IF p \in Owing(at, q) THEN 1 ELSE 0)
            + (IF p \in Owing(then, q) THEN 1 ELSE 0)
    BY <1>1, <2>1, SetMoves
  <2> QED BY <1>2, <2>2
<1>5. Cardinality(Asking(then, q)) = Cardinality(Asking(at, q)) - Asks(p, at[p]) + Asks(p, then[p])
  <2>1. IsFiniteSet(Asking(at, q))
    BY SetsFinite
  <2>2. Cardinality(Asking(then, q)) =
          Cardinality(Asking(at, q)) - (IF p \in Asking(at, q) THEN 1 ELSE 0)
            + (IF p \in Asking(then, q) THEN 1 ELSE 0)
    BY <1>1, <2>1, SetMoves
  <2> QED BY <1>3, <2>2
<1> QED BY <1>4, <1>5

LEMMA BalanceMeans ==
  /\ Posix!WordsBalanced <=>
       \A q \in Posix!Queue : Len(held[q]) + Cardinality(Owing(pc, q)) = Cardinality(Asking(pc, q))
  /\ queue' = queue =>
       (Posix!WordsBalanced' <=>
          \A q \in Posix!Queue :
            Len(held'[q]) + Cardinality(Owing(pc', q)) = Cardinality(Asking(pc', q)))
BY PosixSets DEF Posix!WordsBalanced, Owing, Asking

(* Who is woken goes on with a word: it owes one or is asking no more.      *)
LEMMA SendBalances ==
  ASSUME PosixInv, NEW p \in Posix!Process, Posix!Send(p)
  PROVE  Posix!WordsBalanced'
<1>1. PICK q \in Posix!Queue : q = queue[p]
  BY DEF Posix!Send, PosixInv, PosixTyped
<1>2. DOMAIN pc = Posix!Process /\ pc[p] = "send" /\ queue' = queue
  BY DEF PosixInv, PosixTyped, Posix!Send
<1>3. /\ Server \cap Client = {} /\ Posix!Process = Server \cup Client
      /\ \A e \in Posix!Queue :
           Cardinality(Owing(pc, e)) \in Nat /\ Cardinality(Asking(pc, e)) \in Nat
  BY SetsFinite, ExercisesAssumption DEF Posix!QueueAssumption, Posix!Process
<1>4. waiting[q] \in Seq(Posix!Process) /\ held[q] \in Seq(Posix!Process) /\ Len(held[q]) \in Nat
  BY DEF PosixInv, PosixTyped
<1>5. \A e \in Posix!Queue : Len(held[e]) + Cardinality(Owing(pc, e)) = Cardinality(Asking(pc, e))
  BY BalanceMeans DEF PosixInv
<1>6. SUFFICES ASSUME NEW e \in Posix!Queue
               PROVE  Len(held'[e]) + Cardinality(Owing(pc', e)) = Cardinality(Asking(pc', e))
  BY <1>2, BalanceMeans
<1>7. /\ Owes(p, "send") = (IF p \in Server THEN 1 ELSE 0) /\ Asks(p, "send") = 0
      /\ Owes(p, Posix!AfterSend(p)) = 0
      /\ Asks(p, Posix!AfterSend(p)) = (IF p \in Server THEN 0 ELSE 1)
  BY <1>3 DEF Owes, Asks, Posix!AfterSend
<1>8. CASE /\ waiting[q] # <<>>
           /\ pc' = [pc EXCEPT ![p] = Posix!AfterSend(p),
                               ![Head(waiting[q])] = Posix!AfterReceive(Head(waiting[q]))]
           /\ UNCHANGED held
  <2>1. PICK r \in Posix!Process : r = Head(waiting[q]) /\ pc[r] = "wait" /\ queue[r] = q
    BY <1>4, <1>8 DEF PosixInv, InLine
  <2> DEFINE at == [pc EXCEPT ![p] = Posix!AfterSend(p)]
  <2>2. DOMAIN at = Posix!Process /\ at[r] = "wait" /\ r # p
    BY <1>2, <2>1
  <2>3. pc' = [at EXCEPT ![r] = Posix!AfterReceive(r)]
    BY <1>8, <2>1
  <2>4. /\ Owes(r, "wait") = 0 /\ Asks(r, "wait") = (IF r \in Server THEN 0 ELSE 1)
        /\ Owes(r, Posix!AfterReceive(r)) = (IF r \in Server THEN 1 ELSE 0)
        /\ Asks(r, Posix!AfterReceive(r)) = 0
    BY <1>3 DEF Owes, Asks, Posix!AfterReceive
  <2>5. CASE e # q
    <3>1. \A d \in Posix!Process : queue[d] = e => pc'[d] = pc[d]
      BY <1>1, <1>2, <2>1, <2>3, <2>5
    <3>2. Owing(pc', e) = Owing(pc, e) /\ Asking(pc', e) = Asking(pc, e)
      BY <3>1, OthersMove
    <3> QED BY <1>5, <1>8, <3>2
  <2>6. CASE e = q
    <3>1. /\ Cardinality(Owing(at, q)) =
               Cardinality(Owing(pc, q)) - Owes(p, "send") + Owes(p, Posix!AfterSend(p))
          /\ Cardinality(Asking(at, q)) =
               Cardinality(Asking(pc, q)) - Asks(p, "send") + Asks(p, Posix!AfterSend(p))
      <4>1. at[p] = Posix!AfterSend(p) /\ \A d \in Posix!Process \ {p} : at[d] = pc[d]
        BY <1>2
      <4> HIDE DEF at
      <4>2. /\ Cardinality(Owing(at, q)) =
                 Cardinality(Owing(pc, q)) - Owes(p, pc[p]) + Owes(p, at[p])
            /\ Cardinality(Asking(at, q)) =
                 Cardinality(Asking(pc, q)) - Asks(p, pc[p]) + Asks(p, at[p])
        BY <1>1, <4>1, OneMoves
      <4> QED BY <1>2, <4>1, <4>2
    <3> HIDE DEF at
    <3>2. /\ Cardinality(Owing(pc', q)) =
               Cardinality(Owing(at, q)) - Owes(r, "wait") + Owes(r, Posix!AfterReceive(r))
          /\ Cardinality(Asking(pc', q)) =
               Cardinality(Asking(at, q)) - Asks(r, "wait") + Asks(r, Posix!AfterReceive(r))
      <4>1. pc'[r] = Posix!AfterReceive(r) /\ \A d \in Posix!Process \ {r} : pc'[d] = at[d]
        BY <2>2, <2>3
      <4>2. /\ Cardinality(Owing(pc', q)) =
                 Cardinality(Owing(at, q)) - Owes(r, at[r]) + Owes(r, pc'[r])
            /\ Cardinality(Asking(pc', q)) =
                 Cardinality(Asking(at, q)) - Asks(r, at[r]) + Asks(r, pc'[r])
        <5>1. r \in Posix!Process /\ queue[r] = q
          BY <2>1
        <5> QED BY <4>1, <5>1, OneMoves
      <4> QED BY <2>2, <4>1, <4>2
    <3>3. Len(held'[q]) = Len(held[q])
      BY <1>8
    <3>4. Len(held[q]) + Cardinality(Owing(pc, q)) = Cardinality(Asking(pc, q))
      BY <1>5
    <3> QED BY <1>3, <1>4, <1>7, <2>4, <2>6, <3>1, <3>2, <3>3, <3>4
  <2> QED BY <2>5, <2>6
<1>9. CASE /\ held' = [held EXCEPT ![q] = Posix!Inserted(@, p)]
           /\ pc' = [pc EXCEPT ![p] = Posix!AfterSend(p)]
  <2>1. /\ Len(held'[q]) = Len(held[q]) + 1 /\ \A d \in Posix!Queue \ {q} : held'[d] = held[d]
    BY <1>4, <1>9, InsertedLonger DEF PosixInv, PosixTyped
  <2>2. CASE e # q
    <3>1. Owing(pc', e) = Owing(pc, e) /\ Asking(pc', e) = Asking(pc, e)
      <4>1. \A d \in Posix!Process : queue[d] = e => pc'[d] = pc[d]
        BY <1>1, <1>2, <1>9, <2>2
      <4> QED BY <4>1, OthersMove
    <3> QED BY <1>5, <2>1, <2>2, <3>1
  <2>3. CASE e = q
    <3>1. /\ Cardinality(Owing(pc', q)) =
               Cardinality(Owing(pc, q)) - Owes(p, "send") + Owes(p, Posix!AfterSend(p))
          /\ Cardinality(Asking(pc', q)) =
               Cardinality(Asking(pc, q)) - Asks(p, "send") + Asks(p, Posix!AfterSend(p))
      <4>1. \A d \in Posix!Process \ {p} : pc'[d] = pc[d]
        BY <1>2, <1>9
      <4>2. /\ Cardinality(Owing(pc', q)) =
                 Cardinality(Owing(pc, q)) - Owes(p, pc[p]) + Owes(p, pc'[p])
            /\ Cardinality(Asking(pc', q)) =
                 Cardinality(Asking(pc, q)) - Asks(p, pc[p]) + Asks(p, pc'[p])
        BY <1>1, <4>1, OneMoves
      <4> QED BY <1>2, <1>9, <4>2
    <3>2. Len(held[q]) + Cardinality(Owing(pc, q)) = Cardinality(Asking(pc, q))
      BY <1>5
    <3> DEFINE o == Cardinality(Owing(pc, q))
               w == Cardinality(Asking(pc, q))
    <3>3. o \in Nat /\ w \in Nat /\ Len(held[q]) + o = w
      BY <1>3, <3>2
    <3>4. CASE p \in Server
      <4>1. Cardinality(Owing(pc', q)) = o - 1 /\ Cardinality(Asking(pc', q)) = w
        BY <1>7, <3>1, <3>3, <3>4
      <4> HIDE DEF o, w
      <4> QED BY <1>4, <2>1, <2>3, <3>3, <4>1
    <3>5. CASE p \notin Server
      <4>1. Cardinality(Owing(pc', q)) = o /\ Cardinality(Asking(pc', q)) = w + 1
        BY <1>7, <3>1, <3>3, <3>5
      <4> HIDE DEF o, w
      <4> QED BY <1>4, <2>1, <2>3, <3>3, <4>1
    <3> QED BY <3>4, <3>5
  <2> QED BY <2>2, <2>3
<1> QED BY <1>1, <1>8, <1>9 DEF Posix!Send, Posix!mq_send, Posix!Goes

(* Who takes a word from the queue owes one or is asking no more.           *)
LEMMA ReceiveBalances ==
  ASSUME PosixInv, NEW p \in Posix!Process, Posix!Receive(p)
  PROVE  Posix!WordsBalanced'
<1>1. PICK q \in Posix!Queue : q = queue[p]
  BY DEF Posix!Receive, PosixInv, PosixTyped
<1>2. DOMAIN pc = Posix!Process /\ pc[p] = "receive" /\ queue' = queue
  BY DEF PosixInv, PosixTyped, Posix!Receive
<1>3. /\ Server \cap Client = {} /\ Posix!Process = Server \cup Client
      /\ \A e \in Posix!Queue :
           Cardinality(Owing(pc, e)) \in Nat /\ Cardinality(Asking(pc, e)) \in Nat
  BY SetsFinite, ExercisesAssumption DEF Posix!QueueAssumption, Posix!Process
<1>4. held[q] \in Seq(Posix!Process) /\ Len(held[q]) \in Nat
  BY DEF PosixInv, PosixTyped
<1>5. \A e \in Posix!Queue : Len(held[e]) + Cardinality(Owing(pc, e)) = Cardinality(Asking(pc, e))
  BY BalanceMeans DEF PosixInv
<1>6. SUFFICES ASSUME NEW e \in Posix!Queue
               PROVE  Len(held'[e]) + Cardinality(Owing(pc', e)) = Cardinality(Asking(pc', e))
  BY <1>2, BalanceMeans
<1>7. /\ Owes(p, "receive") = 0 /\ Asks(p, "receive") = (IF p \in Server THEN 0 ELSE 1)
      /\ Owes(p, "wait") = 0 /\ Asks(p, "wait") = (IF p \in Server THEN 0 ELSE 1)
      /\ Owes(p, Posix!AfterReceive(p)) = (IF p \in Server THEN 1 ELSE 0)
      /\ Asks(p, Posix!AfterReceive(p)) = 0
  BY <1>3 DEF Owes, Asks, Posix!AfterReceive
<1>8. CASE /\ held[q] # <<>> /\ held' = [held EXCEPT ![q] = Tail(@)]
           /\ pc' = [pc EXCEPT ![p] = Posix!AfterReceive(p)]
  <2>1. /\ Len(held'[q]) = Len(held[q]) - 1 /\ \A d \in Posix!Queue \ {q} : held'[d] = held[d]
    BY <1>4, <1>8 DEF PosixInv, PosixTyped
  <2>2. CASE e # q
    <3>1. Owing(pc', e) = Owing(pc, e) /\ Asking(pc', e) = Asking(pc, e)
      <4>1. \A d \in Posix!Process : queue[d] = e => pc'[d] = pc[d]
        BY <1>1, <1>2, <1>8, <2>2
      <4> QED BY <4>1, OthersMove
    <3> QED BY <1>5, <2>1, <2>2, <3>1
  <2>3. CASE e = q
    <3>1. /\ Cardinality(Owing(pc', q)) =
               Cardinality(Owing(pc, q)) - Owes(p, "receive") + Owes(p, Posix!AfterReceive(p))
          /\ Cardinality(Asking(pc', q)) =
               Cardinality(Asking(pc, q)) - Asks(p, "receive") + Asks(p, Posix!AfterReceive(p))
      <4>1. \A d \in Posix!Process \ {p} : pc'[d] = pc[d]
        BY <1>2, <1>8
      <4>2. /\ Cardinality(Owing(pc', q)) =
                 Cardinality(Owing(pc, q)) - Owes(p, pc[p]) + Owes(p, pc'[p])
            /\ Cardinality(Asking(pc', q)) =
                 Cardinality(Asking(pc, q)) - Asks(p, pc[p]) + Asks(p, pc'[p])
        BY <1>1, <4>1, OneMoves
      <4> QED BY <1>2, <1>8, <4>2
    <3>2. Len(held[q]) + Cardinality(Owing(pc, q)) = Cardinality(Asking(pc, q))
      BY <1>5
    <3> DEFINE o == Cardinality(Owing(pc, q))
               w == Cardinality(Asking(pc, q))
    <3>3. o \in Nat /\ w \in Nat /\ Len(held[q]) + o = w
      BY <1>3, <3>2
    <3>4. CASE p \in Server
      <4>1. Cardinality(Owing(pc', q)) = o + 1 /\ Cardinality(Asking(pc', q)) = w
        BY <1>7, <3>1, <3>3, <3>4
      <4> HIDE DEF o, w
      <4>2. \A i, j \in Nat : (i - 1) + (j + 1) = i + j
        OBVIOUS
      <4>3. (Len(held[q]) - 1) + (o + 1) = w
        BY <1>4, <3>3, <4>2, Zenon
      <4> QED BY <2>1, <2>3, <4>1, <4>3, Zenon
    <3>5. CASE p \notin Server
      <4>1. Cardinality(Owing(pc', q)) = o /\ Cardinality(Asking(pc', q)) = w - 1
        BY <1>7, <3>1, <3>3, <3>5
      <4> HIDE DEF o, w
      <4> QED BY <1>4, <2>1, <2>3, <3>3, <4>1
    <3> QED BY <3>4, <3>5
  <2> QED BY <2>2, <2>3
<1>9. CASE pc' = [pc EXCEPT ![p] = "wait"] /\ UNCHANGED held
  <2>1. CASE e # q
    <3>1. Owing(pc', e) = Owing(pc, e) /\ Asking(pc', e) = Asking(pc, e)
      <4>1. \A d \in Posix!Process : queue[d] = e => pc'[d] = pc[d]
        BY <1>1, <1>2, <1>9, <2>1
      <4> QED BY <4>1, OthersMove
    <3> QED BY <1>5, <1>9, <3>1
  <2>2. CASE e = q
    <3>1. /\ Cardinality(Owing(pc', q)) =
               Cardinality(Owing(pc, q)) - Owes(p, "receive") + Owes(p, "wait")
          /\ Cardinality(Asking(pc', q)) =
               Cardinality(Asking(pc, q)) - Asks(p, "receive") + Asks(p, "wait")
      <4>1. \A d \in Posix!Process \ {p} : pc'[d] = pc[d]
        BY <1>2, <1>9
      <4>2. /\ Cardinality(Owing(pc', q)) =
                 Cardinality(Owing(pc, q)) - Owes(p, pc[p]) + Owes(p, pc'[p])
            /\ Cardinality(Asking(pc', q)) =
                 Cardinality(Asking(pc, q)) - Asks(p, pc[p]) + Asks(p, pc'[p])
        BY <1>1, <4>1, OneMoves
      <4> QED BY <1>2, <1>9, <4>2
    <3>2. Len(held[q]) + Cardinality(Owing(pc, q)) = Cardinality(Asking(pc, q))
      BY <1>5
    <3> QED BY <1>3, <1>4, <1>7, <1>9, <2>2, <3>1, <3>2
  <2> QED BY <2>1, <2>2
<1> QED BY <1>1, <1>8, <1>9 DEF Posix!Receive, Posix!mq_receive, Posix!Goes

(* Who starts or ends is in neither set.                                    *)
LEMMA OthersBalance ==
  ASSUME PosixInv,
         \/ \E s \in Server : Posix!OpenServer(s) \/ Posix!Unlink(s)
         \/ \E c \in Client : Posix!OpenClient(c)
  PROVE  Posix!WordsBalanced'
<1>1. /\ UNCHANGED held
      /\ \A q \in Posix!Queue : Owing(pc, q)' = Owing(pc, q) /\ Asking(pc, q)' = Asking(pc, q)
  <2>1. Server \cap Client = {} /\ Posix!Process = Server \cup Client
    BY ExercisesAssumption DEF Posix!QueueAssumption, Posix!Process
  <2>2. ASSUME NEW s \in Server, Posix!OpenServer(s) \/ Posix!Unlink(s), NEW q \in Posix!Queue
        PROVE  UNCHANGED held /\ Owing(pc, q)' = Owing(pc, q) /\ Asking(pc, q)' = Asking(pc, q)
    <3>1. /\ pc[s] # "send" /\ pc'[s] # "send" /\ UNCHANGED held
          /\ \A r \in Posix!Process \ {s} : pc'[r] = pc[r] /\ queue'[r] = queue[r]
      BY <2>1, <2>2 DEF Posix!OpenServer, Posix!Unlink, Posix!Goes, PosixInv, PosixTyped
    <3> QED BY <2>1, <3>1 DEF Owing, Asking
  <2>3. ASSUME NEW c \in Client, Posix!OpenClient(c), NEW q \in Posix!Queue
        PROVE  UNCHANGED held /\ Owing(pc, q)' = Owing(pc, q) /\ Asking(pc, q)' = Asking(pc, q)
    <3>1. /\ pc[c] \notin {"receive", "wait"} /\ pc'[c] \notin {"receive", "wait"} /\ UNCHANGED held
          /\ \A r \in Posix!Process \ {c} : pc'[r] = pc[r] /\ queue'[r] = queue[r]
      BY <2>1, <2>3 DEF Posix!OpenClient, Posix!Goes, PosixInv, PosixTyped
    <3> QED BY <2>1, <3>1 DEF Owing, Asking
  <2>4. UNCHANGED held
    BY DEF Posix!OpenServer, Posix!Unlink, Posix!OpenClient
  <2> QED BY <2>2, <2>3, <2>4
<1>2. \A q \in Posix!Queue : Len(held[q]) + Cardinality(Owing(pc, q)) = Cardinality(Asking(pc, q))
  BY BalanceMeans DEF PosixInv
<1>3. \A q \in Posix!Queue :
         Len(held'[q]) + Cardinality(Owing(pc, q)') = Cardinality(Asking(pc, q)')
  BY <1>1, <1>2
<1> QED BY <1>3, PosixSets DEF Posix!WordsBalanced, Owing, Asking

LEMMA PosixInit == Posix!Init => PosixInv
<1> SUFFICES ASSUME Posix!Init PROVE PosixInv
  OBVIOUS
<1>1. PosixTyped /\ InLine
  BY DEF Posix!Init, PosixTyped, InLine
<1>2. \A q \in Posix!Queue : Owing(pc, q) = {} /\ Asking(pc, q) = {} /\ Len(held[q]) = 0
  BY DEF Posix!Init, Owing, Asking, Posix!Process
<1>3. Posix!WordsBalanced
  <2>1. Cardinality({}) = 0 /\ 0 + 0 = 0
    BY FS_EmptySet
  <2>2. \A q \in Posix!Queue : Len(held[q]) + Cardinality(Owing(pc, q)) = Cardinality(Asking(pc, q))
    BY <1>2, <2>1
  <2> QED BY <2>2, BalanceMeans
<1> QED BY <1>1, <1>3 DEF PosixInv

(* The rest of the invariant.                                               *)
LEMMA SendInLine ==
  ASSUME PosixInv, NEW p \in Posix!Process, Posix!Send(p)
  PROVE  PosixTyped' /\ InLine'
<1>1. PICK q \in Posix!Queue : q = queue[p]
  BY DEF Posix!Send, PosixInv, PosixTyped
<1>2. /\ pc[p] = "send" /\ UNCHANGED <<queue, name>>
      /\ Posix!AfterSend(p) \in {"unlink", "receive"}
      /\ waiting[q] \in Seq(Posix!Process) /\ held[q] \in Seq(Posix!Process)
  BY DEF PosixInv, PosixTyped, Posix!Send, Posix!AfterSend
<1>3. CASE /\ waiting[q] # <<>>
           /\ waiting' = [waiting EXCEPT ![q] = Tail(@)]
           /\ pc' = [pc EXCEPT ![p] = Posix!AfterSend(p),
                               ![Head(waiting[q])] = Posix!AfterReceive(Head(waiting[q]))]
           /\ UNCHANGED held
  <2>1. PICK r \in Posix!Process : r = Head(waiting[q]) /\ pc[r] = "wait" /\ queue[r] = q
    BY <1>2, <1>3 DEF PosixInv, InLine
  <2>2. /\ pc' = [pc EXCEPT ![p] = Posix!AfterSend(p), ![r] = Posix!AfterReceive(r)]
        /\ Posix!AfterReceive(r) \in {"send", "done"}
    BY <1>3, <2>1 DEF Posix!AfterReceive
  <2>3. /\ Tail(waiting[q]) \in Seq(Posix!Process) /\ Len(waiting[q]) \in Nat
        /\ DOMAIN Tail(waiting[q]) = 1 .. Len(waiting[q]) - 1
        /\ DOMAIN waiting[q] = 1 .. Len(waiting[q])
        /\ \A i \in DOMAIN Tail(waiting[q]) : Tail(waiting[q])[i] = waiting[q][i + 1]
        /\ r = waiting[q][1] /\ 1 \in DOMAIN waiting[q]
    BY <1>2, <1>3, <2>1
  <2>4. PosixTyped'
    BY <1>1, <1>2, <1>3, <2>1, <2>2, <2>3 DEF PosixInv, PosixTyped
  <2>5. ASSUME NEW e \in Posix!Queue, NEW i \in DOMAIN waiting'[e]
        PROVE  pc'[waiting'[e][i]] = "wait" /\ queue'[waiting'[e][i]] = e
    <3>1. \A d \in Posix!Process : pc[d] = "wait" /\ d # r => pc'[d] = "wait"
      BY <1>2, <2>2 DEF PosixInv, PosixTyped
    <3>2. CASE e = q
      <4>1. waiting'[q] = Tail(waiting[q])
        BY <1>3 DEF PosixInv, PosixTyped
      <4>2. i + 1 \in DOMAIN waiting[q] /\ i + 1 # 1 /\ waiting'[q][i] = waiting[q][i + 1]
        BY <2>3, <2>5, <3>2, <4>1
      <4>3. waiting[q][i + 1] # r /\ waiting[q][i + 1] \in Posix!Process
        BY <1>2, <2>3, <4>2 DEF PosixInv, InLine
      <4>4. pc[waiting[q][i + 1]] = "wait" /\ queue[waiting[q][i + 1]] = q
        BY <4>2 DEF PosixInv, InLine
      <4> QED BY <1>2, <3>1, <3>2, <4>2, <4>3, <4>4
    <3>3. CASE e # q
      <4>1. waiting'[e] = waiting[e] /\ waiting[e] \in Seq(Posix!Process)
        BY <1>3, <3>3 DEF PosixInv, PosixTyped
      <4>2. /\ waiting[e][i] \in Posix!Process
            /\ pc[waiting[e][i]] = "wait" /\ queue[waiting[e][i]] = e
        BY <2>5, <4>1 DEF PosixInv, InLine
      <4> QED BY <1>2, <2>1, <3>1, <3>3, <4>1, <4>2
    <3> QED BY <3>2, <3>3
  <2>6. ASSUME NEW e \in Posix!Queue, NEW i \in DOMAIN waiting'[e], NEW j \in DOMAIN waiting'[e],
               waiting'[e][i] = waiting'[e][j]
        PROVE  i = j
    <3>1. CASE e = q
      <4>1. waiting'[q] = Tail(waiting[q])
        BY <1>3 DEF PosixInv, PosixTyped
      <4>2. /\ i + 1 \in DOMAIN waiting[q] /\ j + 1 \in DOMAIN waiting[q] /\ i \in Int /\ j \in Int
            /\ waiting[q][i + 1] = waiting[q][j + 1]
        BY <2>3, <2>6, <3>1, <4>1
      <4>3. i + 1 = j + 1
        BY <4>2 DEF PosixInv, InLine
      <4> QED BY <4>2, <4>3
    <3>2. CASE e # q
      BY <1>3, <2>6, <3>2 DEF PosixInv, PosixTyped, InLine
    <3> QED BY <3>1, <3>2
  <2>7. InLine'
    BY <2>5, <2>6 DEF InLine
  <2> QED BY <2>4, <2>7
<1>4. CASE /\ held' = [held EXCEPT ![q] = Posix!Inserted(@, p)]
           /\ pc' = [pc EXCEPT ![p] = Posix!AfterSend(p)]
           /\ UNCHANGED waiting
  <2>1. Posix!Inserted(held[q], p) \in Seq(Posix!Process)
    BY <1>2, InsertedLonger
  <2>2. PosixTyped'
    BY <1>1, <1>2, <1>4, <2>1 DEF PosixInv, PosixTyped
  <2>3. InLine'
    <3>1. \A e \in Posix!Queue : waiting[e] \in Seq(Posix!Process)
      BY DEF PosixInv, PosixTyped
    <3>2. \A d \in Posix!Process : pc[d] = "wait" => pc'[d] = "wait"
      BY <1>2, <1>4 DEF PosixInv, PosixTyped
    <3> QED BY <1>2, <1>4, <3>1, <3>2 DEF PosixInv, InLine
  <2> QED BY <2>2, <2>3
<1> QED BY <1>1, <1>3, <1>4 DEF Posix!Send, Posix!mq_send, Posix!Goes

LEMMA ReceiveInLine ==
  ASSUME PosixInv, NEW p \in Posix!Process, Posix!Receive(p)
  PROVE  PosixTyped' /\ InLine'
<1>1. PICK q \in Posix!Queue : q = queue[p]
  BY DEF Posix!Receive, PosixInv, PosixTyped
<1>2. /\ pc[p] = "receive" /\ UNCHANGED <<queue, name>>
      /\ Posix!AfterReceive(p) \in {"send", "done"}
      /\ waiting[q] \in Seq(Posix!Process) /\ held[q] \in Seq(Posix!Process)
  BY DEF PosixInv, PosixTyped, Posix!Receive, Posix!AfterReceive
<1>3. \A e \in Posix!Queue : waiting[e] \in Seq(Posix!Process)
  BY DEF PosixInv, PosixTyped
<1>4. CASE /\ held[q] # <<>> /\ held' = [held EXCEPT ![q] = Tail(@)]
           /\ pc' = [pc EXCEPT ![p] = Posix!AfterReceive(p)]
           /\ UNCHANGED waiting
  <2>1. Tail(held[q]) \in Seq(Posix!Process)
    BY <1>2, <1>4
  <2>2. PosixTyped'
    BY <1>1, <1>2, <1>4, <2>1 DEF PosixInv, PosixTyped
  <2>3. \A d \in Posix!Process : pc[d] = "wait" => pc'[d] = "wait"
    BY <1>2, <1>4 DEF PosixInv, PosixTyped
  <2>4. InLine'
    BY <1>2, <1>3, <1>4, <2>3 DEF PosixInv, InLine
  <2> QED BY <2>2, <2>4
<1>5. CASE /\ waiting' = [waiting EXCEPT ![q] = Append(@, p)]
           /\ pc' = [pc EXCEPT ![p] = "wait"]
           /\ UNCHANGED held
  <2>1. /\ Append(waiting[q], p) \in Seq(Posix!Process) /\ Len(waiting[q]) \in Nat
        /\ DOMAIN waiting[q] = 1 .. Len(waiting[q])
        /\ DOMAIN Append(waiting[q], p) = 1 .. Len(waiting[q]) + 1
        /\ \A i \in DOMAIN waiting[q] : Append(waiting[q], p)[i] = waiting[q][i]
        /\ Append(waiting[q], p)[Len(waiting[q]) + 1] = p
    BY <1>2
  <2>2. PosixTyped'
    BY <1>1, <1>2, <1>5, <2>1 DEF PosixInv, PosixTyped
  <2>3. /\ pc'[p] = "wait" /\ \A d \in Posix!Process : pc[d] = "wait" => pc'[d] = "wait"
    BY <1>2, <1>5 DEF PosixInv, PosixTyped
  <2>4. waiting'[q] = Append(waiting[q], p) /\ \A e \in Posix!Queue \ {q} : waiting'[e] = waiting[e]
    BY <1>5 DEF PosixInv, PosixTyped
  <2>5. \A i \in DOMAIN waiting[q] : waiting[q][i] # p /\ waiting[q][i] \in Posix!Process
    BY <1>2 DEF PosixInv, InLine
  <2>6. \A i \in DOMAIN waiting'[q] :
           \/ i \in DOMAIN waiting[q] /\ waiting'[q][i] = waiting[q][i]
           \/ i = Len(waiting[q]) + 1 /\ waiting'[q][i] = p
    BY <2>1, <2>4
  <2>7. ASSUME NEW e \in Posix!Queue, NEW i \in DOMAIN waiting'[e]
        PROVE  pc'[waiting'[e][i]] = "wait" /\ queue'[waiting'[e][i]] = e
    <3>1. CASE e = q
      <4>1. \/ i \in DOMAIN waiting[q] /\ waiting'[q][i] = waiting[q][i]
            \/ waiting'[q][i] = p
        BY <2>6, <2>7, <3>1
      <4>2. CASE i \in DOMAIN waiting[q] /\ waiting'[q][i] = waiting[q][i]
        <5>1. /\ waiting[q][i] \in Posix!Process
              /\ pc[waiting[q][i]] = "wait" /\ queue[waiting[q][i]] = q
          BY <2>5, <4>2 DEF PosixInv, InLine
        <5> QED BY <1>2, <2>3, <3>1, <4>2, <5>1
      <4>3. CASE waiting'[q][i] = p
        BY <1>1, <1>2, <2>3, <3>1, <4>3
      <4> QED BY <4>1, <4>2, <4>3
    <3>2. CASE e # q
      <4>1. /\ waiting'[e] = waiting[e] /\ i \in DOMAIN waiting[e]
        BY <2>4, <2>7, <3>2
      <4>2. waiting[e][i] \in Posix!Process
        BY <1>3, <4>1
      <4>3. pc[waiting[e][i]] = "wait" /\ queue[waiting[e][i]] = e
        BY <4>1 DEF PosixInv, InLine
      <4> QED BY <1>2, <2>3, <4>1, <4>2, <4>3
    <3> QED BY <3>1, <3>2
  <2>8. ASSUME NEW e \in Posix!Queue, NEW i \in DOMAIN waiting'[e], NEW j \in DOMAIN waiting'[e],
               waiting'[e][i] = waiting'[e][j]
        PROVE  i = j
    <3>1. CASE e = q
      BY <2>5, <2>6, <2>8, <3>1 DEF PosixInv, InLine
    <3>2. CASE e # q
      BY <2>4, <2>8, <3>2 DEF PosixInv, InLine
    <3> QED BY <3>1, <3>2
  <2>9. InLine'
    BY <2>7, <2>8 DEF InLine
  <2> QED BY <2>2, <2>9
<1> QED BY <1>1, <1>4, <1>5 DEF Posix!Receive, Posix!mq_receive, Posix!Goes

LEMMA OthersInLine ==
  ASSUME PosixInv,
         \/ \E s \in Server : Posix!OpenServer(s) \/ Posix!Unlink(s)
         \/ \E c \in Client : Posix!OpenClient(c)
  PROVE  PosixTyped' /\ InLine'
<1>1. Posix!Process = Server \cup Client /\ Posix!Queue = Server
  BY DEF Posix!Process, Posix!Queue
<1>2. PICK p \in Posix!Process :
         /\ UNCHANGED <<held, waiting>> /\ pc[p] # "wait"
         /\ \A d \in Posix!Process \ {p} : pc'[d] = pc[d] /\ queue'[d] = queue[d]
  <2>1. ASSUME NEW s \in Server, Posix!OpenServer(s) \/ Posix!Unlink(s)
        PROVE  /\ UNCHANGED <<held, waiting>> /\ pc[s] # "wait"
               /\ \A d \in Posix!Process \ {s} : pc'[d] = pc[d] /\ queue'[d] = queue[d]
    BY <1>1, <2>1 DEF Posix!OpenServer, Posix!Unlink, Posix!Goes, PosixInv, PosixTyped
  <2>2. ASSUME NEW c \in Client, Posix!OpenClient(c)
        PROVE  /\ UNCHANGED <<held, waiting>> /\ pc[c] # "wait"
               /\ \A d \in Posix!Process \ {c} : pc'[d] = pc[d] /\ queue'[d] = queue[d]
    BY <1>1, <2>2 DEF Posix!OpenClient, Posix!Goes, PosixInv, PosixTyped
  <2> QED BY <1>1, <2>1, <2>2
<1>3. PosixTyped'
  <2>1. ASSUME NEW s \in Server, Posix!OpenServer(s) PROVE PosixTyped'
    BY <1>1, <2>1 DEF Posix!OpenServer, Posix!Goes, PosixInv, PosixTyped
  <2>2. ASSUME NEW s \in Server, Posix!Unlink(s) PROVE PosixTyped'
    BY <1>1, <2>2 DEF Posix!Unlink, Posix!Goes, PosixInv, PosixTyped
  <2>3. ASSUME NEW c \in Client, Posix!OpenClient(c) PROVE PosixTyped'
    BY <1>1, <2>3 DEF Posix!OpenClient, Posix!Goes, PosixInv, PosixTyped
  <2> QED BY <2>1, <2>2, <2>3
<1>4. \A e \in Posix!Queue : waiting[e] \in Seq(Posix!Process)
  BY DEF PosixInv, PosixTyped
<1>5. InLine'
  BY <1>2, <1>4 DEF PosixInv, InLine
<1> QED BY <1>3, <1>5

LEMMA PosixNext == PosixInv /\ [Posix!Next]_(Posix!vars) => PosixInv'
<1> SUFFICES ASSUME PosixInv, [Posix!Next]_(Posix!vars) PROVE PosixInv'
  OBVIOUS
<1>1. ASSUME NEW p \in Posix!Process, Posix!Send(p) PROVE PosixInv'
  BY <1>1, SendBalances, SendInLine DEF PosixInv
<1>2. ASSUME NEW p \in Posix!Process, Posix!Receive(p) PROVE PosixInv'
  BY <1>2, ReceiveBalances, ReceiveInLine DEF PosixInv
<1>3. CASE \/ \E s \in Server : Posix!OpenServer(s) \/ Posix!Unlink(s)
           \/ \E c \in Client : Posix!OpenClient(c)
  BY <1>3, OthersBalance, OthersInLine DEF PosixInv
<1>4. CASE UNCHANGED Posix!vars
  <2>1. UNCHANGED <<pc, queue, name, held, waiting>>
    BY <1>4 DEF Posix!vars
  <2>2. PosixTyped' /\ InLine'
    BY <2>1 DEF PosixInv, PosixTyped, InLine
  <2>3. Posix!WordsBalanced'
    BY <2>1, BalanceMeans DEF PosixInv
  <2> QED BY <2>2, <2>3 DEF PosixInv
<1> QED BY <1>1, <1>2, <1>3, <1>4 DEF Posix!Next, Posix!Runs

-----------------------------------------------------------------------------
(* ex16/p1, one talk at a time.  A talk goes through eight stages; what is  *)
(* in the queue is never the word of the process that reads next: the       *)
(* client's went straight to the server that waited for it, and so is never *)
(* there when the client reads.                                             *)

(* Nothing runs but the processes of P.                                     *)
Quiet(P) == \A p \in Posix!Process \ P : pc[p] \in {"off", "done"}

(* The queue of s has h in it and w before it, the others nothing.          *)
Standing(s, w, h) ==
  /\ waiting[s] = w /\ held[s] = h
  /\ \A q \in Posix!Queue \ {s} : waiting[q] = <<>> /\ held[q] = <<>>

NoTalk == Quiet({}) /\ name = NoQueue /\ \A q \in Posix!Queue : waiting[q] = <<>> /\ held[q] = <<>>

ServerAlone(s, where, w) ==
  pc[s] = where /\ Quiet({s}) /\ queue[s] = s /\ name = s /\ Standing(s, w, <<>>)

BothTalk(s, c, where, there, w, h) ==
  /\ pc[s] = where /\ pc[c] = there /\ Quiet({s, c})
  /\ queue[s] = s /\ queue[c] = s /\ name = s /\ Standing(s, w, h)

ClientAlone(s, c) ==
  pc[c] = "receive" /\ Quiet({c}) /\ queue[c] = s /\ name = NoQueue /\ Standing(s, <<>>, <<s>>)

Before(s) == ServerAlone(s, "receive", <<>>) \/ ServerAlone(s, "wait", <<s>>)

During(s, c) ==
  \/ BothTalk(s, c, "wait", "send", <<s>>, <<>>)
  \/ BothTalk(s, c, "send", "receive", <<>>, <<>>)
  \/ BothTalk(s, c, "send", "wait", <<c>>, <<>>)
  \/ BothTalk(s, c, "unlink", "receive", <<>>, <<s>>)

After(s) == ServerAlone(s, "unlink", <<>>)

Stage ==
  \/ NoTalk
  \/ \E s \in Server : Before(s) \/ After(s)
  \/ \E s \in Server, c \in Client : During(s, c) \/ ClientAlone(s, c)

Heard ==
  /\ \A s \in Server : got[s] \in Client \cup {NoQueue}
  /\ \A c \in Client : got[c] \in Server \cup {NoQueue}

TalkInv == got \in [Posix!Process -> Posix!Process \cup {NoQueue}] /\ (oneByOne => Stage /\ Heard)

LEMMA InsertedFirst == ASSUME NEW p \in Posix!Process PROVE Posix!Inserted(<<>>, p) = <<p>>
<1>1. <<>> \in Seq(Posix!Process)
  OBVIOUS
<1>2. Cardinality({i \in DOMAIN <<>> : Posix!Priority(<<>>[i]) >= Posix!Priority(p)}) = 0
  <2>1. {i \in DOMAIN <<>> : Posix!Priority(<<>>[i]) >= Posix!Priority(p)} = {}
    OBVIOUS
  <2> QED BY <2>1, FS_EmptySet
<1>3. Posix!Inserted(<<>>, p) = Posix!InsertAt(<<>>, 1 + 0, p)
  BY <1>2, PosixSets DEF Posix!Inserted
<1>4. Posix!Inserted(<<>>, p) = SubSeq(<<>>, 1, 0) \o <<p>> \o SubSeq(<<>>, 1, 0)
  BY <1>3 DEF Posix!InsertAt
<1>5. SubSeq(<<>>, 1, 0) = <<>>
  BY SubSeqEmpty
<1> QED BY <1>4, <1>5

(* A word for one who waits, and one that is kept.                          *)
LEMMA SendGives ==
  ASSUME PosixInv, NEW p \in Posix!Process, NEW r \in Posix!Process, NEW s \in Server,
         queue[p] = s, Standing(s, <<r>>, <<>>), Posix!Send(p)
  PROVE  /\ got' = [got EXCEPT ![r] = p] /\ Standing(s, <<>>, <<>>)'
         /\ UNCHANGED <<queue, name, oneByOne>>
         /\ pc' = [pc EXCEPT ![p] = Posix!AfterSend(p), ![r] = Posix!AfterReceive(r)]
<1>1. waiting[s] = <<r>> /\ <<r>> # <<>> /\ Head(<<r>>) = r /\ Tail(<<r>>) = <<>>
  BY DEF Standing
<1>2. waiting \in [Posix!Queue -> Seq(Posix!Process)] /\ s \in Posix!Queue
  BY DEF PosixInv, PosixTyped, Posix!Queue
<1>3. /\ got' = [got EXCEPT ![r] = p] /\ waiting' = [waiting EXCEPT ![s] = <<>>]
      /\ pc' = [pc EXCEPT ![p] = Posix!AfterSend(p), ![r] = Posix!AfterReceive(r)]
      /\ UNCHANGED <<held, queue, name, oneByOne>>
  BY <1>1, <1>2 DEF Posix!Send, Posix!mq_send
<1> QED BY <1>2, <1>3 DEF Standing

LEMMA SendKeeps ==
  ASSUME PosixInv, NEW p \in Posix!Process, NEW s \in Server,
         queue[p] = s, Standing(s, <<>>, <<>>), Posix!Send(p)
  PROVE  /\ Standing(s, <<>>, <<p>>)' /\ UNCHANGED <<got, queue, name, oneByOne>>
         /\ pc' = [pc EXCEPT ![p] = Posix!AfterSend(p)]
<1>1. waiting[s] = <<>> /\ held[s] = <<>>
  BY DEF Standing
<1>2. held \in [Posix!Queue -> Seq(Posix!Process)] /\ s \in Posix!Queue
  BY DEF PosixInv, PosixTyped, Posix!Queue
<1>3. /\ held' = [held EXCEPT ![s] = <<p>>] /\ pc' = [pc EXCEPT ![p] = Posix!AfterSend(p)]
      /\ UNCHANGED <<waiting, got, queue, name, oneByOne>>
  BY <1>1, <1>2, InsertedFirst DEF Posix!Send, Posix!mq_send, Posix!Goes
<1> QED BY <1>2, <1>3 DEF Standing

(* A word that was kept, and none.                                          *)
LEMMA ReceiveTakes ==
  ASSUME PosixInv, NEW p \in Posix!Process, NEW x \in Posix!Process, NEW s \in Server,
         queue[p] = s, Standing(s, <<>>, <<x>>), Posix!Receive(p)
  PROVE  /\ got' = [got EXCEPT ![p] = x] /\ Standing(s, <<>>, <<>>)'
         /\ UNCHANGED <<queue, name, oneByOne>>
         /\ pc' = [pc EXCEPT ![p] = Posix!AfterReceive(p)]
<1>1. held[s] = <<x>> /\ <<x>> # <<>> /\ Head(<<x>>) = x /\ Tail(<<x>>) = <<>>
  BY DEF Standing
<1>2. held \in [Posix!Queue -> Seq(Posix!Process)] /\ s \in Posix!Queue
  BY DEF PosixInv, PosixTyped, Posix!Queue
<1>3. /\ got' = [got EXCEPT ![p] = x] /\ held' = [held EXCEPT ![s] = <<>>]
      /\ pc' = [pc EXCEPT ![p] = Posix!AfterReceive(p)]
      /\ UNCHANGED <<waiting, queue, name, oneByOne>>
  BY <1>1, <1>2 DEF Posix!Receive, Posix!mq_receive, Posix!Goes
<1> QED BY <1>2, <1>3 DEF Standing

LEMMA ReceiveWaits ==
  ASSUME PosixInv, NEW p \in Posix!Process, NEW s \in Server,
         queue[p] = s, Standing(s, <<>>, <<>>), Posix!Receive(p)
  PROVE  /\ Standing(s, <<p>>, <<>>)' /\ UNCHANGED <<got, queue, name, oneByOne>>
         /\ pc' = [pc EXCEPT ![p] = "wait"]
<1>1. held[s] = <<>> /\ waiting[s] = <<>> /\ Append(<<>>, p) = <<p>>
  BY DEF Standing
<1>2. waiting \in [Posix!Queue -> Seq(Posix!Process)] /\ s \in Posix!Queue
  BY DEF PosixInv, PosixTyped, Posix!Queue
<1>3. /\ waiting' = [waiting EXCEPT ![s] = <<p>>] /\ pc' = [pc EXCEPT ![p] = "wait"]
      /\ UNCHANGED <<held, got, queue, name, oneByOne>>
  BY <1>1, <1>2 DEF Posix!Receive, Posix!mq_receive, Posix!Goes
<1> QED BY <1>2, <1>3 DEF Standing

(* While a process is under way that is no waiting server nobody starts,    *)
(* and while a server waits no server does.                                 *)
LEMMA NobodyStarts ==
  ASSUME PosixInv, oneByOne, NEW r \in Posix!Process,
         pc[r] \in {"receive", "send", "unlink"} \/ (r \in Client /\ pc[r] = "wait")
  PROVE  /\ \A s \in Server : ~Posix!OpenServer(s)
         /\ \A c \in Client : ~Posix!OpenClient(c)
<1>1. Server \cap Client = {} /\ Posix!Process = Server \cup Client
  BY ExercisesAssumption DEF Posix!QueueAssumption, Posix!Process
<1>2. ASSUME NEW p \in Posix!Process, pc[p] = "off", Posix!MayStart(p) PROVE FALSE
  <2>1. r # p
    BY <1>1, <1>2
  <2> QED BY <1>1, <1>2, <2>1 DEF Posix!MayStart
<1> QED BY <1>1, <1>2 DEF Posix!OpenServer, Posix!OpenClient

LEMMA NoServerStarts ==
  ASSUME PosixInv, oneByOne, NEW r \in Server, pc[r] = "wait"
  PROVE  \A s \in Server : ~Posix!OpenServer(s)
<1>1. Server \cap Client = {} /\ Posix!Process = Server \cup Client
  BY ExercisesAssumption DEF Posix!QueueAssumption, Posix!Process
<1> SUFFICES ASSUME NEW s \in Server, Posix!OpenServer(s) PROVE FALSE
  OBVIOUS
<1>2. r \in Posix!Process \ {s} /\ s \notin Client /\ Posix!MayStart(s)
  BY <1>1 DEF Posix!OpenServer
<1> QED BY <1>2 DEF Posix!MayStart

(* Who runs is none of the quiet ones.                                      *)
LEMMA WhoRuns ==
  ASSUME NEW P \in SUBSET Posix!Process, Quiet(P), NEW p \in Posix!Process, Posix!Runs(p)
  PROVE  p \in P
BY DEF Quiet, Posix!Runs, Posix!Send, Posix!Receive, Posix!Unlink

(* From each stage to the next.                                             *)
Talking == PosixInv /\ oneByOne /\ got \in [Posix!Process -> Posix!Process \cup {NoQueue}] /\ Heard

Goals == Stage /\ Heard /\ got \in [Posix!Process -> Posix!Process \cup {NoQueue}]

LEMMA PosixNames ==
  /\ Server \cap Client = {} /\ Posix!Process = Server \cup Client /\ Posix!Queue = Server
  /\ NoQueue \notin Posix!Process
  /\ \A s \in Server : Posix!AfterSend(s) = "unlink" /\ Posix!AfterReceive(s) = "send"
  /\ \A c \in Client : Posix!AfterSend(c) = "receive" /\ Posix!AfterReceive(c) = "done"
BY ExercisesAssumption DEF Posix!QueueAssumption, Posix!Process, Posix!Queue, Posix!AfterSend,
                           Posix!AfterReceive

LEMMA TalkBegins == ASSUME Talking, NoTalk, Posix!Next PROVE Goals'
<1>1. PosixInv /\ Quiet({}) /\ DOMAIN pc = Posix!Process
  BY DEF Talking, NoTalk, PosixInv, PosixTyped
<1>2. ~ \E p \in Posix!Process : Posix!Runs(p)
  <2>1. {} \in SUBSET Posix!Process
    OBVIOUS
  <2>2. \A p \in Posix!Process : Posix!Runs(p) => p \in {}
    BY <1>1, <2>1, WhoRuns
  <2> QED BY <2>2
<1>3. \A c \in Client : ~Posix!OpenClient(c)
  BY <1>1, PosixNames DEF Posix!OpenClient, Posix!MayStart, Talking, Quiet
<1>4. PICK s \in Server : Posix!OpenServer(s)
  BY <1>2, <1>3 DEF Posix!Next
<1>5. /\ name' = s /\ queue' = [queue EXCEPT ![s] = s] /\ pc' = [pc EXCEPT ![s] = "receive"]
      /\ UNCHANGED <<got, held, waiting>>
  BY <1>4 DEF Posix!OpenServer, Posix!Goes, NoTalk
<1>6. ServerAlone(s, "receive", <<>>)'
  BY <1>1, <1>5, PosixNames DEF ServerAlone, Quiet, Standing, NoTalk, PosixInv, PosixTyped
<1>7. Heard' /\ (got \in [Posix!Process -> Posix!Process \cup {NoQueue}])'
  BY <1>5 DEF Heard, Talking
<1> QED BY <1>6, <1>7 DEF Goals, Stage, Before

LEMMA ServerReceives ==
  ASSUME Talking, NEW s \in Server, ServerAlone(s, "receive", <<>>), Posix!Next
  PROVE  Goals'
<1>1. /\ PosixInv /\ s \in Posix!Process /\ pc[s] = "receive" /\ queue[s] = s /\ name = s
      /\ Standing(s, <<>>, <<>>) /\ Quiet({s}) /\ DOMAIN pc = Posix!Process
  BY PosixNames DEF Talking, ServerAlone, PosixInv, PosixTyped
<1>2. Posix!Runs(s)
  <2>1. PICK p \in Posix!Process : Posix!Runs(p)
    BY <1>1, NobodyStarts DEF Posix!Next, Talking
  <2>2. p = s
    BY <1>1, <2>1, WhoRuns
  <2> QED BY <2>1, <2>2
<1>3. Posix!Receive(s)
  BY <1>1, <1>2 DEF Posix!Runs, Posix!Send, Posix!Unlink
<1>4. /\ Standing(s, <<s>>, <<>>)' /\ UNCHANGED <<got, queue, name>>
      /\ pc' = [pc EXCEPT ![s] = "wait"]
  BY <1>1, <1>3, ReceiveWaits
<1>5. ServerAlone(s, "wait", <<s>>)'
  BY <1>1, <1>4 DEF ServerAlone, Quiet
<1>6. Heard' /\ (got \in [Posix!Process -> Posix!Process \cup {NoQueue}])'
  BY <1>4 DEF Heard, Talking
<1> QED BY <1>5, <1>6 DEF Goals, Stage, Before

LEMMA ClientComes ==
  ASSUME Talking, NEW s \in Server, ServerAlone(s, "wait", <<s>>), Posix!Next
  PROVE  Goals'
<1>1. /\ PosixInv /\ s \in Posix!Process /\ pc[s] = "wait" /\ queue[s] = s /\ name = s
      /\ Standing(s, <<s>>, <<>>) /\ Quiet({s}) /\ DOMAIN pc = Posix!Process
      /\ DOMAIN queue = Posix!Process
  BY PosixNames DEF Talking, ServerAlone, PosixInv, PosixTyped
<1>2. ~ \E p \in Posix!Process : Posix!Runs(p)
  <2>1. ~Posix!Runs(s)
    BY <1>1 DEF Posix!Runs, Posix!Send, Posix!Receive, Posix!Unlink
  <2> QED BY <1>1, <2>1, WhoRuns
<1>3. PICK c \in Client : Posix!OpenClient(c)
  BY <1>1, <1>2, NoServerStarts DEF Posix!Next, Talking
<1>4. /\ c \in Posix!Process /\ c # s /\ s # NoQueue
      /\ queue' = [queue EXCEPT ![c] = s] /\ pc' = [pc EXCEPT ![c] = "send"]
      /\ UNCHANGED <<got, name, held, waiting>>
  BY <1>1, <1>3, PosixNames DEF Posix!OpenClient, Posix!Goes
<1>5. BothTalk(s, c, "wait", "send", <<s>>, <<>>)'
  BY <1>1, <1>4 DEF BothTalk, Quiet, Standing
<1>6. Heard' /\ (got \in [Posix!Process -> Posix!Process \cup {NoQueue}])'
  BY <1>4 DEF Heard, Talking
<1> QED BY <1>5, <1>6 DEF Goals, Stage, During

LEMMA ClientSends ==
  ASSUME Talking, NEW s \in Server, NEW c \in Client,
         BothTalk(s, c, "wait", "send", <<s>>, <<>>), Posix!Next
  PROVE  Goals'
<1>1. /\ PosixInv /\ s \in Posix!Process /\ c \in Posix!Process /\ c # s /\ pc[s] = "wait"
      /\ pc[c] = "send"
      /\ queue[s] = s /\ queue[c] = s /\ name = s
      /\ Standing(s, <<s>>, <<>>) /\ Quiet({s, c}) /\ DOMAIN pc = Posix!Process
  BY PosixNames DEF Talking, BothTalk, PosixInv, PosixTyped
<1>2. Posix!Send(c)
  <2>1. PICK p \in Posix!Process : Posix!Runs(p)
    BY <1>1, NobodyStarts DEF Posix!Next, Talking
  <2>2. p \in {s, c}
    BY <1>1, <2>1, WhoRuns
  <2>3. p = c
    BY <1>1, <2>1, <2>2 DEF Posix!Runs, Posix!Send, Posix!Receive, Posix!Unlink
  <2> QED BY <1>1, <2>1, <2>3 DEF Posix!Runs, Posix!Receive, Posix!Unlink
<1>3. /\ got' = [got EXCEPT ![s] = c] /\ Standing(s, <<>>, <<>>)' /\ UNCHANGED <<queue, name>>
      /\ pc' = [pc EXCEPT ![c] = "receive", ![s] = "send"]
  <2>1. /\ got' = [got EXCEPT ![s] = c] /\ Standing(s, <<>>, <<>>)' /\ UNCHANGED <<queue, name>>
        /\ pc' = [pc EXCEPT ![c] = Posix!AfterSend(c), ![s] = Posix!AfterReceive(s)]
    BY <1>1, <1>2, SendGives
  <2> QED BY <2>1, PosixNames
<1>4. BothTalk(s, c, "send", "receive", <<>>, <<>>)'
  BY <1>1, <1>3 DEF BothTalk, Quiet
<1>5. Heard' /\ (got \in [Posix!Process -> Posix!Process \cup {NoQueue}])'
  BY <1>1, <1>3, PosixNames DEF Heard, Talking
<1> QED BY <1>4, <1>5 DEF Goals, Stage, During

LEMMA ServerOrClient ==
  ASSUME Talking, NEW s \in Server, NEW c \in Client,
         BothTalk(s, c, "send", "receive", <<>>, <<>>), Posix!Next
  PROVE  Goals'
<1>1. /\ PosixInv /\ s \in Posix!Process /\ c \in Posix!Process /\ c # s /\ pc[s] = "send"
      /\ pc[c] = "receive"
      /\ queue[s] = s /\ queue[c] = s /\ name = s
      /\ Standing(s, <<>>, <<>>) /\ Quiet({s, c}) /\ DOMAIN pc = Posix!Process
  BY PosixNames DEF Talking, BothTalk, PosixInv, PosixTyped
<1>2. Posix!Send(s) \/ Posix!Receive(c)
  <2>1. PICK p \in Posix!Process : Posix!Runs(p)
    BY <1>1, NobodyStarts DEF Posix!Next, Talking
  <2>2. p \in {s, c}
    BY <1>1, <2>1, WhoRuns
  <2> QED BY <1>1, <2>1, <2>2 DEF Posix!Runs, Posix!Send, Posix!Receive, Posix!Unlink
<1>3. CASE Posix!Send(s)
  <2>1. /\ Standing(s, <<>>, <<s>>)' /\ UNCHANGED <<got, queue, name>>
        /\ pc' = [pc EXCEPT ![s] = "unlink"]
    BY <1>1, <1>3, PosixNames, SendKeeps
  <2>2. BothTalk(s, c, "unlink", "receive", <<>>, <<s>>)'
    BY <1>1, <2>1 DEF BothTalk, Quiet
  <2>3. Heard' /\ (got \in [Posix!Process -> Posix!Process \cup {NoQueue}])'
    BY <2>1 DEF Heard, Talking
  <2> QED BY <2>2, <2>3 DEF Goals, Stage, During
<1>4. CASE Posix!Receive(c)
  <2>1. /\ Standing(s, <<c>>, <<>>)' /\ UNCHANGED <<got, queue, name>>
        /\ pc' = [pc EXCEPT ![c] = "wait"]
    BY <1>1, <1>4, ReceiveWaits
  <2>2. BothTalk(s, c, "send", "wait", <<c>>, <<>>)'
    BY <1>1, <2>1 DEF BothTalk, Quiet
  <2>3. Heard' /\ (got \in [Posix!Process -> Posix!Process \cup {NoQueue}])'
    BY <2>1 DEF Heard, Talking
  <2> QED BY <2>2, <2>3 DEF Goals, Stage, During
<1> QED BY <1>2, <1>3, <1>4

LEMMA ServerAnswers ==
  ASSUME Talking, NEW s \in Server, NEW c \in Client,
         BothTalk(s, c, "send", "wait", <<c>>, <<>>), Posix!Next
  PROVE  Goals'
<1>1. /\ PosixInv /\ s \in Posix!Process /\ c \in Posix!Process /\ c # s /\ pc[s] = "send"
      /\ pc[c] = "wait"
      /\ queue[s] = s /\ queue[c] = s /\ name = s
      /\ Standing(s, <<c>>, <<>>) /\ Quiet({s, c}) /\ DOMAIN pc = Posix!Process
  BY PosixNames DEF Talking, BothTalk, PosixInv, PosixTyped
<1>2. Posix!Send(s)
  <2>1. PICK p \in Posix!Process : Posix!Runs(p)
    BY <1>1, NobodyStarts DEF Posix!Next, Talking
  <2>2. p \in {s, c}
    BY <1>1, <2>1, WhoRuns
  <2>3. p = s
    BY <1>1, <2>1, <2>2 DEF Posix!Runs, Posix!Send, Posix!Receive, Posix!Unlink
  <2> QED BY <1>1, <2>1, <2>3 DEF Posix!Runs, Posix!Receive, Posix!Unlink
<1>3. /\ got' = [got EXCEPT ![c] = s] /\ Standing(s, <<>>, <<>>)' /\ UNCHANGED <<queue, name>>
      /\ pc' = [pc EXCEPT ![s] = "unlink", ![c] = "done"]
  <2>1. /\ got' = [got EXCEPT ![c] = s] /\ Standing(s, <<>>, <<>>)' /\ UNCHANGED <<queue, name>>
        /\ pc' = [pc EXCEPT ![s] = Posix!AfterSend(s), ![c] = Posix!AfterReceive(c)]
    BY <1>1, <1>2, SendGives
  <2> QED BY <2>1, PosixNames
<1>4. ServerAlone(s, "unlink", <<>>)'
  BY <1>1, <1>3 DEF ServerAlone, Quiet
<1>5. Heard' /\ (got \in [Posix!Process -> Posix!Process \cup {NoQueue}])'
  BY <1>1, <1>3, PosixNames DEF Heard, Talking
<1> QED BY <1>4, <1>5 DEF Goals, Stage, After

LEMMA ServerOrClientEnds ==
  ASSUME Talking, NEW s \in Server, NEW c \in Client,
         BothTalk(s, c, "unlink", "receive", <<>>, <<s>>), Posix!Next
  PROVE  Goals'
<1>1. /\ PosixInv /\ s \in Posix!Process /\ c \in Posix!Process /\ c # s /\ pc[s] = "unlink"
      /\ pc[c] = "receive"
      /\ queue[s] = s /\ queue[c] = s /\ name = s
      /\ Standing(s, <<>>, <<s>>) /\ Quiet({s, c}) /\ DOMAIN pc = Posix!Process
  BY PosixNames DEF Talking, BothTalk, PosixInv, PosixTyped
<1>2. Posix!Unlink(s) \/ Posix!Receive(c)
  <2>1. PICK p \in Posix!Process : Posix!Runs(p)
    BY <1>1, NobodyStarts DEF Posix!Next, Talking
  <2>2. p \in {s, c}
    BY <1>1, <2>1, WhoRuns
  <2> QED BY <1>1, <2>1, <2>2 DEF Posix!Runs, Posix!Send, Posix!Receive, Posix!Unlink
<1>3. CASE Posix!Unlink(s)
  <2>1. /\ name' = NoQueue /\ UNCHANGED <<got, queue, held, waiting>>
        /\ pc' = [pc EXCEPT ![s] = "done"]
    BY <1>3 DEF Posix!Unlink, Posix!Goes
  <2>2. ClientAlone(s, c)'
    BY <1>1, <2>1 DEF ClientAlone, Quiet, Standing
  <2>3. Heard' /\ (got \in [Posix!Process -> Posix!Process \cup {NoQueue}])'
    BY <2>1 DEF Heard, Talking
  <2> QED BY <2>2, <2>3 DEF Goals, Stage
<1>4. CASE Posix!Receive(c)
  <2>1. /\ got' = [got EXCEPT ![c] = s] /\ Standing(s, <<>>, <<>>)' /\ UNCHANGED <<queue, name>>
        /\ pc' = [pc EXCEPT ![c] = "done"]
    BY <1>1, <1>4, PosixNames, ReceiveTakes
  <2>2. ServerAlone(s, "unlink", <<>>)'
    BY <1>1, <2>1 DEF ServerAlone, Quiet
  <2>3. Heard' /\ (got \in [Posix!Process -> Posix!Process \cup {NoQueue}])'
    BY <1>1, <2>1, PosixNames DEF Heard, Talking
  <2> QED BY <2>2, <2>3 DEF Goals, Stage, After
<1> QED BY <1>2, <1>3, <1>4

LEMMA ServerEnds == ASSUME Talking, NEW s \in Server, After(s), Posix!Next PROVE Goals'
<1>1. /\ PosixInv /\ s \in Posix!Process /\ pc[s] = "unlink" /\ Standing(s, <<>>, <<>>)
      /\ Quiet({s}) /\ DOMAIN pc = Posix!Process
  BY PosixNames DEF Talking, After, ServerAlone, PosixInv, PosixTyped
<1>2. Posix!Unlink(s)
  <2>1. PICK p \in Posix!Process : Posix!Runs(p)
    BY <1>1, NobodyStarts DEF Posix!Next, Talking
  <2>2. p = s
    BY <1>1, <2>1, WhoRuns
  <2> QED BY <1>1, <2>1, <2>2 DEF Posix!Runs, Posix!Send, Posix!Receive
<1>3. /\ name' = NoQueue /\ UNCHANGED <<got, queue, held, waiting>>
      /\ pc' = [pc EXCEPT ![s] = "done"]
  BY <1>2 DEF Posix!Unlink, Posix!Goes
<1>4. NoTalk'
  BY <1>1, <1>3 DEF NoTalk, Quiet, Standing
<1>5. Heard' /\ (got \in [Posix!Process -> Posix!Process \cup {NoQueue}])'
  BY <1>3 DEF Heard, Talking
<1> QED BY <1>4, <1>5 DEF Goals, Stage

LEMMA ClientEnds ==
  ASSUME Talking, NEW s \in Server, NEW c \in Client, ClientAlone(s, c), Posix!Next
  PROVE  Goals'
<1>1. /\ PosixInv /\ c \in Posix!Process /\ s \in Posix!Process /\ pc[c] = "receive" /\ queue[c] = s
      /\ name = NoQueue /\ Standing(s, <<>>, <<s>>) /\ Quiet({c}) /\ DOMAIN pc = Posix!Process
  BY PosixNames DEF Talking, ClientAlone, PosixInv, PosixTyped
<1>2. Posix!Receive(c)
  <2>1. PICK p \in Posix!Process : Posix!Runs(p)
    BY <1>1, NobodyStarts DEF Posix!Next, Talking
  <2>2. p = c
    BY <1>1, <2>1, WhoRuns
  <2> QED BY <1>1, <2>1, <2>2 DEF Posix!Runs, Posix!Send, Posix!Unlink
<1>3. /\ got' = [got EXCEPT ![c] = s] /\ Standing(s, <<>>, <<>>)' /\ UNCHANGED <<queue, name>>
      /\ pc' = [pc EXCEPT ![c] = "done"]
  BY <1>1, <1>2, PosixNames, ReceiveTakes
<1>4. NoTalk'
  BY <1>1, <1>3 DEF NoTalk, Quiet, Standing
<1>5. Heard' /\ (got \in [Posix!Process -> Posix!Process \cup {NoQueue}])'
  BY <1>1, <1>3, PosixNames DEF Heard, Talking
<1> QED BY <1>4, <1>5 DEF Goals, Stage

LEMMA TalkInit == Posix!Init => TalkInv
<1> SUFFICES ASSUME Posix!Init PROVE TalkInv
  OBVIOUS
<1>1. NoTalk /\ Heard /\ got \in [Posix!Process -> Posix!Process \cup {NoQueue}]
  BY PosixNames DEF Posix!Init, NoTalk, Heard, Quiet
<1> QED BY <1>1 DEF TalkInv, Stage

(* When anybody may start, only the type of got is claimed.                 *)
LEMMA TalkNext == PosixInv /\ TalkInv /\ [Posix!Next]_(Posix!vars) => TalkInv'
<1> SUFFICES ASSUME PosixInv, TalkInv, [Posix!Next]_(Posix!vars) PROVE TalkInv'
  OBVIOUS
<1>1. CASE UNCHANGED Posix!vars
  <2>1. UNCHANGED <<pc, queue, got, name, held, waiting, oneByOne>>
    BY <1>1 DEF Posix!vars
  <2> QED BY <2>1 DEF TalkInv, Stage, Heard, NoTalk, Before, During, After, ServerAlone, BothTalk,
                      ClientAlone, Quiet, Standing
<1>2. CASE Posix!Next /\ oneByOne
  <2>1. oneByOne' = oneByOne
    BY <1>2 DEF Posix!Next, Posix!Runs, Posix!Send, Posix!Receive, Posix!Unlink,
                Posix!OpenServer, Posix!OpenClient
  <2>2. Talking /\ Stage
    BY <1>2 DEF Talking, TalkInv
  <2>3. Goals'
    BY <1>2, <2>2, TalkBegins, ServerReceives, ClientComes, ClientSends, ServerOrClient,
       ServerAnswers, ServerOrClientEnds, ServerEnds, ClientEnds DEF Stage, Before, During
  <2> QED BY <2>3 DEF Goals, TalkInv
<1>3. CASE Posix!Next /\ ~oneByOne
  <2>1. oneByOne' = oneByOne
    BY <1>3 DEF Posix!Next, Posix!Runs, Posix!Send, Posix!Receive, Posix!Unlink,
                Posix!OpenServer, Posix!OpenClient
  <2>2. got' \in [Posix!Process -> Posix!Process \cup {NoQueue}]
    <3>1. \A q \in Posix!Queue : waiting[q] \in Seq(Posix!Process) /\ held[q] \in Seq(Posix!Process)
      BY DEF PosixInv, PosixTyped
    <3>2. ASSUME NEW p \in Posix!Process, Posix!Send(p)
          PROVE  got' \in [Posix!Process -> Posix!Process \cup {NoQueue}]
      BY <3>1, <3>2 DEF Posix!Send, Posix!mq_send, TalkInv, PosixInv, PosixTyped
    <3>3. ASSUME NEW p \in Posix!Process, Posix!Receive(p)
          PROVE  got' \in [Posix!Process -> Posix!Process \cup {NoQueue}]
      <4>1. queue[p] \in Posix!Queue
        BY <3>3 DEF Posix!Receive, PosixInv, PosixTyped
      <4>2. held[queue[p]] # <<>> => Head(held[queue[p]]) \in Posix!Process
        BY <3>1, <4>1
      <4> QED BY <3>3, <4>2 DEF Posix!Receive, Posix!mq_receive, TalkInv
    <3> QED BY <1>3, <3>2, <3>3 DEF Posix!Next, Posix!Runs, Posix!Unlink, Posix!OpenServer,
                                    Posix!OpenClient, TalkInv
  <2> QED BY <1>3, <2>1, <2>2 DEF TalkInv
<1> QED BY <1>1, <1>2, <1>3

LEMMA TalkSafe == TalkInv => Posix!OthersHeard
BY DEF TalkInv, Posix!OthersHeard, Heard

LEMMA PosixSteps == [Next]_vars => [Posix!Next]_(Posix!vars)
BY DEF Next, vars, PipeRuns, PosixRuns, MagazRuns, TcpRuns, UdpRuns, CountRuns, AloneRuns,
       posixVars, Posix!vars

(* ex16/p1: however many servers and clients are started whenever, on each  *)
(* queue the words in it and the servers that owe one make up for the       *)
(* clients that have given theirs and taken none.                           *)
THEOREM WordsBalance == Spec => []WordsBalanced
<1>1. Init => PosixInv
  BY PosixInit DEF Init
<1>2. PosixInv /\ [Next]_vars => PosixInv'
  BY PosixNext, PosixSteps
<1>3. PosixInv => WordsBalanced
  BY DEF PosixInv, WordsBalanced
<1> QED BY <1>1, <1>2, <1>3, PTL DEF Spec

(* ex16/p1: in talks one by one the server takes a client's word and the    *)
(* client a server's, never its own, though both read from the queue they   *)
(* write to; with as many of either as there are.                           *)
THEOREM EachHearsOther == Spec => []OthersHeard
<1>1. Init => PosixInv /\ TalkInv
  BY PosixInit, TalkInit DEF Init
<1>2. PosixInv /\ TalkInv /\ [Next]_vars => (PosixInv /\ TalkInv)'
  BY PosixNext, TalkNext, PosixSteps
<1>3. TalkInv => OthersHeard
  BY TalkSafe DEF OthersHeard
<1> QED BY <1>1, <1>2, <1>3, PTL DEF Spec

-----------------------------------------------------------------------------
(* streams.c.  A thread past its first addition has left one at least, and  *)
(* what it reads after that is one at least: so whoever adds last, which is *)
(* not its first addition, leaves two.                                      *)

(* What has been added to is not zero, nor what is read after that.         *)
OneLeft ==
  /\ (\E t \in Thread : turns[t] > 0) => total > 0
  /\ \A t \in Thread : tpc[t] = "write" /\ turns[t] > 0 => copy[t] > 0

(* A thread that is not done has still to add.                              *)
Unfinished == \A t \in Thread : tpc[t] # "done" => turns[t] < Times

CountInv == Count!TypeOK /\ OneLeft /\ Unfinished /\ Count!AtLeastTwo

LEMMA CountInitial == Count!CounterAssumption /\ Count!Init => CountInv
BY DEF Count!CounterAssumption, Count!Init, CountInv, Count!TypeOK, OneLeft, Unfinished,
       Count!AtLeastTwo

LEMMA CreateKeeps ==
  ASSUME CountInv, NEW t \in Thread, Count!Create(t)
  PROVE  CountInv'
BY DEF Count!Create, CountInv, Count!TypeOK, OneLeft, Unfinished, Count!AtLeastTwo

LEMMA ReadKeeps ==
  ASSUME CountInv, NEW t \in Thread, Count!Read(t)
  PROVE  CountInv'
BY DEF Count!Read, CountInv, Count!TypeOK, OneLeft, Unfinished, Count!AtLeastTwo

LEMMA WriteKeeps ==
  ASSUME Count!CounterAssumption, CountInv, NEW t \in Thread, Count!Write(t)
  PROVE  CountInv'
<1> USE DEF Count!CounterAssumption, CountInv, Count!TypeOK
<1>0. turns[t] < Times
  BY DEF Unfinished, Count!Write
<1>1. Count!TypeOK'
  BY <1>0 DEF Count!Write
<1>2. total' > 0
  BY DEF Count!Write
<1>3. OneLeft'
  BY <1>2 DEF Count!Write, OneLeft
<1>4. Count!AtLeastTwo'
  <2> SUFFICES ASSUME Times > 1, \A u \in Thread : tpc'[u] = "done" PROVE total' >= 2
    BY DEF Count!AtLeastTwo
  <2>1. turns[t] + 1 = Times
    BY DEF Count!Write
  <2>2. copy[t] > 0
    BY <2>1 DEF Count!Write, OneLeft
  <2> QED BY <2>2 DEF Count!Write
<1>5. Unfinished'
  BY <1>0 DEF Count!Write, Unfinished
<1> QED BY <1>1, <1>3, <1>4, <1>5

LEMMA CountInductive ==
  Count!CounterAssumption /\ CountInv /\ [Count!Next]_(Count!vars) => CountInv'
<1> SUFFICES ASSUME Count!CounterAssumption, CountInv, [Count!Next]_(Count!vars) PROVE CountInv'
  OBVIOUS
<1>1. CASE UNCHANGED Count!vars
  BY <1>1 DEF Count!vars, CountInv, Count!TypeOK, OneLeft, Unfinished, Count!AtLeastTwo
<1>2. CASE Count!Next
  BY <1>2, CreateKeeps, ReadKeeps, WriteKeeps DEF Count!Next
<1> QED BY <1>1, <1>2

LEMMA CountSteps == [Next]_vars => [Count!Next]_(Count!vars)
BY DEF Next, PipeRuns, PosixRuns, MagazRuns, TcpRuns, UdpRuns, CountRuns, AloneRuns,
       vars, countVars, Count!vars

(* streams.c: however the threads interleave, the variable is two or more   *)
(* when all are done, if each adds more than once.                          *)
THEOREM TwoAreLeft == Spec => []AtLeastTwo
<1>1. Init => CountInv
  BY ExercisesAssumption, CountInitial DEF Init
<1>2. CountInv /\ [Next]_vars => CountInv'
  BY ExercisesAssumption, CountInductive, CountSteps
<1>3. CountInv => AtLeastTwo
  BY DEF CountInv, AtLeastTwo
<1> QED BY <1>1, <1>2, <1>3, PTL DEF Spec

-----------------------------------------------------------------------------
(* ex18/p1.  The server comes to its test of cexit with a datagram in hand, *)
(* or after a SIGINT has ended its wait; only in the first case can the     *)
(* test let it pass to the send.  So what is in hand must be counted from   *)
(* the receive on, as long as no SIGINT has come.                           *)

InHand(c) ==
  IF from = c /\ (upc = "send" \/ (upc = "check" /\ ~stop)) THEN 1 ELSE 0

Balance == \A c \in Talker : echoes[c] + queued[c] + InHand(c) <= sent[c]

UdpInv == Udp!TypeOK /\ Balance

LEMMA UdpInitial == ASSUME Udp!UdpAssumption PROVE Udp!Init => UdpInv
<1> SUFFICES ASSUME Udp!UdpAssumption, Udp!Init PROVE UdpInv
  OBVIOUS
<1>1. stop \in BOOLEAN
  BY Zenon DEF Udp!Init
<1>2. /\ sent = [c \in Talker |-> 0] /\ queued = [c \in Talker |-> 0]
      /\ echoes = [c \in Talker |-> 0] /\ 0 \in 0..MaxSent
  BY DEF Udp!Init, Udp!UdpAssumption
<1>3. Udp!TypeOK
  BY <1>1, <1>2 DEF Udp!Init, Udp!TypeOK
<1>4. Balance
  <2>1. upc = "off"
    BY DEF Udp!Init
  <2> SUFFICES ASSUME NEW c \in Talker PROVE echoes[c] + queued[c] + InHand(c) <= sent[c]
    BY DEF Balance
  <2>2. InHand(c) = 0
    BY <2>1, Zenon DEF InHand
  <2> QED BY <1>2, <2>2
<1> QED BY <1>3, <1>4 DEF UdpInv

LEMMA UdpTypeKept == ASSUME Udp!UdpAssumption PROVE UdpInv /\ [Udp!Next]_(Udp!vars) => Udp!TypeOK'
<1> SUFFICES ASSUME Udp!UdpAssumption, Udp!TypeOK, Balance, [Udp!Next]_(Udp!vars) PROVE Udp!TypeOK'
  BY DEF UdpInv
<1> USE DEF Udp!TypeOK, Udp!Goes, Udp!clientVars
<1>1. CASE Udp!Bind \/ Udp!Test \/ Udp!Check \/ Udp!Send \/ Udp!Interrupt
  <2>1. stop' \in BOOLEAN
    BY <1>1, Zenon DEF Udp!Bind, Udp!Test, Udp!Check, Udp!Send, Udp!Interrupt
  <2>2. upc' \in {"off", "test", "recv", "check", "send", "done"}
    BY <1>1 DEF Udp!Bind, Udp!Test, Udp!Check, Udp!Send, Udp!Interrupt
  <2>3. echoes' \in [Talker -> Nat]
    BY <1>1 DEF Udp!Bind, Udp!Test, Udp!Check, Udp!Send, Udp!Interrupt
  <2>4. UNCHANGED <<from, sender, sent, queued>>
    BY <1>1, Zenon DEF Udp!Bind, Udp!Test, Udp!Check, Udp!Send, Udp!Interrupt
  <2> QED BY <2>1, <2>2, <2>3, <2>4
<1>2. ASSUME NEW c \in Talker, Udp!Receive(c) PROVE Udp!TypeOK'
  <2>1. queued[c] - 1 \in 0..MaxSent
    BY <1>2 DEF Udp!Receive, Udp!UdpAssumption
  <2> QED BY <1>2, <2>1 DEF Udp!Receive
<1>3. ASSUME NEW c \in Talker, Udp!ClientSends(c) PROVE Udp!TypeOK'
  <2>1. echoes[c] \in Nat /\ queued[c] \in Nat /\ InHand(c) \in Nat /\ sent[c] < MaxSent
    BY <1>3 DEF Udp!ClientSends, InHand
  <2>2. queued[c] <= sent[c] /\ sent[c] \in Nat /\ MaxSent \in Nat
    BY <2>1 DEF Balance, Udp!UdpAssumption
  <2>3. sent[c] + 1 \in 0..MaxSent /\ queued[c] + 1 \in 0..MaxSent
    BY <2>1, <2>2
  <2> QED BY <1>3, <2>3 DEF Udp!ClientSends
<1>4. ASSUME NEW c \in Talker, Udp!ClientEnds(c) PROVE Udp!TypeOK'
  BY <1>4 DEF Udp!ClientEnds
<1>5. CASE UNCHANGED Udp!vars
  BY <1>5 DEF Udp!vars
<1> QED BY <1>1, <1>2, <1>3, <1>4, <1>5 DEF Udp!Next

LEMMA BalanceKept == UdpInv /\ [Udp!Next]_(Udp!vars) => Balance'
<1> SUFFICES ASSUME Udp!TypeOK, Balance, [Udp!Next]_(Udp!vars), NEW c \in Talker
             PROVE  (echoes[c] + queued[c] + InHand(c) <= sent[c])'
  BY DEF UdpInv, Balance
<1>0. /\ echoes[c] + queued[c] + InHand(c) <= sent[c]
      /\ echoes[c] \in Nat /\ queued[c] \in Nat /\ sent[c] \in Nat
  BY DEF Balance, Udp!TypeOK
<1> USE <1>0 DEF Udp!TypeOK, InHand, Udp!Goes, Udp!clientVars
<1>1. CASE Udp!Bind \/ Udp!Test \/ Udp!Check \/ Udp!Interrupt
  BY <1>1 DEF Udp!Bind, Udp!Test, Udp!Check, Udp!Interrupt
<1>2. CASE Udp!Send
  BY <1>2 DEF Udp!Send
<1>3. ASSUME NEW d \in Talker, Udp!Receive(d)
      PROVE  (echoes[c] + queued[c] + InHand(c) <= sent[c])'
  BY <1>3 DEF Udp!Receive
<1>4. ASSUME NEW d \in Talker, Udp!ClientSends(d) \/ Udp!ClientEnds(d)
      PROVE  (echoes[c] + queued[c] + InHand(c) <= sent[c])'
  BY <1>4 DEF Udp!ClientSends, Udp!ClientEnds
<1>5. CASE UNCHANGED Udp!vars
  BY <1>5 DEF Udp!vars
<1> QED BY <1>1, <1>2, <1>3, <1>4, <1>5 DEF Udp!Next

LEMMA UdpSteps == [Next]_vars => [Udp!Next]_(Udp!vars)
BY DEF Next, PipeRuns, PosixRuns, MagazRuns, TcpRuns, UdpRuns, CountRuns, AloneRuns,
       vars, udpVars, Udp!vars, Udp!clientVars

(* ex18/p1: whenever SIGINT comes, no datagram is sent back twice.          *)
THEOREM OneEchoEach == Spec => []NoSecondEcho
<1>1. Init => UdpInv
  BY ExercisesAssumption, UdpInitial DEF Init
<1>2. UdpInv /\ [Next]_vars => UdpInv'
  BY ExercisesAssumption, UdpTypeKept, BalanceKept, UdpSteps DEF UdpInv
<1>3. UdpInv => NoSecondEcho
  <2> SUFFICES ASSUME Udp!TypeOK, Balance, NEW c \in Talker
               PROVE  echoes[c] + queued[c]
                        + (IF upc = "send" /\ from = c THEN 1 ELSE 0) <= sent[c]
    BY DEF UdpInv, NoSecondEcho, Udp!NoSecondEcho
  <2> QED BY DEF Udp!TypeOK, Balance, InHand
<1> QED BY <1>1, <1>2, <1>3, PTL DEF Spec

-----------------------------------------------------------------------------
(* ex18/p2.  Nobody puts more on the way than fits there, nor sends more of *)
(* a message than is left of it.                                            *)

LEMMA TcpInitial == Tcp!Init => Tcp!TypeOK
BY ExercisesAssumption DEF Tcp!Init, Tcp!TypeOK, Tcp!TcpAssumption, Tcp!Link

LEMMA EndsTyped ==
  ASSUME Tcp!TypeOK
  PROVE  /\ Tcp!ServerEnds => Tcp!TypeOK'
         /\ \A c \in Talker : Tcp!ClientEnds(c) => Tcp!TypeOK'
<1>1. ASSUME Tcp!ServerEnds PROVE Tcp!TypeOK'
  <2>1. link' \in [Talker -> Tcp!Link]
    BY <1>1 DEF Tcp!ServerEnds, Tcp!TypeOK, Tcp!Link
  <2> QED BY <1>1, <2>1 DEF Tcp!ServerEnds, Tcp!ServerGoes, Tcp!streams, Tcp!TypeOK
<1>2. ASSUME NEW c \in Talker, Tcp!ClientEnds(c) PROVE Tcp!TypeOK'
  BY <1>2 DEF Tcp!ClientEnds, Tcp!ClientGoes, Tcp!streams, Tcp!TypeOK, Tcp!Link
<1> QED BY <1>1, <1>2

LEMMA ServerTyped ==
  ASSUME Tcp!TypeOK, Tcp!Listen \/ Tcp!AcceptFails \/ Tcp!ServerRuns \/ Tcp!InterruptServer
  PROVE  Tcp!TypeOK'
<1>1. /\ MSGLEN \in Nat \ {0} /\ Room \in Nat \ {0} /\ Echo \in Talker \cup {Echo}
      /\ Tcp!Conn # "none" => fd \in Talker
  BY ExercisesAssumption DEF Tcp!TcpAssumption, Tcp!Conn, Tcp!TypeOK
<1>2. CASE Tcp!Listen \/ Tcp!AcceptFails
  BY <1>2 DEF Tcp!Listen, Tcp!AcceptFails, Tcp!ServerGoes, Tcp!streams, Tcp!TypeOK
<1>3. ASSUME NEW c \in Talker, Tcp!Accept(c) PROVE Tcp!TypeOK'
  BY <1>3 DEF Tcp!Accept, Tcp!ServerGoes, Tcp!streams, Tcp!TypeOK
<1>4. CASE Tcp!ServerTest
  BY <1>4, EndsTyped DEF Tcp!ServerTest, Tcp!ServerGoes, Tcp!streams, Tcp!TypeOK
<1>5. CASE Tcp!Recv
  <2>1. up' \in [Talker -> 0..Room]
    BY <1>1, <1>5 DEF Tcp!Recv, Tcp!TypeOK
  <2>2. link' \in [Talker -> Tcp!Link]
    BY <1>5 DEF Tcp!Recv, Tcp!TypeOK, Tcp!Link
  <2> QED BY <1>5, <2>1, <2>2 DEF Tcp!Recv, Tcp!ServerGoes, Tcp!TypeOK
<1>6. CASE Tcp!ServerCheck
  BY <1>1, <1>6, EndsTyped DEF Tcp!ServerCheck, Tcp!ServerGoes, Tcp!TypeOK
<1>7. CASE Tcp!Send
  <2>1. CASE Tcp!Conn = "none"
    BY <1>7, <2>1 DEF Tcp!Send, Tcp!ServerGoes, Tcp!TypeOK
  <2>2. CASE Tcp!Conn = "up"
    <3>1. PICK n \in 1..left[Echo] :
            /\ down[fd] + n <= Room
            /\ down' = [down EXCEPT ![fd] = @ + n] /\ left' = [left EXCEPT ![Echo] = @ - n]
            /\ Tcp!ServerGoes(IF left[Echo] = n THEN "test" ELSE "send")
            /\ UNCHANGED <<client, cexit, fd, link, up>>
      BY <1>7, <2>2 DEF Tcp!Send
    <3>2. down' \in [Talker -> 0..Room] /\ left' \in [Talker \cup {Echo} -> 0..MSGLEN]
      BY <1>1, <2>2, <3>1 DEF Tcp!TypeOK
    <3> QED BY <3>1, <3>2 DEF Tcp!ServerGoes, Tcp!TypeOK
  <2>3. CASE Tcp!Conn \in {"closed", "reset"}
    BY <1>1, <1>7, <2>3 DEF Tcp!Send, Tcp!ServerGoes, Tcp!TypeOK, Tcp!Link
  <2> QED BY <1>7, <2>1, <2>2, <2>3 DEF Tcp!Send
<1>8. CASE Tcp!SigpipeServer
  BY <1>8, EndsTyped DEF Tcp!SigpipeServer
<1>9. CASE Tcp!InterruptServer
  BY <1>9 DEF Tcp!InterruptServer, Tcp!ServerGoes, Tcp!streams, Tcp!TypeOK
<1> QED BY <1>2, <1>3, <1>4, <1>5, <1>6, <1>7, <1>8, <1>9 DEF Tcp!ServerRuns

LEMMA ClientTyped ==
  ASSUME Tcp!TypeOK, NEW c \in Talker,
         Tcp!Connect(c) \/ Tcp!ClientRuns(c) \/ Tcp!InterruptClient(c) \/ Tcp!InterruptSend(c)
  PROVE  Tcp!TypeOK'
<1>1. MSGLEN \in Nat \ {0} /\ Room \in Nat \ {0} /\ c \in Talker \cup {Echo}
  BY ExercisesAssumption DEF Tcp!TcpAssumption
<1>2. CASE Tcp!Connect(c)
  BY <1>2 DEF Tcp!Connect, Tcp!ClientGoes, Tcp!streams, Tcp!TypeOK, Tcp!Link
<1>3. CASE Tcp!ClientTest(c)
  BY <1>1, <1>3, EndsTyped DEF Tcp!ClientTest, Tcp!ClientGoes, Tcp!TypeOK
<1>4. CASE Tcp!ClientSend(c)
  <2>1. CASE link[c] = "up"
    <3>1. PICK n \in 1..left[c] :
            /\ up[c] + n <= Room
            /\ up' = [up EXCEPT ![c] = @ + n] /\ left' = [left EXCEPT ![c] = @ - n]
            /\ Tcp!ClientGoes(c, IF left[c] = n THEN "sleep" ELSE "send")
            /\ UNCHANGED <<spc, cexit, fd, link, down>>
      BY <1>4, <2>1 DEF Tcp!ClientSend
    <3>2. up' \in [Talker -> 0..Room] /\ left' \in [Talker \cup {Echo} -> 0..MSGLEN]
      BY <1>1, <3>1 DEF Tcp!TypeOK
    <3> QED BY <3>1, <3>2 DEF Tcp!ClientGoes, Tcp!TypeOK
  <2>2. CASE link[c] = "gone"
    BY <1>4, <2>2 DEF Tcp!ClientSend, Tcp!ClientGoes, Tcp!TypeOK, Tcp!Link
  <2> QED BY <1>4, <2>1, <2>2 DEF Tcp!ClientSend
<1>5. CASE Tcp!SendFails(c)
  BY <1>5, EndsTyped DEF Tcp!SendFails, Tcp!ClientGoes, Tcp!streams, Tcp!TypeOK
<1>6. CASE Tcp!Sleep(c)
  BY <1>6 DEF Tcp!Sleep, Tcp!ClientGoes, Tcp!streams, Tcp!TypeOK
<1>7. CASE Tcp!InterruptClient(c)
  BY <1>1, <1>7 DEF Tcp!InterruptClient, Tcp!ClientGoes, Tcp!streams, Tcp!TypeOK
<1>8. CASE Tcp!InterruptSend(c)
  BY <1>8, EndsTyped DEF Tcp!InterruptSend
<1> QED BY <1>2, <1>3, <1>4, <1>5, <1>6, <1>7, <1>8 DEF Tcp!ClientRuns

LEMMA TcpNext == Tcp!TypeOK /\ [Tcp!Next]_(Tcp!vars) => Tcp!TypeOK'
<1> SUFFICES ASSUME Tcp!TypeOK, [Tcp!Next]_(Tcp!vars) PROVE Tcp!TypeOK'
  OBVIOUS
<1>1. CASE UNCHANGED Tcp!vars
  BY <1>1 DEF Tcp!vars, Tcp!TypeOK
<1> QED BY <1>1, ServerTyped, ClientTyped DEF Tcp!Next

LEMMA TcpSteps == [Next]_vars => [Tcp!Next]_(Tcp!vars)
BY DEF Next, vars, PipeRuns, PosixRuns, MagazRuns, TcpRuns, UdpRuns, CountRuns, AloneRuns,
       tcpVars, Tcp!vars

-----------------------------------------------------------------------------
(* ex14.  Additions to the count may be lost.  But what is stored is one    *)
(* more than what was loaded, and what was loaded is at most the number of  *)
(* buyers that had finished then, without the one that stores: so the count *)
(* never exceeds the buyers that have finished, and when it has reached     *)
(* all, all have.                                                           *)

(* What Warehouse calls by these names is what the library's facts are of.  *)
LEMMA MagazSets ==
  \A A : Magaz!Cardinality(A) = Cardinality(A) /\ (Magaz!IsFiniteSet(A) <=> IsFiniteSet(A))
BY DEF Magaz!Cardinality, Cardinality, Magaz!IsFiniteSet, IsFiniteSet

PC == {"test", "try", "buy", "empty", "leave", "load a", "store a", "read", "add", "done"}

AtShop == {"buy", "empty", "leave", "read", "add"}

Whereabouts ==
  /\ wpc \in [Magaz!Worker -> PC] /\ shop \in [Magaz!Worker -> 0..MAGNUM]
  /\ \A w \in Magaz!Worker : wpc[w] \in AtShop => shop[w] \in Magaz!Shop

Amounts ==
  /\ mag \in [Magaz!Shop -> Int] /\ val \in [Buyer -> Int]
  /\ reg \in [Magaz!Worker -> Int] /\ a \in Int

MagazPlaced == Whereabouts /\ Amounts

Done == {b \in Buyer : wpc[b] = "done"}

NeverAhead ==
  /\ a <= Cardinality(Done)
  /\ \A b \in Buyer : wpc[b] = "store a" => reg[b] <= Cardinality(Done)

(* Who is past its loop needs nothing.                                      *)
Satisfied == \A b \in Buyer : wpc[b] \in {"load a", "store a", "done"} => val[b] <= 0

MagazInv == MagazPlaced /\ NeverAhead /\ Satisfied /\ Magaz!LoaderOutlivesNeed

LEMMA DoneFinite ==
  ASSUME Magaz!WarehouseAssumption
  PROVE  /\ IsFiniteSet(Done) /\ Cardinality(Done) \in Nat
         /\ IsFiniteSet(Buyer) /\ Cardinality(Buyer) \in Nat
<1>1. IsFiniteSet(Buyer) /\ Done \subseteq Buyer
  BY MagazSets DEF Magaz!WarehouseAssumption, Done
<1>2. IsFiniteSet(Done)
  BY <1>1, FS_Subset
<1> QED BY <1>1, <1>2, FS_CardinalityType

LEMMA MagazInitial == ASSUME Magaz!WarehouseAssumption PROVE Magaz!Init => MagazInv
<1> SUFFICES ASSUME Magaz!WarehouseAssumption, Magaz!Init PROVE MagazInv
  OBVIOUS
<1>0. Stocks \subseteq Int /\ Needs \subseteq Int /\ 0 \in 0..MAGNUM
  BY DEF Magaz!WarehouseAssumption
<1>1. MagazPlaced
  <2>1. mag \in [Magaz!Shop -> Int] /\ val \in [Buyer -> Int]
    BY <1>0 DEF Magaz!Init
  <2>2. Amounts
    BY <2>1 DEF Magaz!Init, Amounts
  <2>3. Whereabouts
    BY <1>0 DEF Magaz!Init, Whereabouts, PC, AtShop
  <2> QED BY <2>2, <2>3 DEF MagazPlaced
<1>2. NeverAhead
  BY DoneFinite DEF Magaz!Init, NeverAhead, Magaz!Worker
<1>3. Satisfied
  BY DEF Magaz!Init, Satisfied, Magaz!Worker
<1>4. Magaz!LoaderOutlivesNeed
  BY DEF Magaz!Init, Magaz!LoaderOutlivesNeed, Magaz!Worker
<1> QED BY <1>1, <1>2, <1>3, <1>4 DEF MagazInv

(* A step in which nobody comes to its end, nor goes from it, nobody loads  *)
(* the count or stores it, and the loader does not end, keeps what is not   *)
(* about types.                                                             *)
LEMMA Steady ==
  ASSUME MagazInv, UNCHANGED <<val, a>>, NEW w \in Magaz!Worker,
         NEW p \in PC \ {"load a", "store a", "done"},
         wpc[w] # "done", wpc' = [wpc EXCEPT ![w] = p], \A b \in Buyer : b # w => reg'[b] = reg[b]
  PROVE  NeverAhead' /\ Satisfied' /\ Magaz!LoaderOutlivesNeed'
<1> USE DEF MagazInv, MagazPlaced, Whereabouts, Amounts, Magaz!Worker
<1>1. Done' = Done
  BY DEF Done
<1>2. NeverAhead'
  BY <1>1 DEF NeverAhead
<1>3. Satisfied'
  BY DEF Satisfied
<1>4. Magaz!LoaderOutlivesNeed'
  BY DEF Magaz!LoaderOutlivesNeed
<1> QED BY <1>2, <1>3, <1>4

(* A buyer that needs nothing more leaves the loop.                         *)
LEMMA FinishedKeeps ==
  ASSUME MagazInv, NEW b \in Buyer, Magaz!NextRound(b), ~(val[b] > 0)
  PROVE  NeverAhead' /\ Satisfied' /\ Magaz!LoaderOutlivesNeed'
<1> USE DEF MagazInv, MagazPlaced, Whereabouts, Amounts, Magaz!NextRound, Magaz!Goes
<1>0. b \in Magaz!Worker /\ Buyer \subseteq Magaz!Worker /\ Loader \in Magaz!Worker
  BY DEF Magaz!Worker
<1>1. \A c \in Buyer : wpc'[c] = IF c = b THEN "load a" ELSE wpc[c]
  BY <1>0
<1>2. Done' = Done
  BY <1>1 DEF Done
<1>3. NeverAhead'
  BY <1>1, <1>2 DEF NeverAhead
<1>4. Satisfied'
  <2> HIDE DEF MagazInv, MagazPlaced, Whereabouts, Amounts, Magaz!NextRound, Magaz!Goes
  <2>1. val \in [Buyer -> Int] /\ val' = val
    BY DEF MagazInv, MagazPlaced, Amounts, Magaz!NextRound
  <2>2. val[b] <= 0
    BY <2>1
  <2> QED BY <1>1, <2>1, <2>2 DEF Satisfied, MagazInv
<1>5. Magaz!LoaderOutlivesNeed'
  BY <1>0, <1>1 DEF Magaz!LoaderOutlivesNeed
<1> QED BY <1>3, <1>4, <1>5

(* A purchase changes the need of a buyer that is still in a shop.          *)
LEMMA BuyKeeps ==
  ASSUME MagazInv, NEW b \in Buyer, Magaz!Buy(b)
  PROVE  NeverAhead' /\ Satisfied' /\ Magaz!LoaderOutlivesNeed'
<1> USE DEF MagazInv, MagazPlaced, Whereabouts, Amounts, Magaz!Buy, Magaz!Goes
<1>0. b \in Magaz!Worker /\ Buyer \subseteq Magaz!Worker /\ Loader \in Magaz!Worker
  BY DEF Magaz!Worker
<1>1. \A c \in Buyer : wpc'[c] = IF c = b THEN "empty" ELSE wpc[c]
  BY <1>0
<1>2. \A c \in Buyer : c # b => val'[c] = val[c]
  OBVIOUS
<1>3. Done' = Done
  BY <1>1 DEF Done
<1>4. NeverAhead'
  BY <1>1, <1>3 DEF NeverAhead
<1>5. Satisfied'
  BY <1>1, <1>2 DEF Satisfied
<1>6. Magaz!LoaderOutlivesNeed'
  BY <1>0, <1>1 DEF Magaz!LoaderOutlivesNeed
<1> QED BY <1>4, <1>5, <1>6

LEMMA StillKeeps ==
  ASSUME MagazInv, UNCHANGED <<wpc, reg, val, a>>
  PROVE  NeverAhead' /\ Satisfied' /\ Magaz!LoaderOutlivesNeed'
BY DEF MagazInv, NeverAhead, Done, Satisfied, Magaz!LoaderOutlivesNeed

(* The places of the loops stay in their range: each kind of step on shop.  *)
LEMMA ShopMoves ==
  ASSUME Magaz!WarehouseAssumption, Whereabouts, NEW w \in Magaz!Worker, NEW p \in PC,
         NEW n \in 0..MAGNUM,
         wpc' = [wpc EXCEPT ![w] = p], shop' = [shop EXCEPT ![w] = n], p \notin AtShop
  PROVE  Whereabouts'
<1>1. wpc \in [Magaz!Worker -> PC] /\ shop \in [Magaz!Worker -> 0..MAGNUM]
  BY DEF Whereabouts
<1>2. wpc' \in [Magaz!Worker -> PC] /\ shop' \in [Magaz!Worker -> 0..MAGNUM]
  BY <1>1
<1>3. ASSUME NEW v \in Magaz!Worker, wpc'[v] \in AtShop PROVE shop'[v] \in Magaz!Shop
  <2>1. v # w /\ wpc[v] \in AtShop /\ shop'[v] = shop[v]
    BY <1>1, <1>3
  <2> QED BY <2>1 DEF Whereabouts
<1> QED BY <1>2, <1>3 DEF Whereabouts

LEMMA ShopStays ==
  ASSUME Whereabouts, NEW w \in Magaz!Worker, NEW p \in PC, wpc' = [wpc EXCEPT ![w] = p],
         UNCHANGED shop, p \in AtShop => shop[w] \in Magaz!Shop
  PROVE  Whereabouts'
<1>1. wpc \in [Magaz!Worker -> PC]
  BY DEF Whereabouts
<1>2. wpc' \in [Magaz!Worker -> PC]
  BY <1>1
<1>3. ASSUME NEW v \in Magaz!Worker, wpc'[v] \in AtShop PROVE shop'[v] \in Magaz!Shop
  <2>1. CASE v = w
    BY <1>1, <1>3, <2>1
  <2>2. CASE v # w
    <3>1. wpc[v] \in AtShop
      BY <1>1, <1>3, <2>2
    <3> QED BY <3>1 DEF Whereabouts
  <2> QED BY <2>1, <2>2
<1> QED BY <1>2, <1>3 DEF Whereabouts

LEMMA TrylockPlaces ==
  ASSUME Magaz!WarehouseAssumption, Whereabouts, NEW w \in Magaz!Worker,
         NEW p \in PC, wpc[w] = "try",
         shop[w] < MAGNUM, Magaz!Trylock(w, p)
  PROVE  Whereabouts'
<1>1. shop[w] \in 0..MAGNUM /\ MAGNUM \in Nat
  BY DEF Whereabouts, Magaz!WarehouseAssumption
<1>2. shop[w] \in Magaz!Shop /\ shop[w] + 1 \in 0..MAGNUM
  BY <1>1 DEF Magaz!Shop
<1>3. CASE foo_mutex[shop[w]] = Free
  BY <1>2, <1>3, ShopStays DEF Magaz!Trylock, Magaz!Goes
<1>4. CASE foo_mutex[shop[w]] # Free
  <2>1. wpc' = wpc /\ shop' = [shop EXCEPT ![w] = shop[w] + 1]
    BY <1>4 DEF Magaz!Trylock
  <2>2. wpc \in [Magaz!Worker -> PC]
    BY DEF Whereabouts
  <2>3. wpc' = [wpc EXCEPT ![w] = "try"]
    BY <2>1, <2>2
  <2> QED BY <1>2, <2>1, <2>3, ShopMoves DEF PC, AtShop
<1> QED BY <1>3, <1>4

LEMMA WhereaboutsKept ==
  ASSUME Magaz!WarehouseAssumption
  PROVE  MagazPlaced /\ [Magaz!Next]_(Magaz!vars) => Whereabouts'
<1> SUFFICES ASSUME Magaz!WarehouseAssumption, Whereabouts, [Magaz!Next]_(Magaz!vars)
             PROVE  Whereabouts'
  BY DEF MagazPlaced
<1>0. Loader \in Magaz!Worker /\ Buyer \subseteq Magaz!Worker /\ 0 \in 0..MAGNUM
  BY DEF Magaz!WarehouseAssumption, Magaz!Worker
<1>1. ASSUME NEW b \in Buyer, Magaz!BuyerRuns(b) PROVE Whereabouts'
  <2>1. CASE Magaz!NextRound(b)
    BY <1>0, <2>1, ShopMoves DEF Magaz!NextRound, Magaz!Goes, PC, AtShop
  <2>2. CASE Magaz!TryShop(b)
    BY <1>0, <2>2, TrylockPlaces DEF Magaz!TryShop, PC
  <2>3. CASE Magaz!Buy(b) \/ Magaz!Empty(b)
    <3>1. shop[b] \in Magaz!Shop
      BY <1>0, <2>3 DEF Whereabouts, AtShop, Magaz!Buy, Magaz!Empty
    <3> QED BY <1>0, <2>3, <3>1, ShopStays DEF Magaz!Buy, Magaz!Empty, Magaz!Goes, PC
  <2>4. CASE Magaz!NoShop(b) \/ Magaz!LeaveShop(b) \/ Magaz!LoadA(b) \/ Magaz!StoreA(b)
    BY <1>0, <2>4, ShopStays DEF Magaz!NoShop, Magaz!LeaveShop, Magaz!LoadA, Magaz!StoreA,
                                 Magaz!Goes, PC, AtShop
  <2> QED BY <1>1, <2>1, <2>2, <2>3, <2>4 DEF Magaz!BuyerRuns
<1>2. CASE Magaz!LoaderRuns
  <2>1. CASE Magaz!TestA
    BY <1>0, <2>1, ShopMoves DEF Magaz!TestA, Magaz!Goes, PC, AtShop
  <2>2. CASE Magaz!TryLoad
    BY <1>0, <2>2, TrylockPlaces DEF Magaz!TryLoad, PC
  <2>3. CASE Magaz!ReadShop \/ Magaz!AddLoad
    <3>1. shop[Loader] \in Magaz!Shop
      BY <1>0, <2>3 DEF Whereabouts, AtShop, Magaz!ReadShop, Magaz!AddLoad
    <3> QED BY <1>0, <2>3, <3>1, ShopStays DEF Magaz!ReadShop, Magaz!AddLoad, Magaz!Goes, PC
  <2>4. CASE Magaz!LoadRound
    BY <1>0, <2>4, ShopStays DEF Magaz!LoadRound, Magaz!Goes, PC, AtShop
  <2>5. CASE Magaz!LeaveLoaded
    <3>1. shop[Loader] \in Magaz!Shop
      BY <1>0, <2>5 DEF Whereabouts, AtShop, Magaz!LeaveLoaded
    <3>2. shop[Loader] + 1 \in 0..MAGNUM
      BY <3>1 DEF Magaz!Shop, Magaz!WarehouseAssumption
    <3> QED BY <1>0, <2>5, <3>2, ShopMoves DEF Magaz!LeaveLoaded, Magaz!Goes, PC, AtShop
  <2> QED BY <1>2, <2>1, <2>2, <2>3, <2>4, <2>5 DEF Magaz!LoaderRuns
<1>3. CASE UNCHANGED Magaz!vars
  BY <1>3 DEF Magaz!vars, Whereabouts
<1> QED BY <1>1, <1>2, <1>3 DEF Magaz!Next

LEMMA AmountsKept ==
  ASSUME Magaz!WarehouseAssumption
  PROVE  MagazPlaced /\ [Magaz!Next]_(Magaz!vars) => Amounts'
<1> SUFFICES ASSUME Magaz!WarehouseAssumption, Whereabouts, Amounts, [Magaz!Next]_(Magaz!vars)
             PROVE  Amounts'
  BY DEF MagazPlaced
<1>0. LoadSize \in Int /\ Loader \in Magaz!Worker /\ Buyer \subseteq Magaz!Worker
  BY DEF Magaz!WarehouseAssumption, Magaz!Worker
<1> USE <1>0 DEF Amounts
<1>1. ASSUME NEW b \in Buyer, Magaz!BuyerRuns(b) PROVE Amounts'
  <2>0. b \in Magaz!Worker
    OBVIOUS
  <2>1. CASE Magaz!NextRound(b) \/ Magaz!TryShop(b) \/ Magaz!NoShop(b) \/ Magaz!LeaveShop(b)
    BY <2>1 DEF Magaz!NextRound, Magaz!TryShop, Magaz!NoShop, Magaz!LeaveShop
  <2>2. CASE Magaz!Buy(b)
    <3>1. shop[b] \in Magaz!Shop
      BY <2>0, <2>2 DEF Magaz!Buy, Whereabouts, AtShop
    <3> QED BY <2>2, <3>1 DEF Magaz!Buy
  <2>3. CASE Magaz!Empty(b)
    <3>1. shop[b] \in Magaz!Shop
      BY <2>0, <2>3 DEF Magaz!Empty, Whereabouts, AtShop
    <3> QED BY <2>3, <3>1 DEF Magaz!Empty
  <2>4. CASE Magaz!LoadA(b)
    BY <2>0, <2>4 DEF Magaz!LoadA
  <2>5. CASE Magaz!StoreA(b)
    <3>1. reg[b] \in Int
      BY <2>0
    <3>2. a' = reg[b] + 1
      BY <2>5 DEF Magaz!StoreA
    <3>3. a' \in Int
      <4> HIDE DEF Amounts
      <4> QED BY <3>1, <3>2
    <3> QED BY <2>5, <3>3 DEF Magaz!StoreA
  <2> QED BY <1>1, <2>1, <2>2, <2>3, <2>4, <2>5 DEF Magaz!BuyerRuns
<1>2. CASE Magaz!LoaderRuns
  <2>1. CASE Magaz!TestA \/ Magaz!TryLoad \/ Magaz!LeaveLoaded \/ Magaz!LoadRound
    BY <2>1 DEF Magaz!TestA, Magaz!TryLoad, Magaz!LeaveLoaded, Magaz!LoadRound
  <2>2. CASE Magaz!ReadShop
    <3>1. shop[Loader] \in Magaz!Shop
      BY <2>2 DEF Magaz!ReadShop, Whereabouts, AtShop
    <3> QED BY <2>2, <3>1 DEF Magaz!ReadShop
  <2>3. CASE Magaz!AddLoad
    <3>1. shop[Loader] \in Magaz!Shop
      BY <2>3 DEF Magaz!AddLoad, Whereabouts, AtShop
    <3> QED BY <2>3, <3>1 DEF Magaz!AddLoad
  <2> QED BY <1>2, <2>1, <2>2, <2>3 DEF Magaz!LoaderRuns
<1>3. CASE UNCHANGED Magaz!vars
  BY <1>3 DEF Magaz!vars
<1> QED BY <1>1, <1>2, <1>3 DEF Magaz!Next

(* The count is read: what is loaded is at most who have finished, as the   *)
(* count is.                                                                *)
LEMMA LoadAKeeps ==
  ASSUME MagazInv, NEW b \in Buyer, Magaz!LoadA(b)
  PROVE  NeverAhead' /\ Satisfied' /\ Magaz!LoaderOutlivesNeed'
<1> USE DEF MagazInv, MagazPlaced, Whereabouts, Amounts, Magaz!LoadA, Magaz!Goes
<1>0. b \in Magaz!Worker /\ Buyer \subseteq Magaz!Worker /\ Loader \in Magaz!Worker
  BY DEF Magaz!Worker
<1>1. \A c \in Buyer : wpc'[c] = IF c = b THEN "store a" ELSE wpc[c]
  BY <1>0
<1>2. Done' = Done
  BY <1>1 DEF Done
<1>3. NeverAhead'
  BY <1>0, <1>1, <1>2 DEF NeverAhead
<1>4. Satisfied'
  BY <1>0, <1>1 DEF Satisfied
<1>5. Magaz!LoaderOutlivesNeed'
  BY <1>0, <1>1 DEF Magaz!LoaderOutlivesNeed
<1> QED BY <1>3, <1>4, <1>5

(* The count is stored, and with it one more has finished.                  *)
LEMMA StoreAKeeps ==
  ASSUME Magaz!WarehouseAssumption, MagazInv, NEW b \in Buyer, Magaz!StoreA(b)
  PROVE  NeverAhead' /\ Satisfied' /\ Magaz!LoaderOutlivesNeed'
<1> USE DEF MagazInv, MagazPlaced, Whereabouts, Amounts, Magaz!StoreA, Magaz!Goes
<1>0. b \in Magaz!Worker /\ Buyer \subseteq Magaz!Worker /\ Loader \in Magaz!Worker /\ Loader # b
  BY DEF Magaz!Worker, Magaz!WarehouseAssumption
<1>1. \A c \in Buyer : wpc'[c] = IF c = b THEN "done" ELSE wpc[c]
  BY <1>0
<1>2. Done' = Done \cup {b} /\ b \notin Done
  BY <1>0, <1>1 DEF Done
<1>3. Cardinality(Done') = Cardinality(Done) + 1
  BY <1>2, DoneFinite, FS_AddElement
<1>4. Cardinality(Done) \in Nat
  BY DoneFinite
<1>5. NeverAhead'
  <2>1. reg[b] <= Cardinality(Done) /\ reg[b] \in Int
    BY <1>0 DEF NeverAhead
  <2>2. a' = reg[b] + 1
    OBVIOUS
  <2> HIDE DEF MagazInv, MagazPlaced, Whereabouts, Amounts, Magaz!StoreA, Magaz!Goes
  <2>4. a' <= Cardinality(Done')
    BY <1>3, <1>4, <2>1, <2>2
  <2>3. ASSUME NEW c \in Buyer, wpc'[c] = "store a" PROVE reg'[c] <= Cardinality(Done')
    <3>0. reg[c] \in Int
      BY <1>0 DEF MagazInv, MagazPlaced, Amounts
    <3>1. wpc[c] = "store a" /\ reg'[c] = reg[c]
      BY <1>0, <1>1, <2>3 DEF Magaz!StoreA, MagazInv, MagazPlaced, Amounts
    <3>2. reg[c] <= Cardinality(Done)
      BY <3>1 DEF MagazInv, NeverAhead
    <3>3. reg[c] <= Cardinality(Done')
      BY <1>3, <1>4, <3>0, <3>2
    <3> QED BY <3>1, <3>3
  <2> QED BY <2>3, <2>4 DEF NeverAhead
<1>6. Satisfied'
  BY <1>0, <1>1 DEF Satisfied
<1>7. Magaz!LoaderOutlivesNeed'
  BY <1>0, <1>1 DEF Magaz!LoaderOutlivesNeed
<1> QED BY <1>5, <1>6, <1>7

(* The loader ends only when the count is that of all buyers.               *)
LEMMA TestAKeeps ==
  ASSUME Magaz!WarehouseAssumption, MagazInv, Magaz!TestA
  PROVE  NeverAhead' /\ Satisfied' /\ Magaz!LoaderOutlivesNeed'
<1> USE DEF MagazInv, MagazPlaced, Whereabouts, Amounts, Magaz!TestA, Magaz!Goes
<1>0. Buyer \subseteq Magaz!Worker /\ Loader \in Magaz!Worker /\ Loader \notin Buyer
  BY DEF Magaz!Worker, Magaz!WarehouseAssumption
<1>1. \A c \in Buyer : wpc'[c] = wpc[c]
  BY <1>0
<1>2. Done' = Done
  BY <1>1 DEF Done
<1>3. NeverAhead'
  BY <1>1, <1>2 DEF NeverAhead
<1>4. Satisfied'
  BY <1>1 DEF Satisfied
<1>5. Magaz!LoaderOutlivesNeed'
  <2> SUFFICES ASSUME Magaz!AllFinished PROVE \A b \in Buyer : wpc[b] = "done" /\ val[b] <= 0
    BY <1>0, <1>1 DEF Magaz!LoaderOutlivesNeed
  <2>1. Cardinality(Buyer) <= Cardinality(Done)
    <3>1. a >= Cardinality(Buyer) /\ a <= Cardinality(Done) /\ a \in Int
      BY MagazSets DEF Magaz!AllFinished, Magaz!NUM_THREADS, NeverAhead
    <3> HIDE DEF MagazInv, MagazPlaced, Whereabouts, Amounts, Magaz!TestA
    <3> QED BY <3>1, DoneFinite
  <2>2. Done \subseteq Buyer
    BY DEF Done
  <2>3. Done = Buyer
    BY <2>1, <2>2, DoneFinite, FS_Subset
  <2> QED BY <2>3 DEF Done, Satisfied
<1> QED BY <1>3, <1>4, <1>5

LEMMA MagazInductive ==
  ASSUME Magaz!WarehouseAssumption
  PROVE  MagazInv /\ [Magaz!Next]_(Magaz!vars) => MagazInv'
<1> SUFFICES ASSUME Magaz!WarehouseAssumption, MagazInv, [Magaz!Next]_(Magaz!vars)
             PROVE  NeverAhead' /\ Satisfied' /\ Magaz!LoaderOutlivesNeed'
  BY WhereaboutsKept, AmountsKept DEF MagazInv, MagazPlaced
<1>0. Buyer \subseteq Magaz!Worker /\ Loader \in Magaz!Worker /\ Loader \notin Buyer
  BY DEF Magaz!Worker, Magaz!WarehouseAssumption
<1>1. ASSUME NEW b \in Buyer, Magaz!BuyerRuns(b)
      PROVE  NeverAhead' /\ Satisfied' /\ Magaz!LoaderOutlivesNeed'
  <2>1. CASE Magaz!NextRound(b)
    <3>1. CASE val[b] > 0
      BY <1>0, <2>1, <3>1, Steady DEF Magaz!NextRound, Magaz!Goes, PC
    <3>2. CASE ~(val[b] > 0)
      BY <2>1, <3>2, FinishedKeeps
    <3> QED BY <3>1, <3>2
  <2>2. CASE Magaz!TryShop(b)
    <3>1. CASE foo_mutex[shop[b]] = Free
      BY <1>0, <2>2, <3>1, Steady DEF Magaz!TryShop, Magaz!Trylock, Magaz!Goes, PC
    <3>2. CASE foo_mutex[shop[b]] # Free
      BY <2>2, <3>2, StillKeeps DEF Magaz!TryShop, Magaz!Trylock
    <3> QED BY <3>1, <3>2
  <2>3. CASE Magaz!NoShop(b) \/ Magaz!Empty(b) \/ Magaz!LeaveShop(b)
    BY <1>0, <2>3, Steady DEF Magaz!NoShop, Magaz!Empty, Magaz!LeaveShop, Magaz!Goes, PC
  <2>4. CASE Magaz!Buy(b)
    BY <2>4, BuyKeeps
  <2> QED BY <1>1, <2>1, <2>2, <2>3, <2>4, LoadAKeeps, StoreAKeeps DEF Magaz!BuyerRuns
<1>2. CASE Magaz!LoaderRuns
  <2>1. CASE Magaz!TryLoad
    <3>1. CASE foo_mutex[shop[Loader]] = Free
      BY <1>0, <2>1, <3>1, Steady DEF Magaz!TryLoad, Magaz!Trylock, Magaz!Goes, PC
    <3>2. CASE foo_mutex[shop[Loader]] # Free
      BY <2>1, <3>2, StillKeeps DEF Magaz!TryLoad, Magaz!Trylock
    <3> QED BY <3>1, <3>2
  <2>2. CASE Magaz!AddLoad \/ Magaz!LeaveLoaded \/ Magaz!LoadRound
    BY <1>0, <2>2, Steady DEF Magaz!AddLoad, Magaz!LeaveLoaded, Magaz!LoadRound, Magaz!Goes, PC
  <2>3. CASE Magaz!ReadShop
    <3>1. \A b \in Buyer : reg'[b] = reg[b]
      BY <1>0, <2>3 DEF Magaz!ReadShop, MagazInv, MagazPlaced, Amounts
    <3> QED BY <1>0, <2>3, <3>1, Steady DEF Magaz!ReadShop, Magaz!Goes, PC
  <2> QED BY <1>2, <2>1, <2>2, <2>3, TestAKeeps DEF Magaz!LoaderRuns
<1>3. CASE UNCHANGED Magaz!vars
  BY <1>3, StillKeeps DEF Magaz!vars
<1> QED BY <1>1, <1>2, <1>3 DEF Magaz!Next

-----------------------------------------------------------------------------
(* Nobody carries off less than nothing, so no need grows; and the loader   *)
(* that is loading had a load left.                                         *)

Goods ==
  /\ mag \in [Magaz!Shop -> Nat] /\ reg \in [Magaz!Worker -> Nat] /\ a \in Nat
  /\ foo_mutex \in [Magaz!Shop -> Magaz!Worker \cup {Free}]
  /\ wanted \in [Buyer -> Nat] /\ \A b \in Buyer : val[b] <= wanted[b]
  /\ loads \in 0 .. MaxLoads /\ (wpc[Loader] \in {"read", "add"} => loads < MaxLoads)

LEMMA InitGoods == ASSUME Magaz!WarehouseAssumption PROVE Magaz!Init => Goods
<1> SUFFICES ASSUME Magaz!WarehouseAssumption, Magaz!Init PROVE Goods
  OBVIOUS
<1>1. Stocks \subseteq Nat /\ Needs \subseteq Nat /\ MaxLoads \in Nat /\ Loader \in Magaz!Worker
  BY DEF Magaz!WarehouseAssumption, Magaz!Worker
<1>2. mag \in [Magaz!Shop -> Nat] /\ val \in [Buyer -> Nat] /\ wanted = val
  BY <1>1 DEF Magaz!Init
<1>3. wanted \in [Buyer -> Nat] /\ \A b \in Buyer : val[b] <= wanted[b]
  BY <1>2
<1> QED BY <1>1, <1>2, <1>3 DEF Magaz!Init, Goods

(* A lock is taken by whoever tries, and left free.                         *)
LEMMA Locked ==
  ASSUME MagazPlaced, Goods, NEW w \in Magaz!Worker,
         \/ \E where \in PC : Magaz!Trylock(w, where)
         \/ Magaz!Unlock(w)
         \/ UNCHANGED foo_mutex
  PROVE  foo_mutex' \in [Magaz!Shop -> Magaz!Worker \cup {Free}]
BY DEF Goods, Magaz!Trylock, Magaz!Unlock

LEMMA BuyerGoods ==
  ASSUME Magaz!WarehouseAssumption, MagazPlaced, Goods, NEW b \in Buyer, Magaz!BuyerRuns(b)
  PROVE  Goods'
<1>1. b \in Magaz!Worker /\ b # Loader /\ Loader \in Magaz!Worker
  BY DEF Magaz!WarehouseAssumption, Magaz!Worker
<1>2. wpc'[Loader] = wpc[Loader] /\ UNCHANGED <<loads, wanted>>
  BY <1>1 DEF Magaz!BuyerRuns, Magaz!NextRound, Magaz!TryShop, Magaz!NoShop, Magaz!Buy,
              Magaz!Empty, Magaz!LeaveShop, Magaz!LoadA, Magaz!StoreA,
       Magaz!Trylock, Magaz!Goes, MagazPlaced, Whereabouts
<1>3. foo_mutex' \in [Magaz!Shop -> Magaz!Worker \cup {Free}]
  <2>1. (\E where \in PC : Magaz!Trylock(b, where)) \/ Magaz!Unlock(b) \/ UNCHANGED foo_mutex
    BY DEF Magaz!BuyerRuns, Magaz!NextRound, Magaz!TryShop, Magaz!NoShop, Magaz!Buy, Magaz!Empty,
           Magaz!LeaveShop, Magaz!LoadA, Magaz!StoreA, PC
  <2> QED BY <1>1, <2>1, Locked
<1>4. mag' \in [Magaz!Shop -> Nat]
  <2>1. CASE Magaz!Empty(b)
    <3>1. mag' = [mag EXCEPT ![shop[b]] = 0]
      BY <2>1 DEF Magaz!Empty
    <3> QED BY <3>1 DEF Goods
  <2>2. CASE ~Magaz!Empty(b)
    <3>1. mag' = mag
      BY <2>2 DEF Magaz!BuyerRuns, Magaz!NextRound, Magaz!TryShop, Magaz!NoShop, Magaz!Buy,
                  Magaz!LeaveShop, Magaz!LoadA, Magaz!StoreA
    <3> QED BY <3>1 DEF Goods
  <2> QED BY <2>1, <2>2
<1>5. reg' \in [Magaz!Worker -> Nat] /\ a' \in Nat
  <2>1. CASE Magaz!LoadA(b)
    BY <1>1, <2>1 DEF Goods, Magaz!LoadA
  <2>2. CASE Magaz!StoreA(b)
    <3>1. reg[b] \in Nat /\ a' = reg[b] + 1 /\ reg' = reg
      BY <1>1, <2>2 DEF Goods, Magaz!StoreA
    <3> QED BY <3>1 DEF Goods
  <2>3. CASE ~Magaz!LoadA(b) /\ ~Magaz!StoreA(b)
    BY <2>3 DEF Goods, Magaz!BuyerRuns, Magaz!NextRound, Magaz!TryShop, Magaz!NoShop, Magaz!Buy,
                Magaz!Empty, Magaz!LeaveShop
  <2> QED BY <2>1, <2>2, <2>3
<1>6. \A c \in Buyer : val'[c] <= wanted[c]
  <2>1. CASE Magaz!Buy(b)
    <3>1. shop[b] \in Magaz!Shop /\ mag[shop[b]] \in Nat
      BY <1>1, <2>1 DEF Magaz!Buy, MagazPlaced, Whereabouts, AtShop, Goods
    <3>2. val \in [Buyer -> Int] /\ val' = [val EXCEPT ![b] = val[b] - mag[shop[b]]]
      BY <2>1 DEF Magaz!Buy, MagazPlaced, Amounts
    <3>3. \A x, y \in Int, z \in Nat : x <= y => x - z <= y
      OBVIOUS
    <3>4. \A c \in Buyer : val[c] <= wanted[c] /\ wanted[c] \in Int
      BY DEF Goods
    <3> HIDE DEF Goods
    <3>5. ASSUME NEW c \in Buyer PROVE val'[c] <= wanted[c]
      <4>1. CASE c = b
        <5>1. val'[c] = val[b] - mag[shop[b]] /\ val[b] \in Int
          BY <3>2, <4>1
        <5> QED BY <3>1, <3>3, <3>4, <4>1, <5>1
      <4>2. CASE c # b
        BY <3>2, <3>4, <4>2
      <4> QED BY <4>1, <4>2
    <3> QED BY <3>5
  <2>2. CASE ~Magaz!Buy(b)
    <3>1. val' = val
      BY <2>2 DEF Magaz!BuyerRuns, Magaz!NextRound, Magaz!TryShop, Magaz!NoShop, Magaz!Empty,
                  Magaz!LeaveShop, Magaz!LoadA, Magaz!StoreA
    <3> QED BY <3>1 DEF Goods
  <2> QED BY <2>1, <2>2
<1> QED BY <1>2, <1>3, <1>4, <1>5, <1>6 DEF Goods

LEMMA LoaderGoods ==
  ASSUME Magaz!WarehouseAssumption, MagazPlaced, Goods, Magaz!LoaderRuns
  PROVE  Goods'
<1>1. Loader \in Magaz!Worker /\ LoadSize \in Nat /\ MaxLoads \in Nat
  BY DEF Magaz!WarehouseAssumption, Magaz!Worker
<1>2. foo_mutex' \in [Magaz!Shop -> Magaz!Worker \cup {Free}]
  <2>1. (\E where \in PC : Magaz!Trylock(Loader, where)) \/ Magaz!Unlock(Loader)
        \/ UNCHANGED foo_mutex
    BY DEF Magaz!LoaderRuns, Magaz!TestA, Magaz!TryLoad, Magaz!ReadShop, Magaz!AddLoad,
           Magaz!LeaveLoaded, Magaz!LoadRound, PC
  <2> QED BY <1>1, <2>1, Locked
<1>3. UNCHANGED <<a, val, wanted>>
  BY DEF Magaz!LoaderRuns, Magaz!TestA, Magaz!TryLoad, Magaz!ReadShop, Magaz!AddLoad,
         Magaz!LeaveLoaded, Magaz!LoadRound
<1>4. mag' \in [Magaz!Shop -> Nat] /\ reg' \in [Magaz!Worker -> Nat]
  <2>1. CASE Magaz!ReadShop
    <3>1. shop[Loader] \in Magaz!Shop
      BY <1>1, <2>1 DEF Magaz!ReadShop, MagazPlaced, Whereabouts, AtShop
    <3> QED BY <1>1, <2>1, <3>1 DEF Magaz!ReadShop, Goods
  <2>2. CASE Magaz!AddLoad
    <3>1. reg[Loader] + LoadSize \in Nat
      BY <1>1 DEF Goods
    <3> QED BY <2>2, <3>1 DEF Magaz!AddLoad, Goods
  <2>3. CASE ~Magaz!ReadShop /\ ~Magaz!AddLoad
    BY <2>3 DEF Magaz!LoaderRuns, Magaz!TestA, Magaz!TryLoad, Magaz!LeaveLoaded, Magaz!LoadRound,
                Goods
  <2> QED BY <2>1, <2>2, <2>3
<1>5. loads' \in 0 .. MaxLoads /\ (wpc'[Loader] \in {"read", "add"} => loads' < MaxLoads)
  <2>1. wpc \in [Magaz!Worker -> PC] /\ loads \in 0 .. MaxLoads
        /\ (wpc[Loader] \in {"read", "add"} => loads < MaxLoads)
    BY DEF MagazPlaced, Whereabouts, Goods
  <2>2. CASE Magaz!TestA \/ Magaz!LeaveLoaded \/ Magaz!LoadRound
    BY <1>1, <2>1, <2>2 DEF Magaz!TestA, Magaz!LeaveLoaded, Magaz!LoadRound, Magaz!Goes
  <2>3. CASE Magaz!TryLoad
    BY <1>1, <2>1, <2>3 DEF Magaz!TryLoad, Magaz!Trylock, Magaz!Goes
  <2>4. CASE Magaz!ReadShop
    BY <1>1, <2>1, <2>4 DEF Magaz!ReadShop, Magaz!Goes
  <2>5. CASE Magaz!AddLoad
    BY <1>1, <2>1, <2>5 DEF Magaz!AddLoad, Magaz!Goes
  <2> QED BY <2>2, <2>3, <2>4, <2>5 DEF Magaz!LoaderRuns
<1> QED BY <1>2, <1>3, <1>4, <1>5 DEF Goods

LEMMA GoodsKept ==
  ASSUME Magaz!WarehouseAssumption
  PROVE  MagazInv /\ Goods /\ [Magaz!Next]_(Magaz!vars) => Goods'
<1> SUFFICES ASSUME MagazInv, Goods, [Magaz!Next]_(Magaz!vars) PROVE Goods'
  OBVIOUS
<1>1. CASE UNCHANGED Magaz!vars
  BY <1>1 DEF Magaz!vars, Goods
<1> QED BY <1>1, BuyerGoods, LoaderGoods DEF Magaz!Next, MagazInv

LEMMA MagazTyped == Magaz!WarehouseAssumption /\ MagazInv /\ Goods => Magaz!TypeOK
<1> SUFFICES ASSUME Magaz!WarehouseAssumption, MagazInv, Goods PROVE Magaz!TypeOK
  OBVIOUS
<1>1. a \in 0 .. Magaz!NUM_THREADS
  <2>1. Done \subseteq Buyer /\ a <= Cardinality(Done) /\ a \in Nat
    BY DEF Done, MagazInv, NeverAhead, Goods
  <2>2. Cardinality(Done) <= Cardinality(Buyer)
    BY <2>1, DoneFinite, FS_Subset
  <2> QED BY <2>1, <2>2, DoneFinite, MagazSets DEF Magaz!NUM_THREADS
<1>2. /\ wpc \in [Magaz!Worker -> PC] /\ shop \in [Magaz!Worker -> 0 .. MAGNUM]
      /\ val \in [Buyer -> Int]
  BY DEF MagazInv, MagazPlaced, Whereabouts, Amounts
<1> QED BY <1>1, <1>2 DEF Magaz!TypeOK, Goods, PC

LEMMA MagazSteps == [Next]_vars => [Magaz!Next]_(Magaz!vars)
BY DEF Next, PipeRuns, PosixRuns, MagazRuns, TcpRuns, UdpRuns, CountRuns, AloneRuns,
       vars, magazVars, Magaz!vars

(* magaz.c: whatever additions to the count are lost, and whoever finds     *)
(* which shop locked, the loader does not end while a buyer still needs     *)
(* goods.                                                                   *)
THEOREM LoaderStays == Spec => []LoaderOutlivesNeed
<1>1. Init => MagazInv
  BY ExercisesAssumption, MagazInitial DEF Init
<1>2. MagazInv /\ [Next]_vars => MagazInv'
  BY ExercisesAssumption, MagazInductive, MagazSteps
<1>3. MagazInv => LoaderOutlivesNeed
  BY DEF MagazInv, LoaderOutlivesNeed
<1> QED BY <1>1, <1>2, <1>3, PTL DEF Spec

-----------------------------------------------------------------------------
(* Sums.  The library folds a set in an order of its own; that the order    *)
(* does not matter is shown of a set of the least cardinality for which it  *)
(* might.                                                                   *)

LEMMA Least == ASSUME NEW S \in SUBSET Nat, S # {} PROVE \E x \in S : \A y \in S : x <= y
<1>1. IsWellFoundedOn(OpToRel(<, Nat), Nat)
  BY NatLessThanWellFounded
<1>2. PICK x \in S : \A y \in S : ~(<<y, x>> \in OpToRel(<, Nat))
  BY <1>1, WFMin
<1>3. \A y \in S : y < x => <<y, x>> \in OpToRel(<, Nat)
  BY DEF OpToRel
<1>4. x \in S /\ \A y \in S : ~(y < x)
  BY <1>2, <1>3, Zenon
<1> QED BY <1>4

(* g sums the values of f over every subset of S, in whatever order.        *)
Adds(g, f, S) ==
  /\ g \in [SUBSET S -> Int] /\ g[{}] = 0
  /\ \A T \in SUBSET S : \A x \in T : g[T] = f[x] + g[T \ {x}]

LEMMA AdderExists ==
  ASSUME NEW S, IsFiniteSet(S), NEW f, \A x \in S : f[x] \in Int
  PROVE  \E g : Adds(g, f, S)
<1> DEFINE Lacks == {Cardinality(U) : U \in {V \in SUBSET S : ~ \E g : Adds(g, f, V)}}
<1> SUFFICES ASSUME Lacks # {} PROVE FALSE
  OBVIOUS
<1>1. \A V \in SUBSET S : IsFiniteSet(V) /\ Cardinality(V) \in Nat
  BY FS_Subset, FS_CardinalityType
<1>2. PICK U \in SUBSET S :
        /\ ~ \E g : Adds(g, f, U)
        /\ \A V \in SUBSET S : Cardinality(V) < Cardinality(U) => \E g : Adds(g, f, V)
  <2>1. PICK n \in Lacks : \A l \in Lacks : n <= l
    BY <1>1, Least
  <2>2. PICK U \in SUBSET S : n = Cardinality(U) /\ ~ \E g : Adds(g, f, U)
    OBVIOUS
  <2>3. ASSUME NEW V \in SUBSET S, Cardinality(V) < n PROVE \E g : Adds(g, f, V)
    BY <1>1, <2>1, <2>2, <2>3
  <2> QED BY <2>2, <2>3
<1>3. U # {}
  <2>1. Adds([T \in SUBSET {} |-> 0], f, {})
    BY DEF Adds
  <2> QED BY <1>2, <2>1
<1>4. PICK x \in U : TRUE
  BY <1>3
<1>5. PICK h : Adds(h, f, U \ {x})
  <2>1. Cardinality(U \ {x}) < Cardinality(U)
    BY <1>1, FS_RemoveElement
  <2> QED BY <1>2, <2>1
<1> DEFINE g == [T \in SUBSET U |-> IF x \in T THEN f[x] + h[T \ {x}] ELSE h[T]]
<1>6. \A T \in SUBSET U : T \ {x} \in SUBSET (U \ {x}) /\ (x \notin T => T \in SUBSET (U \ {x}))
  OBVIOUS
<1>7. f[x] \in Int /\ \A T \in SUBSET (U \ {x}) : h[T] \in Int
  BY <1>5 DEF Adds
<1>8. g \in [SUBSET U -> Int]
  BY <1>6, <1>7
<1>9. g[{}] = 0
  BY <1>5 DEF Adds
<1>10. ASSUME NEW T \in SUBSET U, NEW y \in T PROVE g[T] = f[y] + g[T \ {y}]
  <2>1. CASE x \notin T
    BY <1>5, <1>6, <2>1 DEF Adds
  <2>2. CASE x = y
    BY <1>6, <2>2
  <2>3. CASE x \in T /\ x # y
    <3> DEFINE R == (T \ {x}) \ {y}
    <3>1. R \in SUBSET (U \ {x}) /\ R = (T \ {y}) \ {x} /\ x \in T \ {y} /\ y \in T \ {x}
      BY <2>3
    <3>2. h[T \ {x}] = f[y] + h[R]
      BY <1>5, <1>6, <3>1 DEF Adds
    <3>3. g[T] = f[x] + h[T \ {x}] /\ g[T \ {y}] = f[x] + h[R]
      BY <2>3, <3>1
    <3>4. f[y] \in Int /\ h[R] \in Int
      BY <1>7, <3>1
    <3> HIDE DEF R, g
    <3> QED BY <1>7, <3>2, <3>3, <3>4
  <2> QED BY <2>1, <2>2, <2>3
<1>11. Adds(g, f, U)
  <2> HIDE DEF g
  <2> QED BY <1>8, <1>9, <1>10 DEF Adds
<1> QED BY <1>2, <1>11

(* The fold of the library, which takes the elements in an order of its     *)
(* own, is that sum.                                                        *)
LEMMA SumIs ==
  ASSUME NEW S, IsFiniteSet(S), NEW f, DOMAIN f = S, NEW g, Adds(g, f, S)
  PROVE  Magaz!SumFunction(f) = g[S]
<1> DEFINE Some(T) == CHOOSE x \in T : TRUE
           Folded(h) == [T \in SUBSET S |-> IF T = {} THEN 0 ELSE f[Some(T)] + h[T \ {Some(T)}]]
           h == CHOOSE h : h = Folded(h)
<1>1. Magaz!SumFunction(f) = h[S]
  BY DEF Magaz!SumFunction, Magaz!SumFunctionOnSet, Magaz!FoldFunctionOnSet, Magaz!MapThenFoldSet
<1>2. \A T \in SUBSET S : T # {} => Some(T) \in T
  OBVIOUS
<1> HIDE DEF Some
<1>3. g = Folded(g)
  BY <1>2 DEF Adds
<1>4. h = Folded(h)
  BY <1>3
<1> DEFINE Differ == {Cardinality(T) : T \in {V \in SUBSET S : g[V] # h[V]}}
<1> HIDE DEF h
<1>5. \A V \in SUBSET S : IsFiniteSet(V) /\ Cardinality(V) \in Nat
  BY FS_Subset, FS_CardinalityType
<1>6. Differ = {}
  <2> SUFFICES ASSUME Differ # {} PROVE FALSE
    OBVIOUS
  <2>0. Differ \in SUBSET Nat
    BY <1>5
  <2>1. PICK n \in Differ : \A l \in Differ : n <= l
    <3> HIDE DEF Differ
    <3> QED BY <2>0, Least
  <2>2. PICK T \in SUBSET S : n = Cardinality(T) /\ g[T] # h[T]
    OBVIOUS
  <2>3. T # {}
    BY <1>3, <1>4, <2>2
  <2> DEFINE R == T \ {Some(T)}
  <2>4. R \in SUBSET S /\ Cardinality(R) < n
    BY <1>2, <1>5, <2>2, <2>3, FS_RemoveElement
  <2>5. g[R] = h[R]
    BY <1>5, <2>1, <2>4
  <2>6. g[T] = f[Some(T)] + g[R] /\ h[T] = f[Some(T)] + h[R]
    BY <1>3, <1>4, <2>3
  <2> QED BY <2>2, <2>5, <2>6
<1>7. g[S] = h[S]
  BY <1>6
<1> QED BY <1>1, <1>7

LEMMA SumTyped ==
  ASSUME NEW S, IsFiniteSet(S), NEW f \in [S -> Int]
  PROVE  Magaz!SumFunction(f) \in Int
<1>1. PICK g : Adds(g, f, S)
  BY AdderExists
<1>2. g[S] \in Int
  BY <1>1 DEF Adds
<1> QED BY <1>1, <1>2, SumIs

LEMMA SumOfNothing ==
  ASSUME NEW S, IsFiniteSet(S), NEW f, f = [x \in S |-> 0]
  PROVE  Magaz!SumFunction(f) = 0
<1>1. Adds([T \in SUBSET S |-> 0], f, S)
  BY DEF Adds
<1> QED BY <1>1, SumIs

(* One value changes, and the sum by as much.                               *)
LEMMA SumMoves ==
  ASSUME NEW S, IsFiniteSet(S), NEW f \in [S -> Int], NEW x \in S, NEW d \in Int,
         NEW e \in [S -> Int], e[x] = f[x] + d, \A y \in S \ {x} : e[y] = f[y]
  PROVE  Magaz!SumFunction(e) = Magaz!SumFunction(f) + d
<1>1. PICK g : Adds(g, f, S)
  BY AdderExists
<1> DEFINE h == [T \in SUBSET S |-> IF x \in T THEN g[T] + d ELSE g[T]]
<1>2. f[x] \in Int /\ (\A T \in SUBSET S : g[T] \in Int) /\ DOMAIN f = S /\ DOMAIN e = S
  BY <1>1 DEF Adds
<1>3. h \in [SUBSET S -> Int] /\ h[{}] = 0
  BY <1>1, <1>2 DEF Adds
<1>4. ASSUME NEW T \in SUBSET S, NEW y \in T PROVE h[T] = e[y] + h[T \ {y}]
  <2>1. g[T] = f[y] + g[T \ {y}] /\ T \ {y} \in SUBSET S /\ f[y] \in Int
    BY <1>1 DEF Adds
  <2>2. g[T] \in Int /\ g[T \ {y}] \in Int
    BY <1>2, <2>1
  <2>3. CASE y = x
    <3>1. h[T] = g[T] + d /\ h[T \ {y}] = g[T \ {y}] /\ e[y] = f[y] + d
      BY <2>1, <2>3
    <3> HIDE DEF h
    <3> QED BY <2>1, <2>2, <3>1
  <2>4. CASE y # x /\ x \in T
    <3>1. h[T] = g[T] + d /\ h[T \ {y}] = g[T \ {y}] + d /\ e[y] = f[y]
      BY <2>1, <2>4
    <3> HIDE DEF h
    <3> QED BY <2>1, <2>2, <3>1
  <2>5. CASE x \notin T
    BY <2>1, <2>5
  <2> QED BY <2>3, <2>4, <2>5
<1>5. Adds(h, e, S)
  BY <1>3, <1>4 DEF Adds
<1>6. Magaz!SumFunction(f) = g[S] /\ Magaz!SumFunction(e) = h[S]
  BY <1>1, <1>2, <1>5, SumIs
<1> QED BY <1>2, <1>6

-----------------------------------------------------------------------------
(* ex14.  Who is at a shop is there alone, so what a buyer has bought is    *)
(* what it clears, and the loader adds to what is there.                    *)

(* Who is at a shop holds its lock, and what the loader has read there is   *)
(* still what the shop holds.                                               *)
InShop ==
  /\ \A w \in Magaz!Worker : wpc[w] \in AtShop => foo_mutex[shop[w]] = w
  /\ wpc[Loader] = "add" => reg[Loader] = mag[shop[Loader]]

GoodsInv ==
  MagazInv /\ Goods /\ InShop /\ initial \in [Magaz!Shop -> Int] /\ Magaz!GoodsConserved

LEMMA Stocked ==
  ASSUME Magaz!WarehouseAssumption, MagazInv, Goods
  PROVE  /\ IsFiniteSet(Buyer) /\ IsFiniteSet(Magaz!Shop) /\ LoadSize \in Int /\ loads \in Int
         /\ mag \in [Magaz!Shop -> Int]
         /\ Magaz!Bought \in [Buyer -> Int] /\ Magaz!Uncleared \in [Buyer -> Int]
<1>1. IsFiniteSet(Magaz!Shop)
  BY FS_Interval DEF Magaz!Shop, Magaz!WarehouseAssumption
<1>2. mag \in [Magaz!Shop -> Int] /\ wanted \in [Buyer -> Int] /\ val \in [Buyer -> Int]
  BY DEF Goods, MagazInv, MagazPlaced, Amounts
<1>3. \A b \in Buyer : wpc[b] = "empty" => shop[b] \in Magaz!Shop
  BY DEF MagazInv, MagazPlaced, Whereabouts, AtShop, Magaz!Worker
<1>4. Magaz!Bought \in [Buyer -> Int] /\ Magaz!Uncleared \in [Buyer -> Int]
  BY <1>2, <1>3 DEF Magaz!Bought, Magaz!Uncleared
<1>5. LoadSize \in Int /\ loads \in Int
  BY DEF Magaz!WarehouseAssumption, Goods
<1> QED BY <1>1, <1>2, <1>4, <1>5, DoneFinite

(* A lock that is taken was free, and one that is given back was one's own. *)
LEMMA LocksKept ==
  ASSUME Magaz!WarehouseAssumption, MagazInv, InShop, NEW w \in Magaz!Worker, NEW p \in PC,
         foo_mutex \in [Magaz!Shop -> Magaz!Worker \cup {Free}],
         wpc' = [wpc EXCEPT ![w] = p], \A v \in Magaz!Worker : v # w => shop'[v] = shop[v],
         \/ /\ shop[w] \in Magaz!Shop /\ foo_mutex[shop[w]] = Free /\ shop' = shop
            /\ foo_mutex' = [foo_mutex EXCEPT ![shop[w]] = w]
         \/ p \notin AtShop /\ wpc[w] \in AtShop /\ Magaz!Unlock(w)
         \/ p \notin AtShop /\ foo_mutex' = foo_mutex
         \/ wpc[w] \in AtShop /\ foo_mutex' = foo_mutex /\ shop' = shop
  PROVE  \A v \in Magaz!Worker : wpc'[v] \in AtShop => foo_mutex'[shop'[v]] = v
<1> SUFFICES ASSUME NEW v \in Magaz!Worker, wpc'[v] \in AtShop PROVE foo_mutex'[shop'[v]] = v
  OBVIOUS
<1>1. wpc \in [Magaz!Worker -> PC] /\ shop \in [Magaz!Worker -> 0 .. MAGNUM]
      /\ \A u \in Magaz!Worker : wpc[u] \in AtShop => shop[u] \in Magaz!Shop
  BY DEF MagazInv, MagazPlaced, Whereabouts
<1>2. Free \notin Magaz!Worker
  BY DEF Magaz!WarehouseAssumption
<1>3. CASE v = w
  <2>1. p \in AtShop
    BY <1>1, <1>3
  <2> QED BY <1>1, <1>3, <2>1 DEF InShop
<1>4. CASE v # w
  <2>1. wpc[v] \in AtShop /\ shop'[v] = shop[v] /\ shop[v] \in Magaz!Shop
        /\ foo_mutex[shop[v]] = v
    BY <1>1, <1>4 DEF InShop
  <2>2. wpc[w] \in AtShop => foo_mutex[shop[w]] = w /\ shop[w] # shop[v]
    BY <1>4, <2>1 DEF InShop
  <2> QED BY <1>2, <2>1, <2>2 DEF Magaz!Unlock
<1> QED BY <1>3, <1>4

LEMMA TrylockKeeps ==
  ASSUME Magaz!WarehouseAssumption, MagazInv, Goods, InShop, NEW w \in Magaz!Worker,
         NEW p \in PC, wpc[w] = "try", shop[w] < MAGNUM, Magaz!Trylock(w, p)
  PROVE  \A v \in Magaz!Worker : wpc'[v] \in AtShop => foo_mutex'[shop'[v]] = v
<1>1. wpc \in [Magaz!Worker -> PC] /\ shop \in [Magaz!Worker -> 0 .. MAGNUM]
      /\ foo_mutex \in [Magaz!Shop -> Magaz!Worker \cup {Free}]
  BY DEF MagazInv, MagazPlaced, Whereabouts, Goods
<1>2. CASE foo_mutex[shop[w]] = Free
  <2>1. shop[w] \in Magaz!Shop
    BY <1>1 DEF Magaz!Shop, Magaz!WarehouseAssumption
  <2> QED BY <1>1, <1>2, <2>1, LocksKept DEF Magaz!Trylock, Magaz!Goes
<1>3. CASE foo_mutex[shop[w]] # Free
  <2>1. wpc' = [wpc EXCEPT ![w] = "try"] /\ foo_mutex' = foo_mutex
        /\ \A v \in Magaz!Worker : v # w => shop'[v] = shop[v]
    BY <1>1, <1>3 DEF Magaz!Trylock
  <2> QED BY <1>1, <2>1, LocksKept DEF PC, AtShop
<1> QED BY <1>2, <1>3

LEMMA HeldKept ==
  ASSUME Magaz!WarehouseAssumption, MagazInv, Goods, InShop, [Magaz!Next]_(Magaz!vars)
  PROVE  \A v \in Magaz!Worker : wpc'[v] \in AtShop => foo_mutex'[shop'[v]] = v
<1>1. wpc \in [Magaz!Worker -> PC] /\ shop \in [Magaz!Worker -> 0 .. MAGNUM]
      /\ foo_mutex \in [Magaz!Shop -> Magaz!Worker \cup {Free}]
  BY DEF MagazInv, MagazPlaced, Whereabouts, Goods
<1>2. Loader \in Magaz!Worker /\ Buyer \subseteq Magaz!Worker
  BY DEF Magaz!Worker
<1>3. ASSUME NEW b \in Buyer, Magaz!BuyerRuns(b)
      PROVE  \A v \in Magaz!Worker : wpc'[v] \in AtShop => foo_mutex'[shop'[v]] = v
  <2>1. CASE Magaz!TryShop(b)
    BY <1>2, <2>1, TrylockKeeps DEF Magaz!TryShop, PC
  <2>2. CASE Magaz!Buy(b) \/ Magaz!Empty(b)
    BY <1>1, <1>2, <2>2, LocksKept DEF Magaz!Buy, Magaz!Empty, Magaz!Goes, PC, AtShop
  <2>3. CASE Magaz!LeaveShop(b)
    BY <1>1, <1>2, <2>3, LocksKept DEF Magaz!LeaveShop, Magaz!Goes, PC, AtShop
  <2>4. CASE Magaz!NextRound(b) \/ Magaz!NoShop(b) \/ Magaz!LoadA(b) \/ Magaz!StoreA(b)
    BY <1>1, <1>2, <2>4, LocksKept DEF Magaz!NextRound, Magaz!NoShop, Magaz!LoadA, Magaz!StoreA,
                                       Magaz!Goes, PC, AtShop
  <2> QED BY <1>3, <2>1, <2>2, <2>3, <2>4 DEF Magaz!BuyerRuns
<1>4. ASSUME Magaz!LoaderRuns
      PROVE  \A v \in Magaz!Worker : wpc'[v] \in AtShop => foo_mutex'[shop'[v]] = v
  <2>1. CASE Magaz!TryLoad
    BY <1>2, <2>1, TrylockKeeps DEF Magaz!TryLoad, PC
  <2>2. CASE Magaz!ReadShop \/ Magaz!AddLoad
    BY <1>1, <1>2, <2>2, LocksKept DEF Magaz!ReadShop, Magaz!AddLoad, Magaz!Goes, PC, AtShop
  <2>3. CASE Magaz!LeaveLoaded
    BY <1>1, <1>2, <2>3, LocksKept DEF Magaz!LeaveLoaded, Magaz!Goes, PC, AtShop
  <2>4. CASE Magaz!TestA \/ Magaz!LoadRound
    BY <1>1, <1>2, <2>4, LocksKept DEF Magaz!TestA, Magaz!LoadRound, Magaz!Goes, PC, AtShop
  <2> QED BY <1>4, <2>1, <2>2, <2>3, <2>4 DEF Magaz!LoaderRuns
<1>5. CASE UNCHANGED Magaz!vars
  BY <1>5 DEF Magaz!vars, InShop
<1> QED BY <1>3, <1>4, <1>5 DEF Magaz!Next

(* Two that are at shops are at two shops.                                  *)
LEMMA Apart ==
  ASSUME InShop, NEW v \in Magaz!Worker, NEW w \in Magaz!Worker, v # w,
         wpc[v] \in AtShop, wpc[w] \in AtShop
  PROVE  shop[v] # shop[w]
BY DEF InShop

LEMMA FreshKept ==
  ASSUME Magaz!WarehouseAssumption, MagazInv, Goods, InShop, [Magaz!Next]_(Magaz!vars)
  PROVE  wpc'[Loader] = "add" => reg'[Loader] = mag'[shop'[Loader]]
<1> SUFFICES ASSUME wpc'[Loader] = "add" PROVE reg'[Loader] = mag'[shop'[Loader]]
  OBVIOUS
<1>1. wpc \in [Magaz!Worker -> PC] /\ shop \in [Magaz!Worker -> 0 .. MAGNUM]
      /\ mag \in [Magaz!Shop -> Nat] /\ reg \in [Magaz!Worker -> Nat]
  BY DEF MagazInv, MagazPlaced, Whereabouts, Goods
<1>2. Loader \in Magaz!Worker /\ Buyer \subseteq Magaz!Worker /\ Loader \notin Buyer
  BY DEF Magaz!Worker, Magaz!WarehouseAssumption
<1>3. ASSUME NEW b \in Buyer, Magaz!BuyerRuns(b) PROVE reg'[Loader] = mag'[shop'[Loader]]
  <2>1. wpc[Loader] = "add" /\ shop'[Loader] = shop[Loader] /\ reg'[Loader] = reg[Loader]
    BY <1>1, <1>2, <1>3 DEF Magaz!BuyerRuns, Magaz!NextRound, Magaz!TryShop, Magaz!NoShop,
       Magaz!Buy, Magaz!Empty, Magaz!LeaveShop, Magaz!LoadA, Magaz!StoreA, Magaz!Trylock, Magaz!Goes
  <2>2. mag'[shop[Loader]] = mag[shop[Loader]]
    <3>1. CASE Magaz!Empty(b)
      <4>1. shop[b] # shop[Loader]
        BY <1>2, <2>1, <3>1, Apart DEF Magaz!Empty, AtShop
      <4>2. shop[Loader] \in Magaz!Shop
        BY <1>2, <2>1 DEF MagazInv, MagazPlaced, Whereabouts, AtShop
      <4> QED BY <1>1, <3>1, <4>1, <4>2 DEF Magaz!Empty
    <3>2. CASE ~Magaz!Empty(b)
      BY <1>3, <3>2 DEF Magaz!BuyerRuns, Magaz!NextRound, Magaz!TryShop, Magaz!NoShop,
         Magaz!Buy, Magaz!LeaveShop, Magaz!LoadA, Magaz!StoreA
    <3> QED BY <3>1, <3>2
  <2> QED BY <2>1, <2>2 DEF InShop
<1>4. CASE Magaz!LoaderRuns
  <2>1. Magaz!ReadShop
    <3>1. wpc[Loader] # "add"
      BY <1>1, <1>2, <1>4 DEF Magaz!LoaderRuns, Magaz!TestA, Magaz!TryLoad, Magaz!ReadShop,
         Magaz!AddLoad, Magaz!LeaveLoaded, Magaz!LoadRound, Magaz!Trylock, Magaz!Goes
    <3> QED BY <1>1, <1>2, <1>4, <3>1 DEF Magaz!LoaderRuns, Magaz!TestA, Magaz!TryLoad,
         Magaz!AddLoad, Magaz!LeaveLoaded, Magaz!LoadRound, Magaz!Trylock, Magaz!Goes
  <2> QED BY <1>1, <1>2, <2>1 DEF Magaz!ReadShop
<1>5. CASE UNCHANGED Magaz!vars
  BY <1>5 DEF Magaz!vars, InShop
<1> QED BY <1>3, <1>4, <1>5 DEF Magaz!Next

(* The sums of a step, from those before it and the changes.                *)
LEMMA SumsKept ==
  ASSUME GoodsInv, Magaz!WarehouseAssumption, UNCHANGED initial,
         NEW x \in Int, NEW y \in Int, NEW z \in Int, NEW n \in Int,
         Magaz!SumFunction(mag') = Magaz!SumFunction(mag) + x,
         Magaz!SumFunction(Magaz!Bought') = Magaz!SumFunction(Magaz!Bought) + y,
         LoadSize * loads' = LoadSize * loads + n,
         Magaz!SumFunction(Magaz!Uncleared') = Magaz!SumFunction(Magaz!Uncleared) + z,
         x + y = n + z
  PROVE  Magaz!GoodsConserved'
<1>1. /\ Magaz!SumFunction(mag) \in Int /\ Magaz!SumFunction(Magaz!Bought) \in Int
      /\ Magaz!SumFunction(Magaz!Uncleared) \in Int
      /\ Magaz!SumFunction(initial) \in Int /\ LoadSize * loads \in Int
  BY Stocked, SumTyped DEF GoodsInv
<1>2. Magaz!SumFunction(mag) + Magaz!SumFunction(Magaz!Bought)
        = Magaz!SumFunction(initial) + LoadSize * loads + Magaz!SumFunction(Magaz!Uncleared)
  BY DEF GoodsInv, Magaz!GoodsConserved
<1>3. \A m0, b0, i0, l0, u0 \in Int :
        m0 + b0 = i0 + l0 + u0 => (m0 + x) + (b0 + y) = i0 + (l0 + n) + (u0 + z)
  OBVIOUS
<1>4. (Magaz!SumFunction(mag) + x) + (Magaz!SumFunction(Magaz!Bought) + y)
        = Magaz!SumFunction(initial) + (LoadSize * loads + n)
            + (Magaz!SumFunction(Magaz!Uncleared) + z)
  BY <1>1, <1>2, <1>3
<1> QED BY <1>4 DEF Magaz!GoodsConserved

(* A purchase: what is bought is not yet cleared.                           *)
LEMMA BuyConserves ==
  ASSUME Magaz!WarehouseAssumption, GoodsInv, NEW b \in Buyer, Magaz!Buy(b)
  PROVE  Magaz!GoodsConserved'
<1> DEFINE x == mag[shop[b]]
<1>1. wpc \in [Magaz!Worker -> PC] /\ b \in Magaz!Worker /\ Buyer \subseteq Magaz!Worker
      /\ shop[b] \in Magaz!Shop /\ val \in [Buyer -> Int] /\ wanted \in [Buyer -> Nat]
  BY DEF GoodsInv, MagazInv, MagazPlaced, Whereabouts, Amounts, Goods, AtShop,
         Magaz!Buy, Magaz!Worker
<1>2. /\ IsFiniteSet(Buyer) /\ x \in Int /\ loads \in Int /\ LoadSize \in Int
      /\ Magaz!Bought \in [Buyer -> Int] /\ Magaz!Uncleared \in [Buyer -> Int]
  BY <1>1, Stocked DEF GoodsInv
<1>3. Magaz!Bought' = [Magaz!Bought EXCEPT ![b] = Magaz!Bought[b] + x]
  <2>1. \A c \in Buyer : Magaz!Bought'[c] = IF c = b THEN Magaz!Bought[b] + x ELSE Magaz!Bought[c]
    BY <1>1, <1>2 DEF Magaz!Buy, Magaz!Bought
  <2> QED BY <2>1 DEF Magaz!Bought
<1>4. Magaz!Uncleared' = [Magaz!Uncleared EXCEPT ![b] = Magaz!Uncleared[b] + x]
  <2>1. Magaz!Uncleared' = [Magaz!Uncleared EXCEPT ![b] = x] /\ Magaz!Uncleared[b] = 0
    BY <1>1 DEF Magaz!Buy, Magaz!Uncleared, Magaz!Goes
  <2>2. x = Magaz!Uncleared[b] + x
    BY <1>2, <2>1
  <2> QED BY <2>1, <2>2
<1>5. UNCHANGED <<mag, initial, loads>>
  BY DEF Magaz!Buy
<1> HIDE DEF x
<1>6. Magaz!SumFunction(Magaz!Bought') = Magaz!SumFunction(Magaz!Bought) + x
  <2>1. /\ Magaz!Bought' \in [Buyer -> Int] /\ Magaz!Bought'[b] = Magaz!Bought[b] + x
        /\ \A c \in Buyer \ {b} : Magaz!Bought'[c] = Magaz!Bought[c]
    BY <1>2, <1>3
  <2> QED BY <1>2, <2>1, SumMoves
<1>7. Magaz!SumFunction(Magaz!Uncleared') = Magaz!SumFunction(Magaz!Uncleared) + x
  <2>1. /\ Magaz!Uncleared' \in [Buyer -> Int] /\ Magaz!Uncleared'[b] = Magaz!Uncleared[b] + x
        /\ \A c \in Buyer \ {b} : Magaz!Uncleared'[c] = Magaz!Uncleared[c]
    BY <1>2, <1>4
  <2> QED BY <1>2, <2>1, SumMoves
<1>8. /\ Magaz!SumFunction(mag') = Magaz!SumFunction(mag) + 0
      /\ LoadSize * loads' = LoadSize * loads + 0
  BY <1>2, <1>5, Stocked, SumTyped DEF GoodsInv
<1> QED BY <1>2, <1>5, <1>6, <1>7, <1>8, SumsKept

(* What is taken is cleared: nobody else is buying at that shop.            *)
LEMMA EmptyConserves ==
  ASSUME Magaz!WarehouseAssumption, GoodsInv, NEW b \in Buyer, Magaz!Empty(b)
  PROVE  Magaz!GoodsConserved'
<1> DEFINE s == shop[b]
           d == -mag[s]
<1>1. wpc \in [Magaz!Worker -> PC] /\ b \in Magaz!Worker /\ Buyer \subseteq Magaz!Worker
      /\ s \in Magaz!Shop /\ \A c \in Buyer : wpc[c] = "empty" => shop[c] \in Magaz!Shop
  BY DEF GoodsInv, MagazInv, MagazPlaced, Whereabouts, Magaz!Empty, Magaz!Worker, AtShop
<1>2. /\ IsFiniteSet(Buyer) /\ IsFiniteSet(Magaz!Shop) /\ mag \in [Magaz!Shop -> Int]
      /\ loads \in Int /\ LoadSize \in Int
      /\ Magaz!Bought \in [Buyer -> Int] /\ Magaz!Uncleared \in [Buyer -> Int]
  BY Stocked DEF GoodsInv
<1>3. d \in Int /\ mag[s] + d = 0
  BY <1>1, <1>2
<1>4. mag' = [mag EXCEPT ![s] = mag[s] + d]
  <2>1. mag' = [mag EXCEPT ![s] = 0]
    BY DEF Magaz!Empty
  <2> QED BY <1>3, <2>1
<1>5. Magaz!Uncleared' = [Magaz!Uncleared EXCEPT ![b] = Magaz!Uncleared[b] + d]
  <2>1. Magaz!Uncleared[b] = mag[s]
    BY DEF Magaz!Uncleared, Magaz!Empty
  <2>2. \A c \in Buyer \ {b} :
          wpc'[c] = wpc[c] /\ (wpc[c] = "empty" => mag'[shop[c]] = mag[shop[c]])
    BY <1>1, <1>2, Apart DEF Magaz!Empty, Magaz!Goes, GoodsInv, AtShop
  <2>3. wpc'[b] # "empty" /\ shop' = shop
    BY <1>1 DEF Magaz!Empty, Magaz!Goes
  <2>4. \A c \in Buyer : Magaz!Uncleared'[c] = IF c = b THEN 0 ELSE Magaz!Uncleared[c]
    BY <2>2, <2>3 DEF Magaz!Uncleared
  <2> QED BY <1>3, <2>1, <2>4 DEF Magaz!Uncleared
<1>6. UNCHANGED <<Magaz!Bought, initial, loads>>
  BY DEF Magaz!Empty, Magaz!Bought
<1> HIDE DEF s, d
<1>7. Magaz!SumFunction(mag') = Magaz!SumFunction(mag) + d
  <2>1. /\ mag' \in [Magaz!Shop -> Int] /\ mag'[s] = mag[s] + d
        /\ \A t \in Magaz!Shop \ {s} : mag'[t] = mag[t]
    BY <1>1, <1>2, <1>3, <1>4
  <2> QED BY <1>1, <1>2, <1>3, <2>1, SumMoves
<1>8. Magaz!SumFunction(Magaz!Uncleared') = Magaz!SumFunction(Magaz!Uncleared) + d
  <2>1. /\ Magaz!Uncleared' \in [Buyer -> Int] /\ Magaz!Uncleared'[b] = Magaz!Uncleared[b] + d
        /\ \A c \in Buyer \ {b} : Magaz!Uncleared'[c] = Magaz!Uncleared[c]
    BY <1>2, <1>3, <1>5
  <2> QED BY <1>2, <1>3, <2>1, SumMoves
<1>9. /\ Magaz!SumFunction(Magaz!Bought') = Magaz!SumFunction(Magaz!Bought) + 0
      /\ LoadSize * loads' = LoadSize * loads + 0
  BY <1>2, <1>6, SumTyped
<1> QED BY <1>3, <1>6, <1>7, <1>8, <1>9, SumsKept

(* A load: the loader adds to what it has read, which is still there, and   *)
(* no buyer is taking from its shop.                                        *)
LEMMA LoadConserves ==
  ASSUME Magaz!WarehouseAssumption, GoodsInv, Magaz!AddLoad
  PROVE  Magaz!GoodsConserved'
<1> DEFINE s == shop[Loader]
<1>1. wpc \in [Magaz!Worker -> PC] /\ Loader \in Magaz!Worker \ Buyer
      /\ Buyer \subseteq Magaz!Worker
      /\ s \in Magaz!Shop /\ \A c \in Buyer : wpc[c] = "empty" => shop[c] \in Magaz!Shop
  BY DEF GoodsInv, MagazInv, MagazPlaced, Whereabouts, Magaz!AddLoad, Magaz!Worker, AtShop,
         Magaz!WarehouseAssumption
<1>2. /\ IsFiniteSet(Buyer) /\ IsFiniteSet(Magaz!Shop) /\ mag \in [Magaz!Shop -> Int]
      /\ loads \in Int /\ LoadSize \in Int
      /\ Magaz!Bought \in [Buyer -> Int] /\ Magaz!Uncleared \in [Buyer -> Int]
  BY Stocked DEF GoodsInv
<1>3. mag' = [mag EXCEPT ![s] = mag[s] + LoadSize]
  <2>1. reg[Loader] = mag[s]
    BY DEF GoodsInv, InShop, Magaz!AddLoad
  <2> QED BY <2>1 DEF Magaz!AddLoad
<1>4. UNCHANGED <<Magaz!Bought, initial>> /\ loads' = loads + 1
  BY DEF Magaz!AddLoad, Magaz!Bought
<1>5. UNCHANGED Magaz!Uncleared
  <2>1. \A c \in Buyer : wpc'[c] = wpc[c] /\ (wpc[c] = "empty" => mag'[shop[c]] = mag[shop[c]])
    BY <1>1, <1>2, <1>3, Apart DEF Magaz!AddLoad, Magaz!Goes, GoodsInv, AtShop
  <2> QED BY <2>1 DEF Magaz!Uncleared, Magaz!AddLoad
<1> HIDE DEF s
<1>6. LoadSize * loads' = LoadSize * loads + LoadSize
  BY <1>2, <1>4
<1>7. Magaz!SumFunction(mag') = Magaz!SumFunction(mag) + LoadSize
  <2>1. /\ mag' \in [Magaz!Shop -> Int] /\ mag'[s] = mag[s] + LoadSize
        /\ \A t \in Magaz!Shop \ {s} : mag'[t] = mag[t]
    BY <1>1, <1>2, <1>3
  <2> QED BY <1>1, <1>2, <2>1, SumMoves
<1>8. /\ Magaz!SumFunction(Magaz!Bought') = Magaz!SumFunction(Magaz!Bought) + 0
      /\ Magaz!SumFunction(Magaz!Uncleared') = Magaz!SumFunction(Magaz!Uncleared) + 0
  BY <1>2, <1>4, <1>5, SumTyped
<1> QED BY <1>2, <1>4, <1>6, <1>7, <1>8, SumsKept

(* The other steps move no goods.                                           *)
LEMMA StillConserves ==
  ASSUME GoodsInv, Magaz!WarehouseAssumption, UNCHANGED <<mag, val, wanted, initial, loads>>,
         \A c \in Buyer : wpc'[c] = "empty" <=> wpc[c] = "empty",
         \A c \in Buyer : wpc[c] = "empty" => shop'[c] = shop[c]
  PROVE  Magaz!GoodsConserved'
<1>1. UNCHANGED <<Magaz!Bought, Magaz!Uncleared>>
  BY DEF Magaz!Bought, Magaz!Uncleared
<1> QED BY <1>1 DEF GoodsInv, Magaz!GoodsConserved

LEMMA GoodsInductive ==
  ASSUME Magaz!WarehouseAssumption
  PROVE  GoodsInv /\ [Magaz!Next]_(Magaz!vars) => GoodsInv'
<1> SUFFICES ASSUME GoodsInv, [Magaz!Next]_(Magaz!vars) PROVE GoodsInv'
  OBVIOUS
<1>1. MagazInv' /\ Goods' /\ InShop'
  BY MagazInductive, GoodsKept, HeldKept, FreshKept DEF GoodsInv, InShop
<1>2. wpc \in [Magaz!Worker -> PC] /\ Buyer \subseteq Magaz!Worker /\ Loader \in Magaz!Worker
      /\ Loader \notin Buyer /\ shop \in [Magaz!Worker -> 0 .. MAGNUM]
  BY DEF GoodsInv, MagazInv, MagazPlaced, Whereabouts, Magaz!Worker, Magaz!WarehouseAssumption
<1>3. ASSUME NEW b \in Buyer, Magaz!BuyerRuns(b) PROVE Magaz!GoodsConserved' /\ initial' = initial
  <2>1. CASE Magaz!Buy(b)
    BY <2>1, BuyConserves DEF Magaz!Buy
  <2>2. CASE Magaz!Empty(b)
    BY <2>2, EmptyConserves DEF Magaz!Empty
  <2>3. CASE Magaz!NextRound(b) \/ Magaz!TryShop(b) \/ Magaz!NoShop(b)
    BY <1>2, <2>3, StillConserves DEF Magaz!NextRound, Magaz!TryShop, Magaz!NoShop, Magaz!Trylock,
                                      Magaz!Goes
  <2>4. CASE Magaz!LeaveShop(b) \/ Magaz!LoadA(b) \/ Magaz!StoreA(b)
    BY <1>2, <2>4, StillConserves DEF Magaz!LeaveShop, Magaz!LoadA, Magaz!StoreA, Magaz!Goes
  <2> QED BY <1>3, <2>1, <2>2, <2>3, <2>4 DEF Magaz!BuyerRuns
<1>4. ASSUME Magaz!LoaderRuns PROVE Magaz!GoodsConserved' /\ initial' = initial
  <2>1. CASE Magaz!AddLoad
    BY <2>1, LoadConserves DEF Magaz!AddLoad
  <2>2. CASE Magaz!TestA \/ Magaz!TryLoad \/ Magaz!ReadShop
    BY <1>2, <2>2, StillConserves DEF Magaz!TestA, Magaz!TryLoad, Magaz!ReadShop, Magaz!Trylock,
                                      Magaz!Goes
  <2>3. CASE Magaz!LeaveLoaded \/ Magaz!LoadRound
    BY <1>2, <2>3, StillConserves DEF Magaz!LeaveLoaded, Magaz!LoadRound, Magaz!Goes
  <2> QED BY <1>4, <2>1, <2>2, <2>3 DEF Magaz!LoaderRuns
<1>5. ASSUME UNCHANGED Magaz!vars PROVE Magaz!GoodsConserved' /\ initial' = initial
  BY <1>5, StillConserves DEF Magaz!vars
<1>6. Magaz!GoodsConserved' /\ initial' = initial
  BY <1>3, <1>4, <1>5 DEF Magaz!Next
<1> QED BY <1>1, <1>6 DEF GoodsInv

LEMMA GoodsInitial == ASSUME Magaz!WarehouseAssumption PROVE Magaz!Init => GoodsInv
<1> SUFFICES ASSUME Magaz!WarehouseAssumption, Magaz!Init PROVE GoodsInv
  OBVIOUS
<1>1. MagazInv /\ Goods
  BY MagazInitial, InitGoods
<1>2. InShop /\ initial \in [Magaz!Shop -> Int] /\ initial = mag
  BY <1>1, Stocked DEF InShop, Magaz!Init, AtShop, Magaz!Worker
<1>3. Magaz!Bought = [b \in Buyer |-> 0] /\ Magaz!Uncleared = [b \in Buyer |-> 0]
  <2>1. val \in [Buyer -> Int] /\ wanted = val /\ \A b \in Buyer : wpc[b] = "test"
    BY <1>1 DEF Magaz!Init, MagazInv, MagazPlaced, Amounts, Magaz!Worker
  <2> QED BY <2>1 DEF Magaz!Bought, Magaz!Uncleared
<1>4. Magaz!SumFunction(Magaz!Bought) = 0 /\ Magaz!SumFunction(Magaz!Uncleared) = 0
  BY <1>3, DoneFinite, SumOfNothing
<1>5. Magaz!SumFunction(mag) \in Int /\ LoadSize * loads = 0
  BY <1>1, Stocked, SumTyped DEF Magaz!Init
<1>6. Magaz!GoodsConserved
  BY <1>2, <1>4, <1>5 DEF Magaz!GoodsConserved
<1> QED BY <1>1, <1>2, <1>6 DEF GoodsInv

(* magaz.c: whatever the buyers and the loader do at once, nothing is sold  *)
(* twice and no load is lost.                                               *)
THEOREM GoodsStay == Spec => []GoodsConserved
<1>1. Init => GoodsInv
  BY ExercisesAssumption, GoodsInitial DEF Init
<1>2. GoodsInv /\ [Next]_vars => GoodsInv'
  BY ExercisesAssumption, GoodsInductive, MagazSteps
<1>3. GoodsInv => GoodsConserved
  BY DEF GoodsInv, GoodsConserved
<1> QED BY <1>1, <1>2, <1>3, PTL DEF Spec

=============================================================================
