------------------------------- MODULE Spiral --------------------------------
(***************************************************************************)
(* ex2.4.c: the numbers from 1 to N * N go into a square along a spiral,   *)
(* one side per turn of the loop.  N is 9 there; here it is any of Sizes.  *)
(***************************************************************************)
EXTENDS Integers, FiniteSets

CONSTANT Sizes

SpiralAssumption == Sizes \subseteq Nat \ {0}

VARIABLES
  N, turn,       \* turn is the k of the loop
  m,             \* 0 is what has not been written
  a, counter, status, co

vars == <<N, turn, m, a, counter, status, co>>

Cell == (0..(N - 1)) \X (0..(N - 1))

TypeOK ==
  /\ N \in Sizes /\ turn \in 0..(2 * N - 1)
  /\ m \in [Cell -> 0..(N * N)] /\ a \in 1..(N * N + 1)
  /\ counter \in -1..N /\ status \in 0..3 /\ co \in 0..N

(* The square with numbers from a on in the cells line[0], line[1], ...     *)
Filled(line) ==
  [c \in Cell |->
    IF \E i \in DOMAIN line : c = line[i]
      THEN a + CHOOSE i \in DOMAIN line : c = line[i] ELSE m[c]]

(* The same with the last number in its place, if it is the next one.       *)
Completed(square, next, cell) ==
  IF next = N * N THEN [square EXCEPT ![cell] = N * N] ELSE square

Turn(from, to) ==
  /\ turn < 2 * N - 1 /\ status = from
  /\ turn' = turn + 1 /\ status' = to
  /\ UNCHANGED N

(* How often a loop runs.                                                   *)
Rounds(n) == IF n > 0 THEN n ELSE 0

-----------------------------------------------------------------------------
(* The last number of an odd square is written here, and the loop is empty. *)
Top ==
  LET n == IF co = 0 THEN N ELSE Rounds(N - 2 * co - 1)
      row == Filled([i \in 0..(n - 1) |-> <<counter + co, co + i>>])
  IN /\ Turn(0, 1)
     /\ m' = IF N % 2 = 1 THEN Completed(row, a, <<N \div 2, N \div 2>>) ELSE row
     /\ a' = a + n
     /\ counter' = (IF n = 0 THEN counter ELSE N) - 1
     /\ UNCHANGED co

(* Mutant: every right side begins one below the top, as the first one. *)
Right_Below ==
  LET n == Rounds(N - 2 * co - 2)
      column == Filled([i \in 0..(n - 1) |-> <<co + 1 + i, counter - co>>])
  IN /\ Turn(1, 2)
     /\ m' = IF N % 2 = 0 THEN Completed(column, a + n, <<N \div 2, N \div 2 - 1>>) ELSE column
     /\ a' = a + n
     /\ UNCHANGED <<counter, co>>

(* The last number of an even square is written after its loop.             *)
Right ==
  LET first == IF co = 0 THEN 1 ELSE co
      n == Rounds(N - 2 * first)
      column == Filled([i \in 0..(n - 1) |-> <<first + i, counter - co>>])
  IN /\ Turn(1, 2)
     /\ m' = IF N % 2 = 0 THEN Completed(column, a + n, <<N \div 2, N \div 2 - 1>>) ELSE column
     /\ a' = a + n
     /\ UNCHANGED <<counter, co>>

Bottom ==
  LET first == IF co = 0 THEN N - 1 ELSE N - co - 2
      n == Rounds(first - co)
  IN /\ Turn(2, 3)
     /\ m' = Filled([i \in 0..(n - 1) |-> <<counter - co, first - i>>])
     /\ a' = a + n
     /\ counter' = 0
     /\ UNCHANGED co

Left ==
  LET n == Rounds(N - 1 - 2 * co)
  IN /\ Turn(3, 0)
     /\ m' = Filled([i \in 0..(n - 1) |-> <<N - 1 - co - i, counter + co>>])
     /\ a' = a + n
     /\ counter' = 0
     /\ co' = co + 1

Init ==
  /\ N \in Sizes /\ turn = 0
  /\ m = [c \in Cell |-> 0]
  /\ a = 1 /\ counter = 0 /\ status = 0 /\ co = 0

Next == Top \/ Right \/ Bottom \/ Left

Spec == Init /\ [][Next]_vars

-----------------------------------------------------------------------------
(* Properties.                                                              *)

(* Written cells, where each number is, and the way from one to the next.   *)
Written == {c \in Cell : m[c] # 0}
Place(v) == CHOOSE c \in Written : m[c] = v
Way(v) == <<Place(v + 1)[1] - Place(v)[1], Place(v + 1)[2] - Place(v)[2]>>

RightOf(way) == <<way[2], -way[1]>>

(* The cell straight on from number v, if it was free when v was written.   *)
StraightOn(v) == <<Place(v)[1] + Way(v - 1)[1], Place(v)[2] + Way(v - 1)[2]>>
FreeAfter(v) == {c \in Cell : m[c] = 0 \/ m[c] > v}

(* At every turn of the loop the cells written hold the first numbers, once *)
(* each, along the way of one who starts to the right at the first cell,    *)
(* goes straight on as long as there is a free cell, and turns right where  *)
(* there is none; in the end all are written, unless N is two.              *)
SpiralFollowed ==
  LET last == Cardinality(Written) IN
  /\ {m[c] : c \in Written} = 1..last
  /\ last > 0 => Place(1) = <<0, 0>>
  /\ last > 1 => Way(1) = <<0, 1>>
  /\ \A v \in 2..(last - 1) :
       Way(v) = IF StraightOn(v) \in FreeAfter(v) THEN Way(v - 1) ELSE RightOf(Way(v - 1))
  /\ (turn = 2 * N - 1 /\ N # 2) => last = N * N

=============================================================================
