----------------------------- MODULE Sequential ------------------------------
(***************************************************************************)
(* CommandLine, PhoneArray, PhoneHeap and Spiral for model checking: in a  *)
(* behaviour one of them runs, and the others stay in an initial state.    *)
(***************************************************************************)
EXTENDS Integers

CONSTANTS
  MaxWords,                                \* of CommandLine
  Name, Full, Short, Places, Zeros, NoEntry, \* of PhoneArray
  Stem, Ending, MaxTyped, MaxEntries, NoEnding, \* of PhoneHeap
  Sizes                                    \* of Spiral

VARIABLES
  algorithm, \* which of them runs
  prog, argv, k, port, addr, ifname, outcome,
  my_sprav, chel, poisk, found,
  book, last, broken,
  size, turn, m, next, counter, status, co

Line  == INSTANCE CommandLine
Array == INSTANCE PhoneArray WITH N <- Places
Heap  == INSTANCE PhoneHeap
Snail == INSTANCE Spiral WITH N <- size, a <- next

SequentialAssumption ==
  /\ Line!LineAssumption /\ Array!ArrayAssumption
  /\ Heap!HeapAssumption /\ Snail!SpiralAssumption

lineVars  == <<prog, argv, k, port, addr, ifname, outcome>>
arrayVars == <<my_sprav, chel, poisk, found>>
heapVars  == <<book, last, broken>>
snailVars == <<size, turn, m, next, counter, status, co>>

TypeOK ==
  Array!TypeOK /\ Heap!TypeOK /\ Snail!TypeOK

(* One initial state is enough for what does not run.                       *)
Init ==
  /\ algorithm \in {"line", "array", "heap", "spiral"}
  /\ Array!Init /\ Heap!Init
  /\ Snail!Init /\ (algorithm # "spiral" => size = 1)
  /\ Line!Init /\ (algorithm # "line" => prog = "server" /\ argv = <<>>)

(* The same for all of them.                                                *)
Rests == Init /\ algorithm = "spiral" /\ size = 1

Next ==
  /\ UNCHANGED algorithm
  /\ \/ algorithm = "line" /\ Line!Next /\ UNCHANGED <<arrayVars, heapVars, snailVars>>
     \/ algorithm = "array" /\ Array!Next /\ UNCHANGED <<lineVars, heapVars, snailVars>>
     \/ algorithm = "heap" /\ Heap!Next /\ UNCHANGED <<lineVars, arrayVars, snailVars>>
     \/ algorithm = "spiral" /\ Snail!Next /\ UNCHANGED <<lineVars, arrayVars, heapVars>>

=============================================================================
