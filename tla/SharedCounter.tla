---------------------------- MODULE SharedCounter ----------------------------
(***************************************************************************)
(* streams.c: threads add one to a variable so many times each, without a  *)
(* lock: a++ reads the variable and writes it later.                       *)
(***************************************************************************)
EXTENDS Integers

CONSTANTS
  Thread,
  Times \* how often each adds one; a thousand times in the code

CounterAssumption == Thread # {} /\ Times \in Nat \ {0}

VARIABLES
  total,  \* the variable a
  tpc,    \* where each thread is
  copy,   \* what it has read
  turns   \* how often it has added one

vars == <<total, tpc, copy, turns>>

TypeOK ==
  /\ total \in Nat /\ copy \in [Thread -> Nat]
  /\ tpc \in [Thread -> {"off", "read", "write", "done"}]
  /\ turns \in [Thread -> 0..Times]

-----------------------------------------------------------------------------
Create(t) ==
  /\ tpc[t] = "off"
  /\ tpc' = [tpc EXCEPT ![t] = "read"]
  /\ UNCHANGED <<total, copy, turns>>

Read(t) ==
  /\ tpc[t] = "read"
  /\ copy' = [copy EXCEPT ![t] = total]
  /\ tpc' = [tpc EXCEPT ![t] = "write"]
  /\ UNCHANGED <<total, turns>>

(* Mutant: the variable is read before the loop and kept in a register. *)
Write_Kept(t) ==
  /\ tpc[t] = "write"
  /\ total' = copy[t] + 1
  /\ turns' = [turns EXCEPT ![t] = @ + 1]
  /\ tpc' = [tpc EXCEPT ![t] = IF turns'[t] = Times THEN "done" ELSE "write"]
  /\ UNCHANGED copy

Write(t) ==
  /\ tpc[t] = "write"
  /\ total' = copy[t] + 1
  /\ turns' = [turns EXCEPT ![t] = @ + 1]
  /\ tpc' = [tpc EXCEPT ![t] = IF turns'[t] = Times THEN "done" ELSE "read"]
  /\ UNCHANGED copy

Init ==
  /\ total = 0 /\ tpc = [t \in Thread |-> "off"]
  /\ copy = [t \in Thread |-> 0] /\ turns = copy

Next == \E t \in Thread : Create(t) \/ Read(t) \/ Write(t)

Spec == Init /\ [][Next]_vars

-----------------------------------------------------------------------------
(* Properties.                                                              *)

(* However many additions are lost, and although each thread may write what *)
(* it has read long ago over all that was added since, the variable is two  *)
(* at least when all are done, if they add more than once.                  *)
AtLeastTwo ==
  (Times > 1 /\ \A t \in Thread : tpc[t] = "done") => total >= 2

=============================================================================
