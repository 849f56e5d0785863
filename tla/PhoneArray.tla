----------------------------- MODULE PhoneArray ------------------------------
(***************************************************************************)
(* ex4.3.c: the phone book in an array of N subscribers.  A number has 11  *)
(* characters or fewer, and 11 are compared: behind a short one stand      *)
(* zeros, or what a longer one has left there.  Texts longer than their    *)
(* place are not typed; the zeros that end poisk and c there fall on bytes *)
(* that are zero, or written before they are read.                         *)
(***************************************************************************)
EXTENDS Integers, FiniteSetsExt

CONSTANTS
  Name,
  Full, Short, \* numbers of 11 characters and of fewer
  N,
  Zeros, NoEntry

ArrayAssumption ==
  /\ N \in Nat \ {0}
  /\ Full \cap Short = {} /\ Zeros \notin Full \cup Short
  /\ NoEntry \notin [name : Name, num : Full \cup Short]

VARIABLES
  my_sprav, chel,
  poisk, \* the number searched for last
  found  \* the subscriber fpoisk() has shown last

vars == <<my_sprav, chel, poisk, found>>

Number == Full \cup Short
Slot == 0..(N - 1)

(* A place for a number: its text, and what is left behind a short one.     *)
Text == [text : Number \cup {Zeros}, rest : Full \cup {Zeros}]
Blank == [text |-> Zeros, rest |-> Zeros]
Nobody == [name |-> Zeros, num |-> Blank]

TypeOK ==
  /\ my_sprav \in [Slot -> [name : Name \cup {Zeros}, num : Text]]
  /\ chel \in 0..N /\ poisk \in Text
  /\ found \in [name : Name, num : Number] \cup {NoEntry}

(* scanf() of a number into a place.                                        *)
Typed(place, n) ==
  [text |-> n,
   rest |-> CASE n \in Full -> Zeros
              [] n \notin Full /\ place.text \in Full -> place.text
              [] OTHER -> place.rest]

Shown(e) == [name |-> e.name, num |-> e.num.text]

fpoisk(p) == {i \in Slot : my_sprav[i].num = p}

-----------------------------------------------------------------------------
Add(name, n) ==
  /\ chel < N
  /\ my_sprav' = [my_sprav EXCEPT ![chel] = [name |-> name, num |-> Typed(@.num, n)]]
  /\ chel' = chel + 1
  /\ UNCHANGED <<poisk, found>>

Find(n) ==
  /\ poisk' = Typed(poisk, n)
  /\ LET w == fpoisk(poisk') IN
     found' = IF w = {} THEN NoEntry ELSE Shown(my_sprav[Min(w)])
  /\ UNCHANGED <<my_sprav, chel>>

(* Mutant: the places are moved as far as there are subscribers. *)
Without_ToChel(w) ==
  [i \in Slot |-> IF i < w \/ i >= chel - 1 THEN my_sprav[i] ELSE my_sprav[i + 1]]

(* The places behind w move up, and the last one is cleared.                *)
Without(w) ==
  [i \in Slot |->
    IF i = N - 1 THEN Nobody ELSE IF i < w THEN my_sprav[i] ELSE my_sprav[i + 1]]

Delete(n) ==
  /\ poisk' = Typed(poisk, n)
  /\ LET w == fpoisk(poisk') IN
     \/ w = {} /\ found' = NoEntry /\ UNCHANGED <<my_sprav, chel>>
     \/ /\ w # {}
        /\ found' = Shown(my_sprav[Min(w)])
        /\ my_sprav' = Without(Min(w))
        /\ chel' = chel - 1

Init ==
  /\ my_sprav = [i \in Slot |-> Nobody] /\ chel = 0
  /\ poisk = Blank /\ found = NoEntry

Next ==
  \E n \in Number : (\E name \in Name : Add(name, n)) \/ Find(n) \/ Delete(n)

Spec == Init /\ [][Next]_vars

-----------------------------------------------------------------------------
(* Properties.                                                              *)

List == INSTANCE PhoneList WITH
  list <- [i \in 1..chel |-> Shown(my_sprav[i - 1])], shown <- found,
  Limit <- N, Query <- Number, Fits <- {<<n, n>> : n \in Number}, Unsure <- Short

(* The array with its count is the list: a number finds and deletes the     *)
(* first subscriber that has it, and after deletions the next one is added  *)
(* behind all others, with nothing of former ones in its place; but a short *)
(* number may miss him, once a longer one has been searched for.            *)
ArrayIsList == List!Spec

=============================================================================
