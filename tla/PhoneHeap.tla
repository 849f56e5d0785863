------------------------------ MODULE PhoneHeap ------------------------------
(***************************************************************************)
(* ex6.c: the phone book in memory that grows with it.  A deletion moves   *)
(* texts up by the size of a pointer: the first eight characters, which    *)
(* are the whole of a name here, but only the stem of a number of eleven.  *)
(* A search compares as many characters as were typed.                     *)
(*                                                                         *)
(* The array of pointers is made anew for every subscriber, with as many   *)
(* places as the texts just typed have characters.  What the program does  *)
(* once it has used a place outside (broken) is not followed any further.  *)
(***************************************************************************)
EXTENDS Integers, SequencesExt

CONSTANTS
  Name, Stem, Ending,
  MaxTyped,   \* characters of a first or a second name, with its end
  MaxEntries,
  NoEnding, NoEntry

HeapAssumption ==
  /\ MaxTyped \in Nat /\ MaxEntries \in Nat /\ NoEnding \notin Ending
  /\ NoEntry \notin [name : Name, num : Stem]

VARIABLES
  book,  \* the first chel of my_sprav
  last,  \* the subscriber fpoisk() has shown last
  broken \* a pointer was used that the array has no place for

vars == <<book, last, broken>>

Subscriber == [name : Name, stem : Stem, ending : Ending]

TypeOK ==
  /\ book \in SeqOf(Subscriber, MaxEntries)
  /\ last \in [name : Name, num : Stem] \cup {NoEntry}
  /\ broken \in BOOLEAN

(* A number in full, its stem, or nothing at all.                           *)
Nothing == [stem |-> NoEnding, ending |-> NoEnding]
Typed == [stem : Stem, ending : Ending \cup {NoEnding}] \cup {Nothing}

FitsStem(q, stem) == q = Nothing \/ q.stem = stem

fpoisk(q) ==
  {i \in DOMAIN book :
     FitsStem(q, book[i].stem) /\ q.ending \in {NoEnding, book[i].ending}}

Shown(e) == [name |-> e.name, num |-> e.stem]

-----------------------------------------------------------------------------
(* Names of first and second characters are typed.  The first realloc()     *)
(* leaves chel * first places, the next one first + second, and place chel  *)
(* is used after each: what is behind the array may still be there, or not. *)
Outside(first, second) ==
  LET chel == Len(book) IN
    (chel > 0 /\ chel * first <= chel) \/ first + second <= chel

Add(e, first, second) ==
  /\ ~broken /\ Len(book) < MaxEntries
  /\ \/ book' = Append(book, e) /\ UNCHANGED broken
     \/ Outside(first, second) /\ broken' = TRUE /\ UNCHANGED book
  /\ UNCHANGED last

Find(q) ==
  /\ ~broken
  /\ last' = IF fpoisk(q) = {} THEN NoEntry ELSE Shown(book[Min(fpoisk(q))])
  /\ UNCHANGED <<book, broken>>

(* Mutant: the names stay where they are. *)
Without_Names(w) ==
  [i \in 1..(Len(book) - 1) |->
    IF i < w THEN book[i] ELSE [book[i] EXCEPT !.stem = book[i + 1].stem]]

(* The endings stay where they are.                                         *)
Without(w) ==
  [i \in 1..(Len(book) - 1) |->
    IF i < w THEN book[i] ELSE [book[i + 1] EXCEPT !.ending = book[i].ending]]

Delete(q) ==
  /\ ~broken
  /\ LET w == fpoisk(q) IN
     \/ w = {} /\ last' = NoEntry /\ UNCHANGED book
     \/ w # {} /\ last' = Shown(book[Min(w)]) /\ book' = Without(Min(w))
  /\ UNCHANGED broken

Init == book = <<>> /\ last = NoEntry /\ broken = FALSE

Next ==
  \/ \E e \in Subscriber, first, second \in 1..MaxTyped : Add(e, first, second)
  \/ \E q \in Typed : Find(q) \/ Delete(q)

Spec == Init /\ [][Next]_vars

-----------------------------------------------------------------------------
(* Properties.                                                              *)

List == INSTANCE PhoneList WITH
  list <- [i \in DOMAIN book |-> Shown(book[i])], shown <- last,
  Number <- Stem, Limit <- MaxEntries, Query <- Typed,
  Fits <- {p \in Typed \X Stem : FitsStem(p[1], p[2])},
  Unsure <- {q \in Typed : q.ending # NoEnding}

(* With the numbers cut to what a deletion moves the book is a list: names  *)
(* stay with their numbers, a beginning of a number finds and deletes the   *)
(* first that has it, nothing typed the first of all; and a number in full  *)
(* nobody but one who shares its stem, though after a deletion it may miss  *)
(* him whose it is.                                                         *)
StemsAreList == List!Spec

=============================================================================
