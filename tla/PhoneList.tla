------------------------------ MODULE PhoneList ------------------------------
(***************************************************************************)
(* What the menu of the phone books promises: a list to which subscribers  *)
(* are added, and in which a number finds one or deletes one.              *)
(***************************************************************************)
EXTENDS Integers, SequencesExt

CONSTANTS
  Name, Number,
  Limit,  \* subscribers at most
  Query,  \* what a user may ask for
  Fits,   \* pairs of a query and a number that fits it
  Unsure, \* the queries that need not find the first that fits, or any
  NoEntry

VARIABLES
  list,  \* the subscribers, in the order they were added
  shown  \* whom the last search has shown

Entry == [name : Name, num : Number]

Hits(q) == {i \in DOMAIN list : <<q, list[i].num>> \in Fits}

(* Those a search may show.                                                 *)
Found(q) ==
  IF q \in Unsure THEN Hits(q)
  ELSE {i \in Hits(q) : \A j \in Hits(q) : i <= j}

Add(e) ==
  /\ Len(list) < Limit
  /\ list' = Append(list, e)
  /\ UNCHANGED shown

Search(q) == \E i \in Found(q) : shown' = list[i] /\ UNCHANGED list

Delete(q) == \E i \in Found(q) : shown' = list[i] /\ list' = RemoveAt(list, i)

(* A search, to delete or not, that finds nobody.                           *)
Miss(q) ==
  /\ Found(q) = {} \/ q \in Unsure
  /\ shown' = NoEntry
  /\ UNCHANGED list

Init == list = <<>> /\ shown = NoEntry

Next ==
  \/ \E e \in Entry : Add(e)
  \/ \E q \in Query : Search(q) \/ Delete(q) \/ Miss(q)

Spec == Init /\ [][Next]_<<list, shown>>

=============================================================================
