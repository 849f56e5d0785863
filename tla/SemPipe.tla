------------------------------- MODULE SemPipe -------------------------------
(***************************************************************************)
(* pipe.c: a parent writes a string into a pipe, its child reads it and    *)
(* answers through the same pipe; a semaphore is to keep the parent from   *)
(* reading before.  The pipe belongs to one run of the program, but the    *)
(* semaphore belongs to the key: all runs share it, and it stays when they *)
(* have ended.                                                             *)
(*                                                                         *)
(* "Hello, world!" is two pieces here: the three bytes that the parent     *)
(* reads at a time, and the rest.                                          *)
(***************************************************************************)
EXTENDS Integers, Sequences

CONSTANTS
  Run,    \* the runs of the program, one after the other in any order
  Keyed   \* those started in the directory of 08-2a.c, the file of the key

PipeAssumption == Keyed \subseteq Run

VARIABLES
  ppc, cpc,   \* the parent and the child of each run: where it is
  pipe,       \* what is in the pipe of each run
  pgot, cgot, \* what the two have read
  semid       \* the value of the semaphore

vars == <<ppc, cpc, pipe, pgot, cgot, semid>>

Hello == <<"Hel", "lo, world!">>
Ok    == <<"Ok">>

ParentGoes(r, where) == ppc' = [ppc EXCEPT ![r] = where]
ChildGoes(r, where)  == cpc' = [cpc EXCEPT ![r] = where]

ParentEnded(r) == ppc[r] \in {"done", "killed"}

-----------------------------------------------------------------------------
(* The user starts a run when the parent of the one before has ended.       *)
Fork(r) ==
  /\ ppc[r] = "off" /\ \A q \in Run : ppc[q] = "off" \/ ParentEnded(q)
  /\ ParentGoes(r, "write") /\ ChildGoes(r, "read")
  /\ UNCHANGED <<pipe, pgot, cgot, semid>>

ParentWrites(r) ==
  /\ ppc[r] = "write"
  /\ pipe' = [pipe EXCEPT ![r] = @ \o Hello]
  /\ ParentGoes(r, "key")
  /\ UNCHANGED <<cpc, pgot, cgot, semid>>

ParentKey(r) ==
  /\ ppc[r] = "key"
  /\ ParentGoes(r, IF r \in Keyed THEN "wait" ELSE "done")
  /\ UNCHANGED <<cpc, pipe, pgot, cgot, semid>>

(* Mutant: the parent does not wait for the semaphore. *)
ParentWaits_Not(r) ==
  /\ ppc[r] = "wait"
  /\ ParentGoes(r, "read")
  /\ UNCHANGED <<cpc, pipe, pgot, cgot, semid>>

ParentWaits(r) ==
  /\ ppc[r] = "wait" /\ semid > 0
  /\ semid' = semid - 1
  /\ ParentGoes(r, "read")
  /\ UNCHANGED <<cpc, pipe, pgot, cgot>>

(* An empty pipe that no process can write to ends the read with nothing.   *)
ParentReads(r) ==
  /\ ppc[r] = "read"
  /\ \/ /\ pipe[r] # <<>>
        /\ pgot' = [pgot EXCEPT ![r] = <<Head(pipe[r])>>]
        /\ pipe' = [pipe EXCEPT ![r] = Tail(@)]
     \/ pipe[r] = <<>> /\ cpc[r] = "done" /\ UNCHANGED <<pgot, pipe>>
  /\ ParentGoes(r, "close")
  /\ UNCHANGED <<cpc, cgot, semid>>

ParentCloses(r) ==
  /\ ppc[r] = "close"
  /\ ParentGoes(r, "done")
  /\ UNCHANGED <<cpc, pipe, pgot, cgot, semid>>

-----------------------------------------------------------------------------
(* The child can itself write to the pipe, so its read waits for ever if    *)
(* nothing comes.                                                           *)
ChildReads(r) ==
  /\ cpc[r] = "read" /\ pipe[r] # <<>>
  /\ cgot' = [cgot EXCEPT ![r] = pipe[r]]
  /\ pipe' = [pipe EXCEPT ![r] = <<>>]
  /\ ChildGoes(r, "write")
  /\ UNCHANGED <<ppc, pgot, semid>>

(* A write to a pipe without a reader ends the process.                     *)
ChildWrites(r) ==
  /\ cpc[r] = "write"
  /\ \/ ~ParentEnded(r) /\ pipe' = [pipe EXCEPT ![r] = @ \o Ok] /\ ChildGoes(r, "post")
     \/ ParentEnded(r) /\ ChildGoes(r, "done") /\ UNCHANGED pipe
  /\ UNCHANGED <<ppc, pgot, cgot, semid>>

(* Mutant: the child subtracts one too, as if its sembuf were the parent's. *)
ChildPosts_Waits(r) ==
  /\ cpc[r] = "post"
  /\ semid > 0 /\ semid' = semid - 1
  /\ ChildGoes(r, "done")
  /\ UNCHANGED <<ppc, pipe, pgot, cgot>>

ChildPosts(r) ==
  /\ cpc[r] = "post"
  /\ semid' = IF r \in Keyed THEN semid + 1 ELSE semid
  /\ ChildGoes(r, "done")
  /\ UNCHANGED <<ppc, pipe, pgot, cgot>>

(* Ctrl-C reaches the two as long as the parent runs.                       *)
Kill(r) ==
  /\ ppc[r] # "off" /\ ~ParentEnded(r)
  /\ ParentGoes(r, "killed") /\ ChildGoes(r, "done")
  /\ UNCHANGED <<pipe, pgot, cgot, semid>>

-----------------------------------------------------------------------------
Init ==
  /\ ppc = [r \in Run |-> "off"] /\ cpc = ppc
  /\ pipe = [r \in Run |-> <<>>] /\ pgot = pipe /\ cgot = pipe
  /\ semid = 0

Runs(r) ==
  \/ ParentWrites(r) \/ ParentKey(r) \/ ParentWaits(r) \/ ParentReads(r) \/ ParentCloses(r)
  \/ ChildReads(r) \/ ChildWrites(r) \/ ChildPosts(r)

Next == \E r \in Run : Fork(r) \/ Runs(r) \/ Kill(r)

(* The processes of a run are scheduled; nobody need start or kill one.     *)
Spec == Init /\ [][Next]_vars /\ \A r \in Run : WF_vars(Runs(r))

-----------------------------------------------------------------------------
(* Properties.                                                              *)

(* As long as nothing is killed the child reads the parent's string and the *)
(* parent the child's answer, in every run on the same semaphore.           *)
ExchangeRight ==
  (\A r \in Run : ppc[r] # "killed") =>
    \A r \in Run : cgot[r] \in {<<>>, Hello} /\ pgot[r] \in {<<>>, Ok}

(* Both processes of every run come to an end, whatever the runs killed     *)
(* before have left in the semaphore: again and again all that were started *)
(* have ended.                                                              *)
RunsEnd == []<>(\A r \in Run : ppc[r] # "off" => ParentEnded(r) /\ cpc[r] = "done")

=============================================================================
