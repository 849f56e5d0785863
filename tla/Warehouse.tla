----------------------------- MODULE Warehouse ------------------------------
(***************************************************************************)
(* ex14/magaz.c: buyers empty shops, one after another, until they have    *)
(* what they need; a loader adds to every shop it finds unlocked until a,  *)
(* the count of the buyers that have finished, says all have.              *)
(*                                                                         *)
(* A mutex per shop is only ever tried.  Any result other than 0 makes a   *)
(* buyer try the next shop (EAGAIN || EBUSY is always true).  a is         *)
(* incremented and read without a lock: a load and a store.                *)
(***************************************************************************)
EXTENDS Integers, FiniteSets, Functions

CONSTANTS
  Buyer,     \* the threads of tfunc (NUM_THREADS of them)
  MAGNUM,    \* the shops
  Stocks,    \* what a shop may hold at the start
  Needs,     \* what a buyer may need
  LoadSize,  \* what the loader adds to a shop
  MaxLoads,  \* bound: loads
  Loader, Free

Shop   == 0 .. MAGNUM - 1
Worker == Buyer \cup {Loader}

WarehouseAssumption ==
  /\ IsFiniteSet(Buyer) /\ Loader \notin Buyer /\ Free \notin Worker
  /\ MAGNUM \in Nat \ {0} /\ MaxLoads \in Nat
  /\ LoadSize \in Nat /\ Stocks \subseteq Nat /\ Needs \subseteq Nat

VARIABLES
  mag,        \* what each shop holds
  foo_mutex,  \* who holds the lock of each shop
  pc, shop,   \* each thread: where it is, its loop over the shops
  reg,        \* what it has loaded: from a shop, or from a
  val,        \* what a buyer still needs
  a,          \* the count
  loads, initial, wanted \* loads made, and how things were at the start

vars == <<mag, foo_mutex, pc, shop, reg, val, a, loads, initial, wanted>>

NUM_THREADS == Cardinality(Buyer)

-----------------------------------------------------------------------------
(* Locks and loops.                                                         *)

Goes(w, where) == pc' = [pc EXCEPT ![w] = where]

(* Mutant: any result of trylock is taken for success. *)
Trylock_Always(w, where) ==
  /\ Goes(w, where)
  /\ foo_mutex' = [foo_mutex EXCEPT ![shop[w]] = w]
  /\ UNCHANGED shop

(* The lock of the shop of w: taken, or not and the next shop is tried.     *)
Trylock(w, where) ==
  \/ /\ foo_mutex[shop[w]] = Free
     /\ foo_mutex' = [foo_mutex EXCEPT ![shop[w]] = w]
     /\ Goes(w, where) /\ UNCHANGED shop
  \/ /\ foo_mutex[shop[w]] # Free
     /\ shop' = [shop EXCEPT ![w] = @ + 1]
     /\ UNCHANGED <<foo_mutex, pc>>

Unlock(w) == foo_mutex' = [foo_mutex EXCEPT ![shop[w]] = Free]

-----------------------------------------------------------------------------
(* A buyer: action() of one need.                                           *)

NextRound(b) ==
  /\ pc[b] = "test"
  /\ shop' = [shop EXCEPT ![b] = 0]
  /\ Goes(b, IF val[b] > 0 THEN "try" ELSE "load a")
  /\ UNCHANGED <<mag, foo_mutex, reg, val, a, loads, initial, wanted>>

TryShop(b) ==
  /\ pc[b] = "try" /\ shop[b] < MAGNUM
  /\ Trylock(b, "buy")
  /\ UNCHANGED <<mag, reg, val, a, loads, initial, wanted>>

NoShop(b) ==
  /\ pc[b] = "try" /\ shop[b] = MAGNUM
  /\ Goes(b, "test")
  /\ UNCHANGED <<mag, foo_mutex, shop, reg, val, a, loads, initial, wanted>>

(* Mutant: the need grows by what is bought. *)
Buy_More(b) ==
  /\ pc[b] = "buy"
  /\ val' = [val EXCEPT ![b] = @ + mag[shop[b]]]
  /\ Goes(b, "empty")
  /\ UNCHANGED <<mag, foo_mutex, shop, reg, a, loads, initial, wanted>>

Buy(b) ==
  /\ pc[b] = "buy"
  /\ val' = [val EXCEPT ![b] = @ - mag[shop[b]]]
  /\ Goes(b, "empty")
  /\ UNCHANGED <<mag, foo_mutex, shop, reg, a, loads, initial, wanted>>

Empty(b) ==
  /\ pc[b] = "empty"
  /\ mag' = [mag EXCEPT ![shop[b]] = 0]
  /\ Goes(b, "leave")
  /\ UNCHANGED <<foo_mutex, shop, reg, val, a, loads, initial, wanted>>

LeaveShop(b) ==
  /\ pc[b] = "leave"
  /\ Unlock(b)
  /\ Goes(b, "test")
  /\ UNCHANGED <<mag, shop, reg, val, a, loads, initial, wanted>>

LoadA(b) ==
  /\ pc[b] = "load a"
  /\ reg' = [reg EXCEPT ![b] = a]
  /\ Goes(b, "store a")
  /\ UNCHANGED <<mag, foo_mutex, shop, val, a, loads, initial, wanted>>

StoreA(b) ==
  /\ pc[b] = "store a"
  /\ a' = reg[b] + 1
  /\ Goes(b, "done")
  /\ UNCHANGED <<mag, foo_mutex, shop, reg, val, loads, initial, wanted>>

-----------------------------------------------------------------------------
(* The loader.                                                              *)

(* Mutant: one buyer need not have finished. *)
AllFinished_ButOne == a >= NUM_THREADS - 1

AllFinished == a >= NUM_THREADS

TestA ==
  /\ pc[Loader] = "test"
  /\ shop' = [shop EXCEPT ![Loader] = 0]
  /\ Goes(Loader, IF AllFinished THEN "done" ELSE "try")
  /\ UNCHANGED <<mag, foo_mutex, reg, val, a, loads, initial, wanted>>

TryLoad ==
  /\ pc[Loader] = "try" /\ shop[Loader] < MAGNUM /\ loads < MaxLoads
  /\ Trylock(Loader, "read")
  /\ UNCHANGED <<mag, reg, val, a, loads, initial, wanted>>

ReadShop ==
  /\ pc[Loader] = "read"
  /\ reg' = [reg EXCEPT ![Loader] = mag[shop[Loader]]]
  /\ Goes(Loader, "add")
  /\ UNCHANGED <<mag, foo_mutex, shop, val, a, loads, initial, wanted>>

AddLoad ==
  /\ pc[Loader] = "add"
  /\ mag' = [mag EXCEPT ![shop[Loader]] = reg[Loader] + LoadSize]
  /\ loads' = loads + 1
  /\ Goes(Loader, "leave")
  /\ UNCHANGED <<foo_mutex, shop, reg, val, a, initial, wanted>>

LeaveLoaded ==
  /\ pc[Loader] = "leave"
  /\ Unlock(Loader)
  /\ shop' = [shop EXCEPT ![Loader] = @ + 1]
  /\ Goes(Loader, "try")
  /\ UNCHANGED <<mag, reg, val, a, loads, initial, wanted>>

LoadRound ==
  /\ pc[Loader] = "try" /\ shop[Loader] = MAGNUM
  /\ Goes(Loader, "test")
  /\ UNCHANGED <<mag, foo_mutex, shop, reg, val, a, loads, initial, wanted>>

-----------------------------------------------------------------------------
Init ==
  /\ mag \in [Shop -> Stocks] /\ val \in [Buyer -> Needs]
  /\ initial = mag /\ wanted = val /\ loads = 0 /\ a = 0
  /\ foo_mutex = [s \in Shop |-> Free]
  /\ pc = [w \in Worker |-> "test"] /\ shop = [w \in Worker |-> 0]
  /\ reg = [w \in Worker |-> 0]

BuyerRuns(b) ==
  \/ NextRound(b) \/ TryShop(b) \/ NoShop(b) \/ Buy(b) \/ Empty(b) \/ LeaveShop(b)
  \/ LoadA(b) \/ StoreA(b)

LoaderRuns ==
  TestA \/ TryLoad \/ ReadShop \/ AddLoad \/ LeaveLoaded \/ LoadRound

Next == LoaderRuns \/ \E b \in Buyer : BuyerRuns(b)

Spec == Init /\ [][Next]_vars

-----------------------------------------------------------------------------
(* Properties.                                                              *)

(* Every variable has its type; a buyer never needs more than it wanted.    *)
TypeOK ==
  /\ mag \in [Shop -> Nat]
  /\ foo_mutex \in [Shop -> Worker \cup {Free}]
  /\ pc \in [Worker -> {"test", "try", "buy", "empty", "leave", "load a", "store a",
                        "read", "add", "done"}]
  /\ shop \in [Worker -> 0 .. MAGNUM]
  /\ reg \in [Worker -> Nat] /\ a \in 0 .. NUM_THREADS
  /\ val \in [Buyer -> Int] /\ \A b \in Buyer : val[b] <= wanted[b]
  /\ loads \in 0 .. MaxLoads

(* What the buyers have bought, and what of it is not cleared from a shop.  *)
Bought    == [b \in Buyer |-> wanted[b] - val[b]]
Uncleared == [b \in Buyer |-> IF pc[b] = "empty" THEN mag[shop[b]] ELSE 0]

(* Nothing is sold twice, nor lost under the loader's feet: what is in the  *)
(* shops and what was bought is what there was and what was loaded.         *)
GoodsConserved ==
  SumFunction(mag) + SumFunction(Bought)
    = SumFunction(initial) + LoadSize * loads + SumFunction(Uncleared)

(* The count may fall behind (two buyers may add to the same a), but it is  *)
(* never ahead: while anybody needs goods the loader goes on.               *)
LoaderOutlivesNeed ==
  pc[Loader] = "done" => \A b \in Buyer : pc[b] = "done" /\ val[b] <= 0

=============================================================================
