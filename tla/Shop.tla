-------------------------------- MODULE Shop --------------------------------
(***************************************************************************)
(* lab11: customers empty the shelves of the shops they get into, a mover  *)
(* refills them, each shop is protected by a mutex that is only ever tried,*)
(* and main joins the customers, stops the mover and destroys the mutexes. *)
(* Logging (and its mutex) is left out.  try_lock_shop probes the shops    *)
(* from a random one on: any free shop may be the one it locks, and a round*)
(* that finds none is the same as not having tried yet.                    *)
(*                                                                         *)
(* An operator with a suffix _bug is a seeded slip in the one after it.    *)
(***************************************************************************)
EXTENDS Integers, FiniteSets, Functions

CONSTANTS
    Customers, Mover, Nobody,
    Shops,
    InitialStock,  \* what shop_init may put on a shelf
    Needs,         \* what a customer may need (buy_need)
    Delivery,      \* what the mover adds (500)
    ShelfCap       \* bound: the mover passes shops with more on the shelf

ASSUME ShopData == /\ Shops # {} /\ IsFiniteSet(Shops)
                   /\ Mover \notin Customers /\ Nobody \notin Customers /\ Mover # Nobody
                   /\ InitialStock \subseteq Nat /\ Needs \subseteq Nat \ {0}
                   /\ Delivery \in Nat \ {0} /\ ShelfCap \in Nat

VARIABLES
    stock, lock,   \* shop_stock, and the owner of each shop_mutex
    cust, need,    \* each customer: step, and what it still needs
    mover,         \* step of the mover
    place, shelf,  \* shop_idx and on_shelf/before of each thread
    stop_mover, main,
    delivered, bought, initial  \* history: totals since shop_init
vars == <<stock, lock, cust, need, mover, place, shelf, stop_mover, main,
          delivered, bought, initial>>
moverVars == <<mover, stop_mover, delivered>>
custVars  == <<cust, need, bought>>

Threads == Customers \cup {Mover}

Init ==
    /\ stock \in [Shops -> InitialStock]
    /\ lock = [s \in Shops |-> Nobody]
    /\ need \in [Customers -> Needs]
    /\ cust = [c \in Customers |-> "seek"] /\ mover = "test"
    /\ place = [t \in Threads |-> CHOOSE s \in Shops : TRUE]
    /\ shelf = [t \in Threads |-> 0]
    /\ stop_mover = FALSE /\ main = "join"
    /\ delivered = 0 /\ bought = 0 /\ initial = SumFunction(stock)

\* trylock of a free shop, and the read of its shelf under the lock
Lock(t, s) ==
    /\ lock[s] = Nobody /\ lock' = [lock EXCEPT ![s] = t]
    /\ place' = [place EXCEPT ![t] = s]
Unlock(t) == lock' = [lock EXCEPT ![place[t]] = Nobody]

CustStep(c, from, to) == cust[c] = from /\ cust' = [cust EXCEPT ![c] = to]

\* the shop is entered without its mutex (NothingLost)
Enter_bug(c, s) ==
    /\ CustStep(c, "seek", "read")
    /\ place' = [place EXCEPT ![c] = s]
    /\ UNCHANGED <<lock, stock, need, bought, shelf, moverVars, main, initial>>
Enter(c, s) ==
    /\ CustStep(c, "seek", "read")
    /\ Lock(c, s)
    /\ UNCHANGED <<stock, need, bought, shelf, moverVars, main, initial>>

Look(c) ==
    /\ CustStep(c, "read", "take")
    /\ shelf' = [shelf EXCEPT ![c] = stock[place[c]]]
    /\ UNCHANGED <<stock, lock, need, bought, place, moverVars, main, initial>>

\* only what is needed is taken, also when less is there (TypeOK)
Buy_bug(c) ==
    /\ CustStep(c, "take", "leave")
    /\ stock' = [stock EXCEPT ![place[c]] = shelf[c] - need[c]]
    /\ need' = [need EXCEPT ![c] = 0] /\ bought' = bought + need[c]
    /\ UNCHANGED <<lock, place, shelf, moverVars, main, initial>>
\* A customer takes all there is, also more than it needs.
Buy(c) ==
    /\ CustStep(c, "take", "leave")
    /\ IF shelf[c] > 0
       THEN /\ stock' = [stock EXCEPT ![place[c]] = 0]
            /\ need' = [need EXCEPT ![c] = @ - shelf[c]]
            /\ bought' = bought + shelf[c]
       ELSE UNCHANGED <<stock, need, bought>>
    /\ UNCHANGED <<lock, place, shelf, moverVars, main, initial>>

\* an empty shop is left without unlocking it (Finishes)
Leave_bug(c) ==
    /\ CustStep(c, "leave", IF need[c] > 0 THEN "seek" ELSE "done")
    /\ IF shelf[c] > 0 THEN Unlock(c) ELSE UNCHANGED lock
    /\ UNCHANGED <<stock, need, bought, place, shelf, moverVars, main, initial>>
\* After the unlock the customer sleeps and tries again, or is satisfied.
Leave(c) ==
    /\ CustStep(c, "leave", IF need[c] > 0 THEN "seek" ELSE "done")
    /\ Unlock(c)
    /\ UNCHANGED <<stock, need, bought, place, shelf, moverVars, main, initial>>

MoverStep(from, to) == mover = from /\ mover' = to

\* Both loops test stop_mover; the inner one before it tries to lock.
MoverTest ==
    /\ \/ MoverStep("test", IF stop_mover THEN "end" ELSE "seek")
       \/ stop_mover /\ MoverStep("seek", "end")
    /\ UNCHANGED <<stock, lock, place, shelf, stop_mover, delivered, custVars, main, initial>>

\* The test of stop_mover before the lock was a step of its own, so the lock
\* may be taken after the stop.
MoverLock(s) ==
    /\ MoverStep("seek", "locked")
    /\ stock[s] <= ShelfCap
    /\ Lock(Mover, s)
    /\ UNCHANGED <<stock, shelf, stop_mover, delivered, custVars, main, initial>>

\* if (stop_mover) break: the shop just locked stays locked.
MoverLook ==
    /\ \/ stop_mover /\ MoverStep("locked", "end") /\ UNCHANGED shelf
       \/ /\ ~stop_mover /\ MoverStep("locked", "add")
          /\ shelf' = [shelf EXCEPT ![Mover] = stock[place[Mover]]]
    /\ UNCHANGED <<stock, lock, place, stop_mover, delivered, custVars, main, initial>>

MoverAdd ==
    /\ MoverStep("add", "unlock")
    /\ stock' = [stock EXCEPT ![place[Mover]] = shelf[Mover] + Delivery]
    /\ delivered' = delivered + Delivery
    /\ UNCHANGED <<lock, place, shelf, stop_mover, custVars, main, initial>>

MoverUnlock ==
    /\ MoverStep("unlock", "test")
    /\ Unlock(Mover)
    /\ UNCHANGED <<stock, place, shelf, stop_mover, delivered, custVars, main, initial>>

\* customer_join of some customers only (DestroyedWhenUnused)
JoinCustomers_bug ==
    /\ main = "join" /\ (\E c \in Customers : cust[c] = "done")
    /\ stop_mover' = TRUE /\ main' = "reap"
    /\ UNCHANGED <<stock, lock, place, shelf, mover, delivered, custVars, initial>>
JoinCustomers ==
    /\ main = "join" /\ (\A c \in Customers : cust[c] = "done")
    /\ stop_mover' = TRUE /\ main' = "reap"
    /\ UNCHANGED <<stock, lock, place, shelf, mover, delivered, custVars, initial>>

JoinMover ==
    /\ main = "reap" /\ mover = "end"
    /\ main' = "destroyed"
    /\ UNCHANGED <<stock, lock, place, shelf, moverVars, custVars, initial>>

CustomerStep(c) == (\E s \in Shops : Enter(c, s)) \/ Look(c) \/ Buy(c) \/ Leave(c)
MoverAction == MoverTest \/ (\E s \in Shops : MoverLock(s)) \/ MoverLook \/ MoverAdd \/ MoverUnlock
Next == \/ \E c \in Customers : CustomerStep(c)
        \/ MoverAction \/ JoinCustomers \/ JoinMover
Spec == Init /\ [][Next]_vars

\* Every thread is scheduled; a customer's random choice falls again and again
\* on a free shop with something on the shelf, if there is one again and again.
Fairness ==
    /\ \A c \in Customers :
          /\ WF_vars(Look(c) \/ Buy(c) \/ Leave(c))
          /\ SF_vars(\E s \in Shops : stock[s] > 0 /\ Enter(c, s))
    /\ WF_vars(MoverTest \/ MoverLook \/ MoverAdd \/ MoverUnlock)
    /\ SF_vars(\E s \in Shops : MoverLock(s))
    /\ WF_vars(JoinCustomers \/ JoinMover)
FairSpec == Spec /\ Fairness

----------------------------------------------------------------------------
(* Properties *)

\* Every variable keeps its type; a shelf is never below 0.
TypeOK ==
    /\ stock \in [Shops -> Nat] /\ lock \in [Shops -> Threads \cup {Nobody}]
    /\ cust \in [Customers -> {"seek", "read", "take", "leave", "done"}]
    /\ need \in [Customers -> Int]
    /\ mover \in {"test", "seek", "locked", "add", "unlock", "end"}
    /\ place \in [Threads -> Shops] /\ shelf \in [Threads -> Nat]
    /\ stop_mover \in BOOLEAN /\ main \in {"join", "reap", "destroyed"}
    /\ delivered \in Nat /\ bought \in Nat

\* No delivery and no purchase is lost or counted twice, though both read the
\* shelf in one step and write it in another.
NothingLost == initial + delivered = SumFunction(stock) + bought

\* When the mutexes are destroyed no thread uses a shop any more.  One mutex
\* may still be locked: that of a mover stopped between its lock and its test.
DestroyedWhenUnused ==
    main = "destroyed" =>
        /\ mover = "end" /\ \A c \in Customers : cust[c] = "done" /\ need[c] <= 0
        /\ \A s, t \in Shops : lock[s] # Nobody /\ lock[t] # Nobody => s = t /\ lock[s] = Mover

\* The customers get what they need and the program ends.
Finishes == <>(main = "destroyed")
=============================================================================
