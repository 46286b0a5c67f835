----------------------------- MODULE ShopProofs -----------------------------
(* lab11 for any number of customers and shops: who holds a mutex, what a   *)
(* thread knows of the shelf while it does, and how the program ends.       *)
EXTENDS Shop, FiniteSetTheorems, TLAPS

\* Who holds the mutex of a shop is in it, and who is in a shop holds its mutex.
InShop(t) == IF t = Mover THEN mover \in {"locked", "add", "unlock"}
             ELSE cust[t] \in {"read", "take", "leave"}
Stopped(t) == t = Mover /\ mover = "end"
Locking ==
    /\ \A t \in Threads : InShop(t) => lock[place[t]] = t
    /\ \A s \in Shops : \A t \in Threads : lock[s] = t => place[t] = s /\ (InShop(t) \/ Stopped(t))

\* What a thread has read from the shelf, and will base its write on, is there.
Fresh ==
    /\ \A c \in Customers : cust[c] = "take" => shelf[c] = stock[place[c]]
    /\ mover = "add" => shelf[Mover] = stock[place[Mover]]

\* How far main has come says how far the others have.
Ending ==
    /\ \A c \in Customers : cust[c] = "done" => need[c] <= 0
    /\ main # "join" => \A c \in Customers : cust[c] = "done"
    /\ main = "destroyed" => mover = "end"

Inv == TypeOK /\ Locking /\ Fresh /\ Ending

LEMMA InitInv == Init => Inv
  <1> SUFFICES ASSUME Init PROVE Inv
    OBVIOUS
  <1> USE ShopData
  <1>1. (CHOOSE s \in Shops : TRUE) \in Shops
    OBVIOUS
  <1>2. TypeOK
    <2>1. stock \in [Shops -> Nat] /\ need \in [Customers -> Int]
      <3>1. stock \in [Shops -> InitialStock] /\ need \in [Customers -> Needs]
        BY DEF Init
      <3>2. InitialStock \subseteq Nat /\ Needs \subseteq Int
        OBVIOUS
      <3> QED BY <3>1, <3>2
    <2>2. place \in [Threads -> Shops] /\ shelf \in [Threads -> Nat]
      BY <1>1 DEF Init
    <2> QED BY <2>1, <2>2 DEF Init, TypeOK
  <1>3. Locking
    BY DEF Init, Locking, InShop, Stopped, Threads
  <1>4. Fresh /\ Ending
    BY DEF Init, Fresh, Ending
  <1> QED BY <1>2, <1>3, <1>4 DEF Inv

\* A customer that holds a mutex is not the mover.
LEMMA CustomerIsThread == \A c \in Customers : c \in Threads /\ c # Mover /\ c # Nobody
  BY ShopData DEF Threads

LEMMA EnterInv == ASSUME Inv, NEW c \in Customers, NEW s \in Shops, Enter(c, s) PROVE Inv'
  <1> USE ShopData, CustomerIsThread
  <1> USE DEF Enter, CustStep, Lock, moverVars, Inv
  <1>1. TypeOK'
    BY DEF TypeOK
  <1>2. Locking'
    BY DEF TypeOK, Locking, InShop, Stopped, Threads
  <1>3. Fresh'
    BY DEF TypeOK, Fresh, Locking, InShop, Stopped, Threads
  <1>4. Ending'
    BY DEF TypeOK, Ending
  <1> QED BY <1>1, <1>2, <1>3, <1>4

LEMMA LookInv == ASSUME Inv, NEW c \in Customers, Look(c) PROVE Inv'
  <1> USE CustomerIsThread
  <1> USE DEF Look, CustStep, moverVars, Inv
  <1>1. TypeOK'
    BY DEF TypeOK
  <1>2. Locking'
    BY DEF TypeOK, Locking, InShop, Stopped, Threads
  <1>3. Fresh'
    BY DEF TypeOK, Fresh
  <1>4. Ending'
    BY DEF TypeOK, Ending
  <1> QED BY <1>1, <1>2, <1>3, <1>4

\* What a customer or the mover writes to a shelf nobody else has read.
LEMMA Alone ==
    ASSUME Inv, NEW t \in Threads, InShop(t), NEW u \in Threads, InShop(u), u # t
    PROVE  place[u] # place[t]
  BY DEF Inv, Locking

LEMMA BuyInv == ASSUME Inv, NEW c \in Customers, Buy(c) PROVE Inv'
  <1> USE CustomerIsThread
  <1> USE DEF Buy, CustStep, moverVars, Inv
  <1>1. TypeOK'
    <2>1. shelf[c] \in Nat /\ need[c] \in Int /\ bought \in Nat
      BY DEF TypeOK
    <2>2. need' \in [Customers -> Int]
      BY <2>1 DEF TypeOK
    <2>3. stock' \in [Shops -> Nat]
      BY DEF TypeOK
    <2>4. bought' \in Nat
      BY <2>1
    <2> QED BY <2>2, <2>3, <2>4 DEF TypeOK
  <1>2. Locking'
    BY DEF TypeOK, Locking, InShop, Stopped, Threads
  <1>3. Fresh'
    <2>1. InShop(c)
      BY DEF InShop
    <2>2. \A d \in Customers : cust'[d] = "take" => InShop(d) /\ d # c
      BY DEF InShop, TypeOK
    <2>3. mover = "add" => InShop(Mover) /\ Mover \in Threads
      BY DEF InShop, Threads
    <2>4. \A d \in Customers : cust'[d] = "take" => place[d] # place[c]
      BY <2>1, <2>2, Alone
    <2>5. mover = "add" => place[Mover] # place[c]
      BY <2>1, <2>3, Alone
    <2> QED BY <2>2, <2>4, <2>5 DEF TypeOK, Fresh, Threads
  <1>4. Ending'
    BY DEF TypeOK, Ending
  <1> QED BY <1>1, <1>2, <1>3, <1>4

LEMMA LeaveInv == ASSUME Inv, NEW c \in Customers, Leave(c) PROVE Inv'
  <1> USE CustomerIsThread, ShopData
  <1> USE DEF Leave, CustStep, Unlock, moverVars, Inv
  <1>1. TypeOK'
    BY DEF TypeOK
  <1>2. Locking'
    BY DEF TypeOK, Locking, InShop, Stopped, Threads
  <1>3. Fresh'
    BY DEF TypeOK, Fresh
  <1>4. Ending'
    BY DEF TypeOK, Ending
  <1> QED BY <1>1, <1>2, <1>3, <1>4

LEMMA MoverIsThread == Mover \in Threads /\ Mover # Nobody /\ Mover \notin Customers
  BY ShopData DEF Threads

LEMMA MoverTestInv == ASSUME Inv, MoverTest PROVE Inv'
  <1> USE MoverIsThread
  <1> USE DEF MoverTest, MoverStep, custVars, Inv
  <1>1. TypeOK'
    BY DEF TypeOK
  <1>2. Locking'
    BY DEF TypeOK, Locking, InShop, Stopped, Threads
  <1>3. Fresh' /\ Ending'
    BY DEF TypeOK, Fresh, Ending
  <1> QED BY <1>1, <1>2, <1>3

LEMMA MoverLockInv == ASSUME Inv, NEW s \in Shops, MoverLock(s) PROVE Inv'
  <1> USE MoverIsThread, CustomerIsThread, ShopData
  <1> USE DEF MoverLock, MoverStep, Lock, custVars, Inv
  <1>1. TypeOK'
    BY DEF TypeOK
  <1>2. Locking'
    BY DEF TypeOK, Locking, InShop, Stopped, Threads
  <1>3. Fresh' /\ Ending'
    BY DEF TypeOK, Fresh, Ending
  <1> QED BY <1>1, <1>2, <1>3

LEMMA MoverLookInv == ASSUME Inv, MoverLook PROVE Inv'
  <1> USE MoverIsThread, CustomerIsThread
  <1> USE DEF MoverLook, MoverStep, custVars, Inv
  <1>1. TypeOK'
    BY DEF TypeOK
  <1>2. Locking'
    BY DEF TypeOK, Locking, InShop, Stopped, Threads
  <1>3. Fresh' /\ Ending'
    BY DEF TypeOK, Fresh, Ending
  <1> QED BY <1>1, <1>2, <1>3

LEMMA MoverAddInv == ASSUME Inv, MoverAdd PROVE Inv'
  <1> USE MoverIsThread, CustomerIsThread
  <1> USE DEF MoverAdd, MoverStep, custVars, Inv
  <1>1. TypeOK'
    <2>1. shelf[Mover] + Delivery \in Nat /\ delivered + Delivery \in Nat
      BY ShopData DEF TypeOK
    <2> QED BY <2>1 DEF TypeOK
  <1>2. Locking'
    BY DEF TypeOK, Locking, InShop, Stopped, Threads
  <1>3. Fresh'
    <2>1. InShop(Mover)
      BY DEF InShop
    <2>2. \A d \in Customers : cust[d] = "take" => InShop(d)
      BY DEF InShop
    <2>3. \A d \in Customers : cust[d] = "take" => place[d] # place[Mover]
      BY <2>1, <2>2, Alone
    <2> QED BY <2>3 DEF TypeOK, Fresh
  <1>4. Ending'
    BY DEF Ending
  <1> QED BY <1>1, <1>2, <1>3, <1>4

LEMMA MoverUnlockInv == ASSUME Inv, MoverUnlock PROVE Inv'
  <1> USE MoverIsThread, CustomerIsThread
  <1> USE DEF MoverUnlock, MoverStep, Unlock, custVars, Inv
  <1>1. TypeOK'
    BY DEF TypeOK
  <1>2. Locking'
    BY DEF TypeOK, Locking, InShop, Stopped, Threads
  <1>3. Fresh' /\ Ending'
    BY DEF TypeOK, Fresh, Ending
  <1> QED BY <1>1, <1>2, <1>3

LEMMA MainInv == ASSUME Inv, JoinCustomers \/ JoinMover PROVE Inv'
  <1> USE DEF JoinCustomers, JoinMover, moverVars, custVars, Inv
  <1>1. TypeOK'
    BY DEF TypeOK
  <1>2. Locking'
    BY DEF Locking, InShop, Stopped, Threads
  <1>3. Fresh' /\ Ending'
    BY DEF TypeOK, Fresh, Ending
  <1> QED BY <1>1, <1>2, <1>3

LEMMA StepInv == Inv /\ [Next]_vars => Inv'
  <1> SUFFICES ASSUME Inv, [Next]_vars PROVE Inv'
    OBVIOUS
  <1>1. ASSUME NEW c \in Customers, CustomerStep(c) PROVE Inv'
    BY <1>1, EnterInv, LookInv, BuyInv, LeaveInv DEF CustomerStep
  <1>2. CASE MoverAction
    BY <1>2, MoverTestInv, MoverLockInv, MoverLookInv, MoverAddInv, MoverUnlockInv DEF MoverAction
  <1>3. CASE JoinCustomers \/ JoinMover
    BY <1>3, MainInv
  <1>4. CASE UNCHANGED vars
    BY <1>4 DEF vars, Inv, TypeOK, Locking, InShop, Stopped, Fresh, Ending
  <1> QED BY <1>1, <1>2, <1>3, <1>4 DEF Next

LEMMA InvHolds == Spec => []Inv
  BY InitInv, StepInv, PTL DEF Spec

----------------------------------------------------------------------------

\* Every variable keeps its type: no shelf goes below zero, for any number of
\* customers, shops and any stock, although a customer empties a shelf it has
\* read a step before.
THEOREM ShopType == Spec => []TypeOK
  <1>1. Inv => TypeOK
    BY DEF Inv
  <1> QED BY <1>1, InvHolds, PTL

\* A purchase and a delivery write what they have computed from what is on the
\* shelf at that moment: nobody changes a shelf between the read and the write of
\* another thread.
THEOREM ShelfIsFresh == Spec => []Fresh
  <1>1. Inv => Fresh
    BY DEF Inv
  <1> QED BY <1>1, InvHolds, PTL

\* When main destroys the mutexes every customer has what it needs, the mover has
\* ended, and at most one mutex is still locked, by a mover that was stopped
\* between its lock and its test of stop_mover.
THEOREM NobodyInside == Spec => []DestroyedWhenUnused
  <1>1. Inv => DestroyedWhenUnused
    <2> SUFFICES ASSUME Inv, main = "destroyed" PROVE DestroyedWhenUnused
      BY DEF DestroyedWhenUnused
    <2>1. mover = "end" /\ \A c \in Customers : cust[c] = "done" /\ need[c] <= 0
      BY DEF Inv, Ending
    <2>2. ASSUME NEW s \in Shops, lock[s] # Nobody PROVE lock[s] = Mover /\ place[Mover] = s
      <3>1. lock[s] \in Threads
        BY <2>2 DEF Inv, TypeOK
      <3>2. place[lock[s]] = s /\ (InShop(lock[s]) \/ Stopped(lock[s]))
        BY <3>1 DEF Inv, Locking
      <3> QED BY <2>1, <3>1, <3>2 DEF InShop, Stopped, Threads
    <2> QED BY <2>1, <2>2 DEF DestroyedWhenUnused
  <1> QED BY <1>1, InvHolds, PTL
----------------------------------------------------------------------------
(* Sums.  The goods in all shops are counted one by one: then the theorems   *)
(* on finite sets say how a sum changes when one shelf does.  SumFunction is *)
(* a recursive function on the subsets of its domain; the induction it needs *)
(* is that of a smallest counterexample.                                     *)

\* A set of subsets to which a set belongs if all those with an element less do
\* holds all subsets: induction in the form of a smallest counterexample.
LEMMA SetInduction ==
    ASSUME NEW S, IsFiniteSet(S), NEW G,
           \A s \in SUBSET S : (\A x \in s : s \ {x} \in G) => s \in G
    PROVE  SUBSET S \subseteq G
  <1> DEFINE Bad == (SUBSET S) \ G
  <1> SUFFICES ASSUME Bad # {} PROVE FALSE
    OBVIOUS
  <1>1. Bad \subseteq SUBSET S /\ \A s \in Bad : \E x \in s : s \ {x} \in Bad
    OBVIOUS
  <1> HIDE DEF Bad
  <1>2. IsWellFoundedOn(StrictSubsetOrdering(S), SUBSET S)
    BY FS_StrictSubsetOrderingWellFounded, FS_FiniteSubsetsOfFinite
  <1>3. PICK s \in Bad : \A t \in Bad : ~ (<<t, s>> \in StrictSubsetOrdering(S))
    BY <1>1, <1>2, WFMin
  <1>4. PICK x \in s : s \ {x} \in Bad
    BY <1>1, <1>3
  <1>5. <<s \ {x}, s>> \in StrictSubsetOrdering(S)
    BY <1>1, <1>3, <1>4 DEF StrictSubsetOrdering
  <1> QED BY <1>3, <1>4, <1>5

\* One pair for each unit on each shelf: the sum over the shelves is their number.
Units(f, s) == {p \in s \X Nat : p[2] \in 1..f[p[1]]}

LEMMA UnitsOfOne ==
    ASSUME NEW S, IsFiniteSet(S), NEW f \in [S -> Nat], NEW s \in SUBSET S, NEW x \in s,
           IsFiniteSet(Units(f, s \ {x}))
    PROVE  /\ IsFiniteSet(Units(f, s))
           /\ Cardinality(Units(f, s)) = f[x] + Cardinality(Units(f, s \ {x}))
  <1> DEFINE row == 1..f[x]
             these == {x} \X row
             others == Units(f, s \ {x})
  <1>1. f[x] \in Nat
    OBVIOUS
  <1>2. IsFiniteSet(row) /\ Cardinality(row) = f[x]
    BY <1>1, FS_Interval
  <1>3. IsFiniteSet({x}) /\ Cardinality({x}) = 1
    BY FS_Singleton
  <1>4. IsFiniteSet(these) /\ Cardinality(these) = f[x]
    <2> HIDE DEF row
    <2>1. IsFiniteSet(these) /\ Cardinality(these) = Cardinality({x}) * Cardinality(row)
      BY <1>2, <1>3, FS_Product
    <2> QED BY <1>1, <1>2, <1>3, <2>1
  <1>5. Units(f, s) = these \cup others /\ these \cap others = {}
    BY <1>1 DEF Units
  <1>6. Cardinality({}) = 0 /\ Cardinality(others) \in Nat
    BY FS_EmptySet, FS_CardinalityType
  <1> HIDE DEF these, others
  <1>7. IsFiniteSet(others)
    BY DEF others
  <1>8. /\ IsFiniteSet(these \cup others)
        /\ Cardinality(these \cup others)
             = Cardinality(these) + Cardinality(others) - Cardinality(these \cap others)
    BY <1>4, <1>7, FS_Union
  <1>9. Cardinality(Units(f, s)) = f[x] + Cardinality(others)
    <2>1. Cardinality(these \cap others) = 0 /\ Cardinality(Units(f, s)) = Cardinality(these \cup others)
      BY <1>5, <1>6
    <2> HIDE DEF row
    <2> QED BY <1>1, <1>4, <1>6, <1>8, <2>1
  <1> QED BY <1>5, <1>8, <1>9 DEF others

LEMMA UnitsFinite ==
    ASSUME NEW S, IsFiniteSet(S), NEW f \in [S -> Nat]
    PROVE  \A s \in SUBSET S : IsFiniteSet(Units(f, s)) /\ Cardinality(Units(f, s)) \in Nat
  <1> DEFINE G == {s \in SUBSET S : IsFiniteSet(Units(f, s))}
  <1>1. ASSUME NEW s \in SUBSET S, \A x \in s : s \ {x} \in G PROVE s \in G
    <2>1. CASE s = {}
      <3>1. Units(f, s) = {}
        BY <2>1 DEF Units
      <3> QED BY <3>1, FS_EmptySet
    <2>2. CASE s # {}
      BY <1>1, <2>2, UnitsOfOne
    <2> QED BY <2>1, <2>2
  <1> HIDE DEF G
  <1>2. SUBSET S \subseteq G
    BY <1>1, SetInduction
  <1> QED BY <1>2, FS_CardinalityType DEF G

LEMMA SumIsUnits ==
    ASSUME NEW S, IsFiniteSet(S), NEW f \in [S -> Nat]
    PROVE  SumFunction(f) = Cardinality(Units(f, S))
  <1> DEFINE Pick(s) == CHOOSE x \in s : TRUE
             iter == CHOOSE g : g = [s \in SUBSET S |-> IF s = {} THEN 0 ELSE f[Pick(s)] + g[s \ {Pick(s)}]]
             total == [s \in SUBSET S |-> Cardinality(Units(f, s))]
  <1>1. SumFunction(f) = iter[S]
    BY DEF SumFunction, SumFunctionOnSet, FoldFunctionOnSet, MapThenFoldSet
  <1>2. \A s \in SUBSET S : s # {} => Pick(s) \in s
    OBVIOUS
  <1> HIDE DEF Pick
  <1>3. Cardinality(Units(f, {})) = 0
    <2>1. Units(f, {}) = {}
      BY DEF Units
    <2> QED BY <2>1, FS_EmptySet
  <1>4. \A s \in SUBSET S : s # {} => total[s] = f[Pick(s)] + total[s \ {Pick(s)}]
    BY <1>2, UnitsOfOne, UnitsFinite
  <1>5. \A s \in SUBSET S : total[s] = IF s = {} THEN 0 ELSE f[Pick(s)] + total[s \ {Pick(s)}]
    BY <1>3, <1>4
  <1>6. total = [s \in SUBSET S |-> IF s = {} THEN 0 ELSE f[Pick(s)] + total[s \ {Pick(s)}]]
    BY <1>5
  <1> HIDE DEF total
  <1>7. iter = [s \in SUBSET S |-> IF s = {} THEN 0 ELSE f[Pick(s)] + iter[s \ {Pick(s)}]]
    BY <1>6
  <1> HIDE DEF iter
  <1>8. \A s \in SUBSET S : iter[s] = IF s = {} THEN 0 ELSE f[Pick(s)] + iter[s \ {Pick(s)}]
    BY <1>7
  <1> DEFINE G == {s \in SUBSET S : iter[s] = total[s]}
  <1>9. ASSUME NEW s \in SUBSET S, \A x \in s : s \ {x} \in G PROVE s \in G
    BY <1>2, <1>5, <1>8, <1>9
  <1> HIDE DEF G
  <1>10. SUBSET S \subseteq G
    BY <1>9, SetInduction
  <1>11. iter[S] = total[S]
    BY <1>10 DEF G
  <1> QED BY <1>1, <1>11 DEF total

LEMMA SumChange ==
    ASSUME NEW S, IsFiniteSet(S), NEW f \in [S -> Nat], NEW x \in S, NEW v \in Nat
    PROVE  /\ SumFunction(f) \in Nat
           /\ SumFunction([f EXCEPT ![x] = v]) = SumFunction(f) - f[x] + v
  <1> DEFINE g == [f EXCEPT ![x] = v]
  <1>1. g \in [S -> Nat] /\ g[x] = v /\ f[x] \in Nat
    OBVIOUS
  <1>2. Units(g, S \ {x}) = Units(f, S \ {x})
    BY DEF Units
  <1> HIDE DEF g
  <1>3. Cardinality(Units(f, S)) = f[x] + Cardinality(Units(f, S \ {x}))
    BY UnitsOfOne, UnitsFinite
  <1>4. Cardinality(Units(g, S)) = g[x] + Cardinality(Units(g, S \ {x}))
    BY <1>1, UnitsOfOne, UnitsFinite
  <1>5. Cardinality(Units(f, S \ {x})) \in Nat /\ Cardinality(Units(f, S)) \in Nat
    BY UnitsFinite
  <1>6. SumFunction(g) = Cardinality(Units(g, S)) /\ SumFunction(f) = Cardinality(Units(f, S))
    BY <1>1, SumIsUnits
  <1> QED BY <1>1, <1>2, <1>3, <1>4, <1>5, <1>6 DEF g

----------------------------------------------------------------------------

\* The balance of goods, with the type its sum needs.
Balance == initial \in Nat /\ NothingLost

LEMMA InitBalance == Init => Balance
  <1> SUFFICES ASSUME Init PROVE Balance
    OBVIOUS
  <1>1. stock \in [Shops -> Nat]
    BY ShopData DEF Init
  <1>2. SumFunction(stock) \in Nat
    <2>1. PICK s \in Shops : TRUE
      BY ShopData
    <2> QED BY <1>1, <2>1, SumChange, ShopData
  <1> QED BY <1>2 DEF Init, Balance, NothingLost

\* One shelf changes, and the sum changes with it.
LEMMA ShelfChange ==
    ASSUME stock \in [Shops -> Nat], NEW s \in Shops, NEW v \in Nat, stock' = [stock EXCEPT ![s] = v]
    PROVE  SumFunction(stock) \in Nat /\ SumFunction(stock') = SumFunction(stock) - stock[s] + v
  <1>1. IsFiniteSet(Shops)
    BY ShopData
  <1>2. /\ SumFunction(stock) \in Nat
        /\ SumFunction([stock EXCEPT ![s] = v]) = SumFunction(stock) - stock[s] + v
    BY <1>1, SumChange
  <1> QED BY <1>2

LEMMA BuyBalance == ASSUME Inv, Balance, NEW c \in Customers, Buy(c) PROVE Balance'
  <1>1. /\ stock \in [Shops -> Nat] /\ place[c] \in Shops /\ shelf[c] \in Nat /\ bought \in Nat
        /\ delivered \in Nat
    BY CustomerIsThread DEF Inv, TypeOK
  <1>2. shelf[c] = stock[place[c]]
    BY DEF Inv, Fresh, Buy, CustStep
  <1>3. CASE shelf[c] > 0
    <2>1. /\ stock' = [stock EXCEPT ![place[c]] = 0] /\ bought' = bought + shelf[c]
          /\ UNCHANGED <<delivered, initial>>
      BY <1>3 DEF Buy, moverVars
    <2>2. SumFunction(stock) \in Nat /\ SumFunction(stock') = SumFunction(stock) - shelf[c]
      <3>1. 0 \in Nat
        OBVIOUS
      <3>2. /\ SumFunction(stock) \in Nat
            /\ SumFunction(stock') = SumFunction(stock) - stock[place[c]] + 0
        BY <1>1, <2>1, <3>1, ShelfChange
      <3> QED BY <1>1, <1>2, <3>2
    <2> QED BY <1>1, <2>1, <2>2 DEF Balance, NothingLost
  <1>4. CASE ~(shelf[c] > 0)
    BY <1>4 DEF Buy, moverVars, Balance, NothingLost
  <1> QED BY <1>3, <1>4

LEMMA AddBalance == ASSUME Inv, Balance, MoverAdd PROVE Balance'
  <1> DEFINE v == shelf[Mover] + Delivery
  <1>1. /\ stock \in [Shops -> Nat] /\ place[Mover] \in Shops /\ shelf[Mover] \in Nat
        /\ bought \in Nat /\ delivered \in Nat /\ Delivery \in Nat
    BY MoverIsThread, ShopData DEF Inv, TypeOK
  <1>2. shelf[Mover] = stock[place[Mover]] /\ v \in Nat
    BY <1>1 DEF Inv, Fresh, MoverAdd, MoverStep
  <1>3. /\ stock' = [stock EXCEPT ![place[Mover]] = v] /\ delivered' = delivered + Delivery
        /\ UNCHANGED <<bought, initial>>
    BY DEF MoverAdd, custVars
  <1> HIDE DEF v
  <1>4. /\ SumFunction(stock) \in Nat
        /\ SumFunction(stock') = SumFunction(stock) - stock[place[Mover]] + v
    BY <1>1, <1>2, <1>3, ShelfChange
  <1>5. SumFunction(stock') = SumFunction(stock) + Delivery
    BY <1>1, <1>2, <1>4 DEF v
  <1> QED BY <1>1, <1>3, <1>4, <1>5 DEF Balance, NothingLost

LEMMA StepBalance == Inv /\ Balance /\ [Next]_vars => Balance'
  <1> SUFFICES ASSUME Inv, Balance, [Next]_vars PROVE Balance'
    OBVIOUS
  <1>1. ASSUME UNCHANGED <<stock, bought, delivered, initial>> PROVE Balance'
    BY <1>1 DEF Balance, NothingLost
  <1>2. ASSUME NEW c \in Customers, CustomerStep(c) PROVE Balance'
    BY <1>1, <1>2, BuyBalance DEF CustomerStep, Enter, Look, Leave, moverVars
  <1>3. CASE MoverAction
    BY <1>1, <1>3, AddBalance DEF MoverAction, MoverTest, MoverLock, MoverLook, MoverUnlock, custVars
  <1>4. CASE JoinCustomers \/ JoinMover
    BY <1>1, <1>4 DEF JoinCustomers, JoinMover, moverVars, custVars
  <1>5. CASE UNCHANGED vars
    BY <1>1, <1>5 DEF vars
  <1> QED BY <1>2, <1>3, <1>4, <1>5 DEF Next

\* Whatever customers and mover do at the same time, what was there at the start
\* and what was delivered is on the shelves or bought: no write of a shelf undoes
\* that of another thread, for any number of shops and customers.
THEOREM GoodsBalance == Spec => []NothingLost
  <1>1. Spec => []Balance
    BY InitBalance, StepBalance, InvHolds, PTL DEF Spec
  <1>2. Balance => NothingLost
    BY DEF Balance
  <1> QED BY <1>1, <1>2, PTL
=============================================================================
