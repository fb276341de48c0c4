-------------------------------- MODULE Bar --------------------------------
(***************************************************************************)
(* The bar of assignment 1: bar.c (the synchronised bar) driven by the     *)
(* customer, bartender and createbar threads of bar_driver.c.              *)
(*                                                                         *)
(* P, V, lock_acquire and lock_release are single steps, which is what     *)
(* Synch.tla shows of them (AtomicOperations).  A critical section takes   *)
(* two steps, the scan that follows lock_acquire and the writes that       *)
(* precede lock_release, so that it is the lock that makes it atomic.      *)
(* pc is the point a thread has reached; a customer runs submit_order and  *)
(* return_glass for its drinks (dummy = 0) and, last of all customers, for *)
(* the dummy orders of crawl_home (dummy > 0).  The model begins when      *)
(* createbar has opened the bar and forked every thread.                   *)
(***************************************************************************)
EXTENDS Integers, FiniteSets, FiniteSetsExt

CONSTANTS Customer, Bartender,
          NGlasses,    \* NGLASSES
          Rounds,      \* the drinks of each customer (5 in the code)
          NBottles,    \* NBOTTLES, bottle 0 = NOTHING
          Drink,       \* the ingredients each customer orders
          NONE         \* no thread, no glass

NCustomers == Cardinality(Customer)
NBartenders == Cardinality(Bartender)
Slot == 0..(NCustomers - 1)
Glass == 0..(NGlasses - 1)
Thread == Customer \cup Bartender
NOTHING == 0

ASSUME BarAssumption ==
    /\ Customer \cap Bartender = {} /\ NONE \notin Thread \cup Glass
    /\ IsFiniteSet(Thread) /\ Customer # {} /\ Bartender # {}
    /\ NGlasses \in Nat \ {0} /\ Rounds \in Nat \ {0} /\ NBottles \in Nat \ {0}
    /\ Drink \in [Customer -> [1..3 -> 0..(NBottles - 1)]]
\* bar.h: "The NBARTENDERS must never exceed NCUSTOMERS x no of drinks pr customer".
ASSUME BarLimitation == NBartenders <= NCustomers * Rounds

VARIABLES orders, glasses, doses, ndrinkers,
          emptyglasses, ordersready, ordercomplete, alldone,       \* semaphores
          orderslock, glassarraylock, bottleslock, ndrinkerslock,  \* locks: owner
          pc,
          slot,     \* local: the index i of a customer, the order o of a bartender
          mine,     \* local: the glass g of a thread
          round,    \* customer's i: drinks finished
          dummy,    \* crawl_home's i + 1 while it orders, otherwise 0
          poured,   \* pour: ingredients dealt with
          reg,      \* pour: the count of doses read and not yet written back
          waited,   \* createbar: P(alldone) done so often
          fault     \* a panic, or a local used without having been given a value

sems == <<emptyglasses, ordersready, ordercomplete, alldone>>
locks == <<orderslock, glassarraylock, bottleslock, ndrinkerslock>>
locals == <<slot, mine, round, dummy, poured, reg>>
vars == <<orders, glasses, doses, ndrinkers, emptyglasses, ordersready,
          ordercomplete, alldone, orderslock, glassarraylock, bottleslock,
          ndrinkerslock, pc, slot, mine, round, dummy, poured, reg, waited, fault>>

\* bar_open, and createbar up to the threads it has forked.
Init ==
    /\ orders = [i \in Slot |-> [ing |-> <<0, 0, 0>>, glass |-> NONE, state |-> 0]]
    /\ glasses = [i \in Glass |-> [contents |-> <<0, 0, 0>>, state |-> 0,
                                   ordernumber |-> 0]]
    /\ doses = [b \in 0..(NBottles - 1) |-> 0]
    /\ ndrinkers = NCustomers
    /\ emptyglasses = NGlasses /\ ordersready = 0 /\ alldone = 0
    /\ ordercomplete = [i \in Slot |-> 0]
    /\ orderslock = NONE /\ glassarraylock = NONE
    /\ bottleslock = NONE /\ ndrinkerslock = NONE
    /\ pc = [t \in Thread |-> IF t \in Customer THEN "submit" ELSE "while"]
    /\ slot = [t \in Thread |-> 0]
    /\ mine = [t \in Thread |-> NONE]
    /\ round = [c \in Customer |-> 0]
    /\ dummy = [c \in Customer |-> 0]
    /\ poured = [b \in Bartender |-> 0]
    /\ reg = [b \in Bartender |-> 0]
    /\ waited = 0
    /\ fault = FALSE

----------------------------------------------------------------------------

At(t, label) == pc[t] = label /\ ~fault
Goto(t, label) == pc' = [pc EXCEPT ![t] = label]

\* The first index of the array whose state is s, as the scans find it.
Found(array, s) == {i \in DOMAIN array : array[i].state = s}
First(array, s) == Min(Found(array, s))

\* The ingredients of the order c is submitting.
Ingredients(c) == IF dummy[c] > 0 THEN <<NOTHING, NOTHING, NOTHING>> ELSE Drink[c]

----------------------------------------------------------------------------
(* Customers *)

\* submit_order: lock_acquire(orderslock) and the scan for an unused slot.  When
\* there is none i is left at norders, and ordercomplete[i] is out of bounds.
submit_scan(c) ==
    /\ At(c, "submit") /\ orderslock = NONE
    /\ orderslock' = c
    /\ IF Found(orders, 0) = {}
       THEN fault' = TRUE /\ UNCHANGED slot
       ELSE slot' = [slot EXCEPT ![c] = First(orders, 0)] /\ UNCHANGED fault
    /\ Goto(c, "submit_put")
    /\ UNCHANGED <<orders, glasses, doses, ndrinkers, sems, glassarraylock, bottleslock,
                   ndrinkerslock, mine, round, dummy, poured, reg, waited>>

submit_put(c) ==
    /\ At(c, "submit_put")
    /\ orders' = [orders EXCEPT ![slot[c]].ing = Ingredients(c),
                                ![slot[c]].state = 1]
    /\ orderslock' = NONE
    /\ Goto(c, "submit_V")
    /\ UNCHANGED <<glasses, doses, ndrinkers, sems, glassarraylock, bottleslock,
                   ndrinkerslock, locals, waited, fault>>

submit_V(c) ==
    /\ At(c, "submit_V")
    /\ ordersready' = ordersready + 1
    /\ Goto(c, "submit_P")
    /\ UNCHANGED <<orders, glasses, doses, ndrinkers, emptyglasses, ordercomplete,
                   alldone, locks, locals, waited, fault>>

\* P(ordercomplete[i]), then the glass is read and told its order number.
submit_P(c) ==
    /\ At(c, "submit_P")
    /\ ordercomplete[slot[c]] > 0
    /\ ordercomplete' = [ordercomplete EXCEPT ![slot[c]] = @ - 1]
    /\ mine' = [mine EXCEPT ![c] = orders[slot[c]].glass]
    /\ IF orders[slot[c]].glass = NONE
       THEN fault' = TRUE /\ UNCHANGED glasses
       ELSE /\ glasses' = [glasses EXCEPT ![orders[slot[c]].glass].ordernumber = slot[c]]
            /\ UNCHANGED fault
    /\ Goto(c, "given")
    /\ UNCHANGED <<orders, doses, ndrinkers, emptyglasses, ordersready, alldone, locks,
                   slot, round, dummy, poured, reg, waited>>

\* The order is marked as given to the customer, under orderslock, and
\* submit_order returns to customer or to crawl_home.
submit_given(c) ==
    /\ At(c, "given") /\ orderslock = NONE
    /\ orders' = [orders EXCEPT ![slot[c]].state = 3]
    /\ Goto(c, IF dummy[c] = 0 THEN "drink" ELSE "return")
    /\ UNCHANGED <<glasses, doses, ndrinkers, sems, locks, locals, waited, fault>>

\* customer(): bottoms up, and a short pause.
drink(c) ==
    /\ At(c, "drink")
    /\ glasses' = [glasses EXCEPT ![mine[c]].contents = <<0, 0, 0>>]
    /\ Goto(c, "return")
    /\ UNCHANGED <<orders, doses, ndrinkers, sems, locks, locals, waited, fault>>

\* return_glass: the glass is empty; its order number is read, under the lock.
return_glass(c) ==
    /\ At(c, "return") /\ glassarraylock = NONE
    /\ glasses' = [glasses EXCEPT ![mine[c]].state = 0]
    /\ slot' = [slot EXCEPT ![c] = glasses[mine[c]].ordernumber]
    /\ Goto(c, "return_V")
    /\ UNCHANGED <<orders, doses, ndrinkers, sems, locks, mine, round, dummy,
                   poured, reg, waited, fault>>

\* Mutant of return_V: the glass is not counted as empty.
return_V_none(c) ==
    /\ At(c, "return_V")
    /\ Goto(c, "return_slot")
    /\ UNCHANGED <<orders, glasses, doses, ndrinkers, sems, locks, locals, waited, fault>>

return_V(c) ==
    /\ At(c, "return_V")
    /\ emptyglasses' = emptyglasses + 1
    /\ Goto(c, "return_slot")
    /\ UNCHANGED <<orders, glasses, doses, ndrinkers, ordersready, ordercomplete,
                   alldone, locks, locals, waited, fault>>

\* The end of return_glass resets the order; back in customer() the loop ends
\* after Rounds drinks, in crawl_home after NBARTENDERS dummies, when it
\* releases ndrinkerslock.
return_slot(c) ==
    /\ At(c, "return_slot") /\ orderslock = NONE
    /\ orders' = [orders EXCEPT ![slot[c]].state = 0]
    /\ mine' = [mine EXCEPT ![c] = NONE]
    /\ \/ /\ dummy[c] = 0
          /\ round' = [round EXCEPT ![c] = @ + 1]
          /\ Goto(c, IF round[c] + 1 < Rounds THEN "submit" ELSE "crawl_home")
          /\ UNCHANGED <<dummy, ndrinkerslock>>
       \/ /\ dummy[c] \in 1..(NBartenders - 1)
          /\ dummy' = [dummy EXCEPT ![c] = @ + 1]
          /\ Goto(c, "submit")
          /\ UNCHANGED <<round, ndrinkerslock>>
       \/ /\ dummy[c] = NBartenders
          /\ dummy' = [dummy EXCEPT ![c] = 0]
          /\ ndrinkerslock' = NONE
          /\ Goto(c, "home")
          /\ UNCHANGED round
    /\ UNCHANGED <<glasses, doses, ndrinkers, sems, orderslock, glassarraylock,
                   bottleslock, slot, poured, reg, waited, fault>>

\* crawl_home: the last customer keeps ndrinkerslock and orders the dummies.
crawl_home(c) ==
    /\ At(c, "crawl_home") /\ ndrinkerslock = NONE
    /\ ndrinkers' = ndrinkers - 1
    /\ IF ndrinkers = 1
       THEN /\ ndrinkerslock' = c
            /\ dummy' = [dummy EXCEPT ![c] = 1]
            /\ Goto(c, "submit")
       ELSE Goto(c, "home") /\ UNCHANGED <<ndrinkerslock, dummy>>
    /\ UNCHANGED <<orders, glasses, doses, sems, orderslock, glassarraylock, bottleslock,
                   slot, mine, round, poured, reg, waited, fault>>

\* V(alldone) and the end of the thread, for customers and bartenders.
go_home(t) ==
    /\ At(t, "home")
    /\ alldone' = alldone + 1
    /\ Goto(t, "gone")
    /\ UNCHANGED <<orders, glasses, doses, ndrinkers, emptyglasses, ordersready,
                   ordercomplete, locks, locals, waited, fault>>

customer(c) ==
    \/ submit_scan(c) \/ submit_put(c) \/ submit_V(c) \/ submit_P(c)
    \/ submit_given(c) \/ drink(c) \/ return_glass(c) \/ return_V(c)
    \/ return_slot(c) \/ crawl_home(c) \/ go_home(c)

----------------------------------------------------------------------------
(* Bartenders *)

\* while (drinkers()): ndrinkers is read without its lock.
drinkers(b) ==
    /\ At(b, "while")
    /\ Goto(b, IF ndrinkers > 0 THEN "take_P" ELSE "home")
    /\ UNCHANGED <<orders, glasses, doses, ndrinkers, sems, locks, locals, waited, fault>>

\* Mutant of take_P: a bartender does not wait for an order.
take_P_nowait(b) ==
    /\ At(b, "take_P")
    /\ Goto(b, "take_scan")
    /\ UNCHANGED <<orders, glasses, doses, ndrinkers, sems, locks, locals, waited, fault>>

take_P(b) ==
    /\ At(b, "take_P") /\ ordersready > 0
    /\ ordersready' = ordersready - 1
    /\ Goto(b, "take_scan")
    /\ UNCHANGED <<orders, glasses, doses, ndrinkers, emptyglasses, ordercomplete,
                   alldone, locks, locals, waited, fault>>

\* Mutant of take_scan: the orders are searched without the lock.
take_scan_nolock(b) ==
    /\ At(b, "take_scan") /\ Found(orders, 1) # {}
    /\ slot' = [slot EXCEPT ![b] = First(orders, 1)]
    /\ Goto(b, "take_put")
    /\ UNCHANGED <<orders, glasses, doses, ndrinkers, sems, locks,
                   mine, round, dummy, poured, reg, waited, fault>>

\* take_order: the scan under orderslock; finding no order is a panic.
take_scan(b) ==
    /\ At(b, "take_scan") /\ orderslock = NONE
    /\ orderslock' = b
    /\ IF Found(orders, 1) = {}
       THEN fault' = TRUE /\ UNCHANGED slot
       ELSE slot' = [slot EXCEPT ![b] = First(orders, 1)] /\ UNCHANGED fault
    /\ Goto(b, "take_put")
    /\ UNCHANGED <<orders, glasses, doses, ndrinkers, sems, glassarraylock, bottleslock,
                   ndrinkerslock, mine, round, dummy, poured, reg, waited>>

take_put(b) ==
    /\ At(b, "take_put")
    /\ orders' = [orders EXCEPT ![slot[b]].state = 2]
    /\ orderslock' = NONE
    /\ Goto(b, "fill_P")
    /\ UNCHANGED <<glasses, doses, ndrinkers, sems, glassarraylock, bottleslock,
                   ndrinkerslock, locals, waited, fault>>

fill_P(b) ==
    /\ At(b, "fill_P") /\ emptyglasses > 0
    /\ emptyglasses' = emptyglasses - 1
    /\ Goto(b, "fill_scan")
    /\ UNCHANGED <<orders, glasses, doses, ndrinkers, ordersready, ordercomplete,
                   alldone, locks, locals, waited, fault>>

\* fill_order: the scan for an empty glass; without one g has no value.
fill_scan(b) ==
    /\ At(b, "fill_scan") /\ glassarraylock = NONE
    /\ glassarraylock' = b
    /\ IF Found(glasses, 0) = {}
       THEN fault' = TRUE /\ UNCHANGED mine
       ELSE mine' = [mine EXCEPT ![b] = First(glasses, 0)] /\ UNCHANGED fault
    /\ Goto(b, "fill_put")
    /\ UNCHANGED <<orders, glasses, doses, ndrinkers, sems, orderslock, bottleslock,
                   ndrinkerslock, slot, round, dummy, poured, reg, waited>>

\* The glass is in use; after lock_release it is associated with the order.
fill_put(b) ==
    /\ At(b, "fill_put")
    /\ glasses' = [glasses EXCEPT ![mine[b]].state = 1]
    /\ glassarraylock' = NONE
    /\ Goto(b, "fill_glass")
    /\ UNCHANGED <<orders, doses, ndrinkers, sems, orderslock, bottleslock,
                   ndrinkerslock, locals, waited, fault>>

fill_glass(b) ==
    /\ At(b, "fill_glass")
    /\ orders' = [orders EXCEPT ![slot[b]].glass = mine[b]]
    /\ Goto(b, "fill_bottles")
    /\ UNCHANGED <<glasses, doses, ndrinkers, sems, locks, locals, waited, fault>>

\* Mutant of fill_bottles: the bottles are used without bottleslock.
fill_bottles_nolock(b) ==
    /\ At(b, "fill_bottles")
    /\ poured' = [poured EXCEPT ![b] = 0]
    /\ Goto(b, "pour")
    /\ UNCHANGED <<orders, glasses, doses, ndrinkers, sems, locks,
                   slot, mine, round, dummy, reg, waited, fault>>

fill_bottles(b) ==
    /\ At(b, "fill_bottles") /\ bottleslock = NONE
    /\ bottleslock' = b
    /\ poured' = [poured EXCEPT ![b] = 0]
    /\ Goto(b, "pour")
    /\ UNCHANGED <<orders, glasses, doses, ndrinkers, sems, orderslock, glassarraylock,
                   ndrinkerslock, slot, mine, round, dummy, reg, waited, fault>>

\* The ingredients of an order that pour() still has to deal with, and the place
\* in contents the next one goes to (NOTHING takes no place).
Left(b) == {k \in (poured[b] + 1)..3 : orders[slot[b]].ing[k] # NOTHING}
Place_gap(b) == Min(Left(b))  \* mutant of Place: NOTHING takes a place
Place(b) == 1 + Cardinality({k \in 1..poured[b] : orders[slot[b]].ing[k] # NOTHING})

\* pour: the next ingredient goes into the glass and its doses are read ...
pour_read(b) ==
    /\ At(b, "pour") /\ Left(b) # {}
    /\ LET k == Min(Left(b))
           bottle == orders[slot[b]].ing[k]
       IN /\ glasses' = [glasses EXCEPT ![mine[b]].contents[Place(b)] = bottle]
          /\ reg' = [reg EXCEPT ![b] = doses[bottle]]
    /\ Goto(b, "pour_write")
    /\ UNCHANGED <<orders, doses, ndrinkers, sems, locks, slot, mine, round, dummy,
                   poured, waited, fault>>

\* ... and written back, one more.
pour_write(b) ==
    /\ At(b, "pour_write")
    /\ LET k == Min(Left(b))
       IN /\ doses' = [doses EXCEPT ![orders[slot[b]].ing[k]] = reg[b] + 1]
          /\ poured' = [poured EXCEPT ![b] = k]
    /\ Goto(b, "pour")
    /\ UNCHANGED <<orders, glasses, ndrinkers, sems, locks, slot, mine, round, dummy,
                   reg, waited, fault>>

\* pour returns and fill_order releases the bottles.
fill_done(b) ==
    /\ At(b, "pour") /\ Left(b) = {}
    /\ bottleslock' = NONE
    /\ Goto(b, "serve")
    /\ UNCHANGED <<orders, glasses, doses, ndrinkers, sems, orderslock, glassarraylock,
                   ndrinkerslock, locals, waited, fault>>

\* serve_order.  (orders[i].ordernumber is i in every order submitted.)
serve_order(b) ==
    /\ At(b, "serve")
    /\ ordercomplete' = [ordercomplete EXCEPT ![slot[b]] = @ + 1]
    /\ mine' = [mine EXCEPT ![b] = NONE]
    /\ Goto(b, "while")
    /\ UNCHANGED <<orders, glasses, doses, ndrinkers, emptyglasses, ordersready, alldone,
                   locks, slot, round, dummy, poured, reg, waited, fault>>

bartender(b) ==
    \/ drinkers(b) \/ take_P(b) \/ take_scan(b) \/ take_put(b) \/ fill_P(b)
    \/ fill_scan(b) \/ fill_put(b) \/ fill_glass(b) \/ fill_bottles(b)
    \/ pour_read(b) \/ pour_write(b) \/ fill_done(b) \/ serve_order(b) \/ go_home(b)

----------------------------------------------------------------------------

\* createbar waits for everybody; with the last P it prints the doses and closes.
createbar ==
    /\ ~fault /\ alldone > 0
    /\ alldone' = alldone - 1
    /\ waited' = waited + 1
    /\ UNCHANGED <<orders, glasses, doses, ndrinkers, emptyglasses, ordersready,
                   ordercomplete, locks, pc, locals, fault>>

Closed == waited = NCustomers + NBartenders

Next == (\E c \in Customer : customer(c)) \/ (\E b \in Bartender : bartender(b))
        \/ createbar

\* The scheduler is round robin, so a thread that can go on eventually does.
Fairness == /\ \A c \in Customer : WF_vars(customer(c))
            /\ \A b \in Bartender : WF_vars(bartender(b))
            /\ WF_vars(createbar)

Spec == Init /\ [][Next]_vars
FairSpec == Spec /\ Fairness

----------------------------------------------------------------------------
(* Properties *)

TypeOK ==
    /\ orders \in [Slot -> [ing : [1..3 -> 0..(NBottles - 1)],
                            glass : Glass \cup {NONE}, state : 0..3]]
    /\ glasses \in [Glass -> [contents : [1..3 -> 0..(NBottles - 1)], state : 0..1,
                              ordernumber : Slot]]
    /\ ndrinkers \in 0..NCustomers /\ emptyglasses \in 0..NGlasses
    /\ ordersready \in 0..NCustomers /\ ordercomplete \in [Slot -> 0..1]
    /\ slot \in [Thread -> Slot] /\ mine \in [Thread -> Glass \cup {NONE}]

\* The semaphores keep their bounds, and submit_order always finds an unused
\* slot, take_order an order (its panic is never reached) and fill_order an empty
\* glass: the semaphores count what the arrays hold although they are changed at
\* different moments.
NoFault == TypeOK /\ ~fault

\* contents is what the first k ingredients make: each at the place that the ones
\* before it leave, NOTHING taking none, and nothing after the last.
Places(ing, k) == Cardinality({j \in 1..k : ing[j] # NOTHING})
Poured(contents, ing, k) ==
    /\ \A j \in 1..k : ing[j] # NOTHING => contents[Places(ing, j)] = ing[j]
    /\ \A p \in 1..3 : p > Places(ing, k) => contents[p] = NOTHING

\* "The function returns when (and only when) the drink is ready": a customer
\* about to drink has the ingredients it ordered, in the order given, without gaps.
RightDrink ==
    \A c \in Customer : pc[c] = "drink" => Poured(glasses[mine[c]].contents, Drink[c], 3)

\* A glass belongs to one thread at a time from fill_order to return_glass, and
\* no order is filled by two bartenders.
GlassExclusive ==
    \A t, u \in Thread : t # u =>
        /\ mine[t] # NONE /\ pc[t] \notin {"return_V", "return_slot"}
           /\ pc[u] \notin {"return_V", "return_slot"} => mine[t] # mine[u]
        /\ {t, u} \subseteq Bartender /\ mine[t] # NONE /\ mine[u] # NONE
           => slot[t] # slot[u]

\* When createbar prints the doses of each bottle they are those of the drinks
\* that were ordered: "POUR NEEDS THE ROUTINE THAT CALLS IT TO ENSURE THAT IT HAS
\* EXCLUSIVE ACCESS TO THE BOTTLES" and no count is lost.
DosesExact ==
    Closed => \A x \in 1..(NBottles - 1) :
        doses[x] = Rounds * Cardinality({ck \in Customer \X (1..3) : Drink[ck[1]][ck[2]] = x})

\* Every drink a customer orders is served: bartenders do not leave before, and
\* do not wait for each other or for customers forever.
DrinkServed == \A c \in Customer : pc[c] = "submit" /\ dummy[c] = 0 ~> pc[c] = "drink"

\* bar.c, crawl_home: the last customer "orders a lot of empty drinks to let all
\* the bartenders go home", and createbar's wait "for everybody to finish" ends.
AllGoHome == <>Closed
=============================================================================
