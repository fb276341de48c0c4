----------------------------- MODULE BarProofs -----------------------------
(***************************************************************************)
(* Proofs about the bar, for any number of customers, bartenders, glasses, *)
(* drinks and bottles: nobody faults, a glass and an order are in one pair *)
(* of hands, a customer drinks what it ordered, and the doses that were    *)
(* counted of each bottle are those of the drinks.                         *)
(*                                                                         *)
(* The argument is one of ownership.  A slot of orders belongs to the      *)
(* customer that filled it in, a taken order to one bartender until it is  *)
(* complete, a glass to one order until it is returned; and the semaphores *)
(* count the orders to take and the empty glasses, less the threads that   *)
(* are between the semaphore and the array.  For the doses, every          *)
(* ingredient of every drink of a customer is poured once, by the          *)
(* bartender that has the customer's order and the bottles.                *)
(***************************************************************************)
EXTENDS Bar, ListLemmas

----------------------------------------------------------------------------
(* The inductive invariant *)

\* Where a customer has a slot of orders, where a bartender has an order that it
\* fills, and where each of them has a glass in use.
HasSlot == {"submit_V", "submit_P", "given", "drink", "return", "return_V", "return_slot"}
Fills == {"fill_P", "fill_scan", "fill_put", "fill_glass", "fill_bottles", "pour",
          "pour_write", "serve"}
HasGlass == {"fill_glass", "fill_bottles", "pour", "pour_write", "serve"}
Given == {"given", "drink", "return"}
Labels == HasSlot \cup Fills \cup {"submit", "submit_put", "crawl_home", "home", "gone",
                                   "while", "take_P", "take_scan", "take_put"}

Triple == [1..3 -> 0..(NBottles - 1)]
OrderRecord == [ing : Triple, glass : Glass \cup {NONE}, state : 0..3]
GlassRecord == [contents : Triple, state : 0..1, ordernumber : Slot]

BarTypes ==
    /\ orders \in [Slot -> OrderRecord] /\ glasses \in [Glass -> GlassRecord]
    /\ ndrinkers \in Nat /\ emptyglasses \in Nat /\ ordersready \in Nat
    /\ ordercomplete \in [Slot -> 0..1]
    /\ slot \in [Thread -> Slot] /\ mine \in [Thread -> Glass \cup {NONE}]
    /\ pc \in [Thread -> Labels]
    /\ dummy \in [Customer -> 0..NBartenders] /\ poured \in [Bartender -> 0..3]

\* The slots of orders: each that is in use belongs to one customer, who knows how
\* far the order is.
SlotsOwned ==
    /\ \A c, d \in Customer : c # d /\ pc[c] \in HasSlot /\ pc[d] \in HasSlot => slot[c] # slot[d]
    /\ \A c \in Customer :
         /\ pc[c] = "submit_put" => orders[slot[c]].state = 0 /\ orderslock = c
         /\ pc[c] \in {"submit_V", "submit_P"} => orders[slot[c]].state \in {1, 2}
         /\ pc[c] = "given" => orders[slot[c]].state = 2 /\ ordercomplete[slot[c]] = 0
         /\ pc[c] \in {"drink", "return", "return_V", "return_slot"} => orders[slot[c]].state = 3
    /\ \A i \in Slot : orders[i].state # 0 => \E c \in Customer : pc[c] \in HasSlot /\ slot[c] = i

\* An order that was taken is with one bartender, or is complete, or was given.
OrdersTaken ==
    /\ \A b \in Bartender :
         /\ pc[b] = "take_put" => orders[slot[b]].state = 1 /\ orderslock = b
         /\ pc[b] \in Fills => orders[slot[b]].state = 2 /\ ordercomplete[slot[b]] = 0
    /\ \A b, e \in Bartender : b # e /\ pc[b] \in Fills /\ pc[e] \in Fills => slot[b] # slot[e]
    /\ \A b \in Bartender, c \in Customer : pc[b] \in Fills /\ pc[c] = "given" => slot[b] # slot[c]
    /\ \A i \in Slot : ordercomplete[i] # 0 => orders[i].state = 2

\* Glass g is in use for the order in slot i.
GlassAt(i, g) ==
    \/ ordercomplete[i] = 1 /\ orders[i].glass = g
    \/ \E b \in Bartender : pc[b] \in HasGlass /\ slot[b] = i /\ mine[b] = g
    \/ \E c \in Customer : pc[c] \in Given /\ slot[c] = i /\ mine[c] = g

\* The glasses in use are used for one order each.
GlassesOwned ==
    /\ \A i \in Slot, g \in Glass \cup {NONE} : GlassAt(i, g) => g \in Glass /\ glasses[g].state = 1
    /\ \A i, j \in Slot, g \in Glass : GlassAt(i, g) /\ GlassAt(j, g) => i = j

\* What threads know of their glasses.
MineOK ==
    /\ \A b \in Bartender :
         /\ pc[b] = "fill_put" => /\ mine[b] \in Glass /\ glasses[mine[b]].state = 0
                                  /\ glassarraylock = b
         /\ pc[b] \in HasGlass \ {"fill_glass"} => orders[slot[b]].glass = mine[b]
         /\ pc[b] \notin HasGlass \cup {"fill_put"} => mine[b] = NONE
    /\ \A c \in Customer :
         /\ pc[c] \in Given => glasses[mine[c]].ordernumber = slot[c]
         /\ pc[c] \notin Given \cup {"return_V", "return_slot"} => mine[c] = NONE

\* What is in the glasses.
Empty(g) == \A p \in 1..3 : glasses[g].contents[p] = NOTHING

GlassesFilled ==
    /\ \A g \in Glass : glasses[g].state = 0 => Empty(g)
    /\ \A b \in Bartender :
         /\ pc[b] \in {"fill_glass", "fill_bottles"} => Empty(mine[b])
         /\ pc[b] = "pour" => Poured(glasses[mine[b]].contents, orders[slot[b]].ing, poured[b])
         /\ pc[b] = "pour_write" =>
               Left(b) # {} /\ Poured(glasses[mine[b]].contents, orders[slot[b]].ing, Min(Left(b)))
         /\ pc[b] = "serve" => Poured(glasses[mine[b]].contents, orders[slot[b]].ing, 3)
    /\ \A i \in Slot : ordercomplete[i] = 1 =>
          Poured(glasses[orders[i].glass].contents, orders[i].ing, 3)
    /\ \A c \in Customer :
         /\ pc[c] \in {"given", "drink"} => Poured(glasses[mine[c]].contents, orders[slot[c]].ing, 3)
         /\ pc[c] = "return" => Empty(mine[c])

\* What was ordered.
OrderedOK ==
    \A c \in Customer :
       /\ pc[c] \in {"submit_V", "submit_P", "given", "drink"} =>
             orders[slot[c]].ing = Ingredients(c)
       /\ pc[c] \in {"drink", "crawl_home"} => dummy[c] = 0

\* The semaphores count the orders to take and the empty glasses, with the threads
\* that have changed one of the two and not yet the other; ndrinkers counts the
\* customers that still drink.
Count(S, labels) == Cardinality({t \in S : pc[t] \in labels})

OrdersCounted ==
    ordersready + Count(Bartender, {"take_scan", "take_put"}) + Count(Customer, {"submit_V"})
      = Cardinality(Found(orders, 1))

GlassesCounted ==
    emptyglasses + Count(Bartender, {"fill_scan", "fill_put"}) + Count(Customer, {"return_V"})
      = Cardinality(Found(glasses, 0))

Drinking == {c \in Customer : dummy[c] = 0 /\ pc[c] \notin {"home", "gone"}}

BarInv ==
    /\ BarTypes /\ ~fault
    /\ SlotsOwned /\ OrdersTaken /\ GlassesOwned /\ MineOK /\ GlassesFilled /\ OrderedOK
    /\ OrdersCounted /\ GlassesCounted /\ ndrinkers = Cardinality(Drinking)

----------------------------------------------------------------------------
(* Facts about sizes, counts and minima *)

\* The sizes of the bar.
LEMMA BarSizes ==
    /\ IsFiniteSet(Customer) /\ IsFiniteSet(Bartender) /\ IsFiniteSet(Slot) /\ IsFiniteSet(Glass)
    /\ NCustomers \in Nat \ {0} /\ NBartenders \in Nat \ {0}
    /\ Cardinality(Slot) = NCustomers /\ Cardinality(Glass) = NGlasses
    /\ Slot \subseteq Nat /\ Glass \subseteq Nat /\ 0 \in Slot
    /\ Customer \subseteq Thread /\ Bartender \subseteq Thread /\ Customer \cap Bartender = {}
    /\ NONE \notin Thread /\ NONE \notin Glass
<1>1. Customer \in SUBSET Thread /\ Bartender \in SUBSET Thread /\ IsFiniteSet(Thread)
  BY BarAssumption DEF Thread
<1>2. IsFiniteSet(Customer) /\ IsFiniteSet(Bartender)
  BY <1>1, FS_Subset
<1>3. NCustomers \in Nat /\ NBartenders \in Nat
  BY <1>2, FS_CardinalityType DEF NCustomers, NBartenders
<1>4. NCustomers # 0 /\ NBartenders # 0
  BY <1>2, FS_EmptySet, BarAssumption DEF NCustomers, NBartenders
<1>5. IsFiniteSet(Slot) /\ Cardinality(Slot) = NCustomers
  BY <1>3, <1>4, FS_Interval DEF Slot
<1>6. IsFiniteSet(Glass) /\ Cardinality(Glass) = NGlasses
  <2>1. NGlasses \in Nat \ {0}
    BY BarAssumption
  <2> QED BY <2>1, FS_Interval DEF Glass
<1>7. Slot \subseteq Nat /\ Glass \subseteq Nat /\ 0 \in Slot
  BY <1>3, <1>4 DEF Slot, Glass
<1> QED BY <1>1, <1>2, <1>3, <1>4, <1>5, <1>6, <1>7, BarAssumption

\* How a step of t changes the number of threads at labels.
LEMMA CountStep ==
    ASSUME BarTypes, NEW S \in {Customer, Bartender}, NEW labels, NEW t \in Thread, NEW to,
           pc' = [pc EXCEPT ![t] = to]
    PROVE  /\ Count(S, labels) \in Nat /\ Count(S, labels)' \in Nat
           /\ Count(S, labels)' = Count(S, labels) + Ind(t \in S /\ to \in labels)
                                  - Ind(t \in S /\ pc[t] \in labels)
<1>1. PICK A : A = {u \in S : pc[u] \in labels}
  OBVIOUS
<1>2. PICK B : B = {u \in S : pc'[u] \in labels}
  OBVIOUS
<1>3. S \subseteq Thread /\ IsFiniteSet(S)
  BY BarSizes
<1>4. pc'[t] = to /\ \A u \in Thread \ {t} : pc'[u] = pc[u]
  BY DEF BarTypes
<1>5. IsFiniteSet(A) /\ B \ {t} = A \ {t}
  <2>1. A \in SUBSET S
    BY <1>1
  <2> QED BY <1>1, <1>2, <1>3, <1>4, <2>1, FS_Subset
<1>6. (t \in B <=> t \in S /\ to \in labels) /\ (t \in A <=> t \in S /\ pc[t] \in labels)
  BY <1>1, <1>2, <1>4
<1>7. /\ Cardinality(A) \in Nat /\ Cardinality(B) \in Nat
      /\ Cardinality(B) = Cardinality(A) + Ind(t \in B) - Ind(t \in A)
  BY <1>5, SetStep
<1>8. Count(S, labels) = Cardinality(A) /\ Count(S, labels)' = Cardinality(B)
  BY <1>1, <1>2 DEF Count
<1> QED BY <1>6, <1>7, <1>8 DEF Ind

\* The counts that matter, after a step of a customer and of a bartender.
LEMMA CustomerCounts ==
    ASSUME BarTypes, NEW c \in Customer, NEW to, pc' = [pc EXCEPT ![c] = to], NEW L, NEW M
    PROVE  /\ Count(Bartender, L) \in Nat /\ Count(Bartender, L)' = Count(Bartender, L)
           /\ Count(Customer, M) \in Nat
           /\ Count(Customer, M)' = Count(Customer, M) + Ind(to \in M) - Ind(pc[c] \in M)
<1>1. c \in Thread /\ c \notin Bartender
  BY BarSizes
<1>2. /\ Count(Bartender, L) \in Nat
      /\ Count(Bartender, L)' = Count(Bartender, L) + Ind(c \in Bartender /\ to \in L)
                                  - Ind(c \in Bartender /\ pc[c] \in L)
  BY <1>1, CountStep
<1>3. /\ Count(Customer, M) \in Nat
      /\ Count(Customer, M)' = Count(Customer, M) + Ind(c \in Customer /\ to \in M)
                                  - Ind(c \in Customer /\ pc[c] \in M)
  BY <1>1, CountStep
<1> QED BY <1>1, <1>2, <1>3 DEF Ind

\* The counts when a bartender moves on.
LEMMA BartenderCounts ==
    ASSUME BarTypes, NEW b \in Bartender, NEW to, pc' = [pc EXCEPT ![b] = to], NEW L, NEW M
    PROVE  /\ Count(Customer, M) \in Nat /\ Count(Customer, M)' = Count(Customer, M)
           /\ Count(Bartender, L) \in Nat
           /\ Count(Bartender, L)' = Count(Bartender, L) + Ind(to \in L) - Ind(pc[b] \in L)
<1>1. b \in Thread /\ b \notin Customer
  BY BarSizes
<1>2. /\ Count(Customer, M) \in Nat
      /\ Count(Customer, M)' = Count(Customer, M) + Ind(b \in Customer /\ to \in M)
                                  - Ind(b \in Customer /\ pc[b] \in M)
  BY <1>1, CountStep
<1>3. /\ Count(Bartender, L) \in Nat
      /\ Count(Bartender, L)' = Count(Bartender, L) + Ind(b \in Bartender /\ to \in L)
                                  - Ind(b \in Bartender /\ pc[b] \in L)
  BY <1>1, CountStep
<1> QED BY <1>1, <1>2, <1>3 DEF Ind

\* How a change of slot s changes the number of orders to take.
LEMMA OrdersStep ==
    ASSUME BarTypes, BarTypes', NEW s \in Slot, \A i \in Slot \ {s} : orders'[i] = orders[i]
    PROVE  /\ Cardinality(Found(orders, 1)) \in Nat /\ Cardinality(Found(orders, 1))' \in Nat
           /\ Cardinality(Found(orders, 1))' = Cardinality(Found(orders, 1))
                + Ind(orders'[s].state = 1) - Ind(orders[s].state = 1)
<1>1. PICK A : A = {i \in Slot : orders[i].state = 1}
  OBVIOUS
<1>2. PICK B : B = {i \in Slot : orders'[i].state = 1}
  OBVIOUS
<1>3. A = Found(orders, 1) /\ B = Found(orders, 1)'
  BY <1>1, <1>2 DEF BarTypes, Found
<1>4. IsFiniteSet(A) /\ B \ {s} = A \ {s}
  <2>1. A \in SUBSET Slot
    BY <1>1
  <2> QED BY <1>1, <1>2, <2>1, BarSizes, FS_Subset
<1>5. /\ Cardinality(A) \in Nat /\ Cardinality(B) \in Nat
      /\ Cardinality(B) = Cardinality(A) + Ind(s \in B) - Ind(s \in A)
  BY <1>4, SetStep
<1> QED BY <1>1, <1>2, <1>3, <1>5 DEF Ind

\* How a change of glass g changes the number of empty glasses.
LEMMA GlassesStep ==
    ASSUME BarTypes, BarTypes', NEW g \in Glass, \A i \in Glass \ {g} : glasses'[i] = glasses[i]
    PROVE  /\ Cardinality(Found(glasses, 0)) \in Nat /\ Cardinality(Found(glasses, 0))' \in Nat
           /\ Cardinality(Found(glasses, 0))' = Cardinality(Found(glasses, 0))
                + Ind(glasses'[g].state = 0) - Ind(glasses[g].state = 0)
<1>1. PICK A : A = {i \in Glass : glasses[i].state = 0}
  OBVIOUS
<1>2. PICK B : B = {i \in Glass : glasses'[i].state = 0}
  OBVIOUS
<1>3. A = Found(glasses, 0) /\ B = Found(glasses, 0)'
  BY <1>1, <1>2 DEF BarTypes, Found
<1>4. IsFiniteSet(A) /\ B \ {g} = A \ {g}
  <2>1. A \in SUBSET Glass
    BY <1>1
  <2> QED BY <1>1, <1>2, <2>1, BarSizes, FS_Subset
<1>5. /\ Cardinality(A) \in Nat /\ Cardinality(B) \in Nat
      /\ Cardinality(B) = Cardinality(A) + Ind(g \in B) - Ind(g \in A)
  BY <1>4, SetStep
<1> QED BY <1>1, <1>2, <1>3, <1>5 DEF Ind

\* Min of a set of numbers is one of them.
LEMMA MinIn ==
    ASSUME NEW S \in SUBSET Nat, S # {}
    PROVE  Min(S) \in S /\ \A k \in S : Min(S) <= k
<1>1. \E m \in S : \A k \in S : m <= k
  BY LeastNatural
<1> QED BY <1>1 DEF Min

\* The scans: what they find, when there is something to find.
LEMMA ScanFinds ==
    ASSUME BarTypes, NEW s
    PROVE  /\ Found(orders, s) # {} =>
                First(orders, s) \in Slot /\ orders[First(orders, s)].state = s
           /\ Found(glasses, s) # {} =>
                First(glasses, s) \in Glass /\ glasses[First(glasses, s)].state = s
<1>1. Found(orders, s) = {i \in Slot : orders[i].state = s}
  BY DEF BarTypes, Found
<1>2. Found(glasses, s) = {i \in Glass : glasses[i].state = s}
  BY DEF BarTypes, Found
<1>3. Found(orders, s) \in SUBSET Nat /\ Found(glasses, s) \in SUBSET Nat
  BY <1>1, <1>2, BarSizes
<1>4. Found(orders, s) # {} => First(orders, s) \in Found(orders, s)
  BY <1>3, MinIn DEF First
<1>5. Found(glasses, s) # {} => First(glasses, s) \in Found(glasses, s)
  BY <1>3, MinIn DEF First
<1> QED BY <1>1, <1>2, <1>4, <1>5

----------------------------------------------------------------------------
(* The scans do not fail *)

\* submit_order finds a slot: there are as many as customers, each in use is some
\* customer's, and this customer has none.
LEMMA SlotFree ==
    ASSUME BarInv, NEW c \in Customer, pc[c] = "submit"
    PROVE  Found(orders, 0) # {}
<1>1. SUFFICES ASSUME Found(orders, 0) = {} PROVE FALSE
  OBVIOUS
<1>2. BarTypes /\ SlotsOwned
  BY DEF BarInv
<1>3. \A i \in Slot : orders[i].state # 0
  BY <1>1, <1>2 DEF Found, BarTypes
<1>4. PICK S : S = {d \in Customer : pc[d] \in HasSlot}
  OBVIOUS
<1>5. S \in SUBSET (Customer \ {c})
  BY <1>4 DEF HasSlot
<1>6. IsFiniteSet(Customer \ {c}) /\ Cardinality(Customer \ {c}) = NCustomers - 1
  BY BarSizes, FS_RemoveElement DEF NCustomers
<1>7. IsFiniteSet(S) /\ Cardinality(S) <= NCustomers - 1 /\ Cardinality(S) \in Nat
  BY <1>5, <1>6, FS_Subset, FS_CardinalityType
<1>8. PICK f : f = [d \in S |-> slot[d]]
  OBVIOUS
<1>9. f \in Surjection(S, Slot)
  <2>1. f \in [S -> Slot]
    BY <1>2, <1>4, <1>8, BarSizes DEF BarTypes
  <2>2. \A i \in Slot : \E d \in S : f[d] = i
    BY <1>2, <1>3, <1>4, <1>8 DEF SlotsOwned
  <2> QED BY <2>1, <2>2 DEF Surjection
<1>10. Cardinality(Slot) <= Cardinality(S)
  BY <1>7, <1>9, FS_Surjection
<1> QED BY <1>7, <1>10, BarSizes

\* take_order finds an order, and fill_order a glass: the semaphores count them.
LEMMA OrderAndGlass ==
    ASSUME BarInv, NEW b \in Bartender
    PROVE  /\ pc[b] = "take_scan" => Found(orders, 1) # {}
           /\ pc[b] = "fill_scan" => Found(glasses, 0) # {}
<1>1. \A L : b \in {t \in Bartender : pc[t] \in L} => Count(Bartender, L) \in Nat \ {0}
  <2> TAKE L
  <2>1. PICK S : S = {t \in Bartender : pc[t] \in L}
    OBVIOUS
  <2>2. IsFiniteSet(S)
    <3>1. S \in SUBSET Bartender
      BY <2>1
    <3> QED BY <3>1, BarSizes, FS_Subset
  <2>3. b \in S => Cardinality(S) \in Nat \ {0}
    BY <2>2, FS_CardinalityType, FS_EmptySet
  <2> QED BY <2>1, <2>3 DEF Count
<1>2. \A L : Count(Customer, L) \in Nat
  <2> TAKE L
  <2>1. {t \in Customer : pc[t] \in L} \in SUBSET Customer
    OBVIOUS
  <2>2. IsFiniteSet({t \in Customer : pc[t] \in L})
    BY <2>1, BarSizes, FS_Subset
  <2> QED BY <2>2, FS_CardinalityType DEF Count
<1>3. ordersready \in Nat /\ emptyglasses \in Nat /\ OrdersCounted /\ GlassesCounted
  BY DEF BarInv, BarTypes
<1>4. pc[b] = "take_scan" => Cardinality(Found(orders, 1)) # 0
  <2>1. pc[b] = "take_scan" => Count(Bartender, {"take_scan", "take_put"}) \in Nat \ {0}
    BY <1>1
  <2>2. Count(Customer, {"submit_V"}) \in Nat
    BY <1>2
  <2> QED BY <1>3, <2>1, <2>2 DEF OrdersCounted
<1>5. pc[b] = "fill_scan" => Cardinality(Found(glasses, 0)) # 0
  <2>1. pc[b] = "fill_scan" => Count(Bartender, {"fill_scan", "fill_put"}) \in Nat \ {0}
    BY <1>1
  <2>2. Count(Customer, {"return_V"}) \in Nat
    BY <1>2
  <2> QED BY <1>3, <2>1, <2>2 DEF GlassesCounted
<1> QED BY <1>4, <1>5, FS_EmptySet

\* The glasses in use are in different hands.
LEMMA Alone ==
    ASSUME BarInv
    PROVE  /\ \A b \in Bartender : pc[b] \in HasGlass => mine[b] \in Glass /\ glasses[mine[b]].state = 1
           /\ \A c \in Customer : pc[c] \in Given => mine[c] \in Glass /\ glasses[mine[c]].state = 1
           /\ \A i \in Slot : ordercomplete[i] = 1 =>
                 orders[i].glass \in Glass /\ glasses[orders[i].glass].state = 1
           /\ \A b, e \in Bartender : b # e /\ pc[b] \in HasGlass /\ pc[e] \in HasGlass => mine[b] # mine[e]
           /\ \A b \in Bartender, c \in Customer :
                 pc[b] \in HasGlass /\ pc[c] \in Given => mine[b] # mine[c]
           /\ \A b \in Bartender, i \in Slot :
                 pc[b] \in HasGlass /\ ordercomplete[i] = 1 => mine[b] # orders[i].glass
           /\ \A c, d \in Customer : c # d /\ pc[c] \in Given /\ pc[d] \in Given => mine[c] # mine[d]
           /\ \A c \in Customer, i \in Slot :
                 pc[c] \in Given /\ ordercomplete[i] = 1 => mine[c] # orders[i].glass
<1>1. BarTypes /\ SlotsOwned /\ OrdersTaken /\ GlassesOwned
  BY DEF BarInv
<1>2. /\ \A t \in Thread : slot[t] \in Slot /\ mine[t] \in Glass \cup {NONE}
      /\ \A i \in Slot : orders[i].glass \in Glass \cup {NONE}
  BY <1>1 DEF BarTypes, OrderRecord
<1>3. /\ \A b \in Bartender : pc[b] \in HasGlass => GlassAt(slot[b], mine[b])
      /\ \A c \in Customer : pc[c] \in Given => GlassAt(slot[c], mine[c])
      /\ \A i \in Slot : ordercomplete[i] = 1 => GlassAt(i, orders[i].glass)
  BY DEF GlassAt
<1>4. /\ \A b \in Bartender : pc[b] \in HasGlass => mine[b] \in Glass /\ glasses[mine[b]].state = 1
      /\ \A c \in Customer : pc[c] \in Given => mine[c] \in Glass /\ glasses[mine[c]].state = 1
      /\ \A i \in Slot : ordercomplete[i] = 1 =>
            orders[i].glass \in Glass /\ glasses[orders[i].glass].state = 1
  BY <1>1, <1>2, <1>3, BarSizes DEF GlassesOwned
<1>5. /\ \A b, e \in Bartender : b # e /\ pc[b] \in HasGlass /\ pc[e] \in HasGlass => slot[b] # slot[e]
      /\ \A b \in Bartender, c \in Customer :
            pc[b] \in HasGlass /\ pc[c] \in Given => slot[b] # slot[c]
      /\ \A b \in Bartender, i \in Slot : pc[b] \in HasGlass /\ ordercomplete[i] = 1 => slot[b] # i
      /\ \A c, d \in Customer : c # d /\ pc[c] \in Given /\ pc[d] \in Given => slot[c] # slot[d]
      /\ \A c \in Customer, i \in Slot : pc[c] \in Given /\ ordercomplete[i] = 1 => slot[c] # i
  BY <1>1, <1>2, BarSizes DEF SlotsOwned, OrdersTaken, HasGlass, Given, Fills, HasSlot
<1>6. \A i, j \in Slot, g \in Glass : GlassAt(i, g) /\ GlassAt(j, g) => i = j
  BY <1>1 DEF GlassesOwned
<1> QED BY <1>2, <1>3, <1>4, <1>5, <1>6, BarSizes

\* The places that ingredients take.
LEMMA PlacesOf ==
    ASSUME NEW ing
    PROVE  /\ Places(ing, 0) = 0 /\ Places(ing, 1) = Ind(ing[1] # NOTHING)
           /\ Places(ing, 2) = Places(ing, 1) + Ind(ing[2] # NOTHING)
           /\ Places(ing, 3) = Places(ing, 2) + Ind(ing[3] # NOTHING)
           /\ \A k \in 0..3 : Places(ing, k) \in 0..k
<1> DEFINE N(k) == {j \in 1..k : ing[j] # NOTHING}
<1>1. N(0) = {}
  OBVIOUS
<1>2. IsFiniteSet(N(0)) /\ Cardinality(N(0)) = 0
  BY <1>1, FS_EmptySet
<1>3. ASSUME NEW k \in 0..2, IsFiniteSet(N(k))
      PROVE  /\ IsFiniteSet(N(k + 1)) /\ Cardinality(N(k)) \in Nat
             /\ Cardinality(N(k + 1)) = Cardinality(N(k)) + Ind(ing[k + 1] # NOTHING)
  <2>1. N(k + 1) \ {k + 1} = N(k) \ {k + 1} /\ k + 1 \notin N(k)
        /\ (k + 1 \in N(k + 1) <=> ing[k + 1] # NOTHING)
    OBVIOUS
  <2> HIDE DEF N
  <2>2. /\ IsFiniteSet(N(k + 1)) /\ Cardinality(N(k)) \in Nat /\ Cardinality(N(k + 1)) \in Nat
        /\ Cardinality(N(k + 1)) = Cardinality(N(k)) + Ind(k + 1 \in N(k + 1)) - Ind(k + 1 \in N(k))
    BY <1>3, <2>1, SetStep
  <2> QED BY <2>1, <2>2 DEF Ind
<1> HIDE DEF N
<1>4. IsFiniteSet(N(0 + 1)) /\ Cardinality(N(0 + 1)) = Cardinality(N(0)) + Ind(ing[0 + 1] # NOTHING)
  BY <1>2, <1>3
<1>5. IsFiniteSet(N(1)) /\ Cardinality(N(1)) = Ind(ing[1] # NOTHING)
  BY <1>2, <1>4 DEF Ind
<1>6. IsFiniteSet(N(1 + 1)) /\ Cardinality(N(1 + 1)) = Cardinality(N(1)) + Ind(ing[1 + 1] # NOTHING)
  BY <1>3, <1>5
<1>7. IsFiniteSet(N(2)) /\ Cardinality(N(2)) = Cardinality(N(1)) + Ind(ing[2] # NOTHING)
  BY <1>6
<1>8. Cardinality(N(2 + 1)) = Cardinality(N(2)) + Ind(ing[2 + 1] # NOTHING)
  BY <1>3, <1>7
<1>9. Cardinality(N(3)) = Cardinality(N(2)) + Ind(ing[3] # NOTHING)
  BY <1>8
<1>10. \A k : Places(ing, k) = Cardinality(N(k))
  BY DEF Places, N
<1> QED BY <1>2, <1>5, <1>7, <1>9, <1>10 DEF Ind

\* pour: an empty glass, the next ingredient, and the end.
LEMMA PourSteps ==
    ASSUME NEW ing, NEW con, con \in Triple, ing \in Triple
    PROVE  /\ (\A p \in 1..3 : con[p] = NOTHING) => Poured(con, ing, 0)
           /\ \A j \in 0..3 : Poured(con, ing, j) /\ (\A x \in (j + 1)..3 : ing[x] = NOTHING)
                 => Poured(con, ing, 3)
           /\ \A j, k \in 0..3 :
                 Poured(con, ing, j) /\ j < k /\ ing[k] # NOTHING
                 /\ (\A x \in (j + 1)..3 : ing[x] # NOTHING => k <= x)
                 => /\ 1 + Places(ing, j) \in 1..3
                    /\ Poured([con EXCEPT ![1 + Places(ing, j)] = ing[k]], ing, k)
           /\ Poured(con, ing, 3) /\ (\A x \in 1..3 : ing[x] = NOTHING)
                 => \A p \in 1..3 : con[p] = NOTHING
<1>1. /\ Places(ing, 0) = 0 /\ Places(ing, 1) = Ind(ing[1] # NOTHING)
      /\ Places(ing, 2) = Places(ing, 1) + Ind(ing[2] # NOTHING)
      /\ Places(ing, 3) = Places(ing, 2) + Ind(ing[3] # NOTHING)
  BY PlacesOf
<1>2. 0..3 = {0, 1, 2, 3} /\ 1..3 = {1, 2, 3} /\ 1..0 = {} /\ 1..1 = {1} /\ 1..2 = {1, 2}
  OBVIOUS
<1>3. (\A p \in 1..3 : con[p] = NOTHING) => Poured(con, ing, 0)
  BY <1>2 DEF Poured
<1>4. ASSUME NEW j \in 0..3, Poured(con, ing, j), \A x \in (j + 1)..3 : ing[x] = NOTHING
      PROVE  Poured(con, ing, 3)
  <2>1. CASE j = 0
    BY <1>1, <1>4, <2>1 DEF Poured, Ind
  <2>2. CASE j = 1
    BY <1>1, <1>4, <2>2 DEF Poured, Ind
  <2>3. CASE j = 2
    BY <1>1, <1>4, <2>3 DEF Poured, Ind
  <2>4. CASE j = 3
    BY <1>4, <2>4
  <2> QED BY <2>1, <2>2, <2>3, <2>4
<1>5. ASSUME NEW j \in 0..3, NEW k \in 0..3, Poured(con, ing, j), j < k, ing[k] # NOTHING,
             \A x \in (j + 1)..3 : ing[x] # NOTHING => k <= x
      PROVE  /\ 1 + Places(ing, j) \in 1..3
             /\ Poured([con EXCEPT ![1 + Places(ing, j)] = ing[k]], ing, k)
  <2>1. 1 + Places(ing, j) \in 1..3
    BY <1>1, <1>5 DEF Ind
  <2>2. PICK p \in 1..3 : p = 1 + Places(ing, j)
    BY <2>1
  <2>3. PICK n : n = [con EXCEPT ![p] = ing[k]]
    OBVIOUS
  <2>4. n[p] = ing[k] /\ \A x \in 1..3 : x # p => n[x] = con[x]
    BY <2>3 DEF Triple
  <2>5. Places(ing, k) = p
    <3>1. CASE j = 0
      BY <1>1, <1>5, <2>2, <3>1 DEF Ind
    <3>2. CASE j = 1
      BY <1>1, <1>5, <2>2, <3>2 DEF Ind
    <3>3. CASE j = 2
      BY <1>1, <1>5, <2>2, <3>3 DEF Ind
    <3> QED BY <1>5, <3>1, <3>2, <3>3
  <2>6. \A x \in 1..(k - 1) : ing[x] # NOTHING => x \in 1..j /\ Places(ing, x) \in 1..3 /\ Places(ing, x) # p
    <3>1. CASE j = 0
      BY <1>1, <1>5, <2>2, <3>1 DEF Ind
    <3>2. CASE j = 1
      BY <1>1, <1>5, <2>2, <3>2 DEF Ind
    <3>3. CASE j = 2
      BY <1>1, <1>5, <2>2, <3>3 DEF Ind
    <3> QED BY <1>5, <3>1, <3>2, <3>3
  <2>7. \A x \in 1..k : ing[x] # NOTHING => n[Places(ing, x)] = ing[x]
    BY <1>5, <2>4, <2>5, <2>6 DEF Poured
  <2>8. \A x \in 1..3 : x > p => n[x] = NOTHING
    <3>1. Places(ing, j) \in Nat
      BY PlacesOf
    <3> QED BY <1>5, <2>2, <2>4, <3>1 DEF Poured
  <2> QED BY <2>2, <2>3, <2>5, <2>7, <2>8, <2>1 DEF Poured
<1>6. Poured(con, ing, 3) /\ (\A x \in 1..3 : ing[x] = NOTHING) => \A p \in 1..3 : con[p] = NOTHING
  BY <1>1 DEF Poured, Ind
<1> QED BY <1>3, <1>4, <1>5, <1>6

----------------------------------------------------------------------------
(* Every step preserves the invariant *)

\* submit_order: the scan finds a slot that is not in use.
LEMMA submit_scanInv ==
    ASSUME BarInv, NEW c \in Customer, submit_scan(c)
    PROVE  BarInv'
<1>1. /\ BarTypes /\ ~fault /\ SlotsOwned /\ OrdersTaken /\ GlassesOwned /\ MineOK /\ GlassesFilled
      /\ OrderedOK /\ OrdersCounted /\ GlassesCounted /\ ndrinkers = Cardinality(Drinking)
  BY DEF BarInv
<1>a. PICK s \in Slot : s = First(orders, 0) /\ orders[s].state = 0
  BY <1>1, SlotFree, ScanFinds DEF submit_scan, At
<1>2. /\ pc[c] = "submit" /\ pc' = [pc EXCEPT ![c] = "submit_put"]
      /\ orderslock = NONE /\ orderslock' = c
      /\ slot' = [slot EXCEPT ![c] = s]
      /\ UNCHANGED <<orders, glasses, ndrinkers, emptyglasses, ordersready, ordercomplete,
                     glassarraylock, mine, dummy, poured, fault>>
  BY <1>1, <1>a, SlotFree DEF submit_scan, At, Goto, sems, locks, locals
<1>3. /\ c \in Thread /\ pc'[c] = "submit_put" /\ \A u \in Thread \ {c} : pc'[u] = pc[u]
      /\ slot'[c] = s /\ \A u \in Thread \ {c} : slot'[u] = slot[u]
  BY <1>1, <1>2, <1>a, SlotFree, BarSizes DEF BarTypes
<1>4. BarTypes'
  <2>1. pc' \in [Thread -> Labels]
    BY <1>1, <1>2, <1>3, <1>a, SlotFree DEF BarTypes, Labels, HasSlot, Fills
  <2>2. orders' \in [Slot -> OrderRecord] /\ glasses' \in [Glass -> GlassRecord]
    BY <1>1, <1>2, <1>3, <1>a, SlotFree DEF BarTypes
  <2>3. /\ ndrinkers' \in Nat /\ emptyglasses' \in Nat /\ ordersready' \in Nat
    BY <1>1, <1>2 DEF BarTypes
  <2>4. /\ ordercomplete' \in [Slot -> 0..1] /\ slot' \in [Thread -> Slot]
        /\ mine' \in [Thread -> Glass \cup {NONE}]
        /\ dummy' \in [Customer -> 0..NBartenders] /\ poured' \in [Bartender -> 0..3]
    BY <1>1, <1>2, <1>3, <1>a, SlotFree DEF BarTypes
  <2> QED BY <2>1, <2>2, <2>3, <2>4 DEF BarTypes
<1>5. SlotsOwned'
  BY <1>1, <1>2, <1>3, <1>a, SlotFree, BarSizes DEF SlotsOwned, HasSlot, BarTypes
<1>6. OrdersTaken'
  BY <1>1, <1>2, <1>3, <1>a, SlotFree, BarSizes DEF OrdersTaken, Fills, BarTypes
<1>7. GlassesOwned'
  <2>1. \A i \in Slot : \A h : GlassAt(i, h)' => GlassAt(i, h)
    BY <1>1, <1>2, <1>3, <1>a, SlotFree, BarSizes DEF GlassAt, HasGlass, Given, BarTypes
  <2> QED BY <1>1, <1>2, <1>3, <1>a, SlotFree, <2>1 DEF GlassesOwned
<1>8. MineOK'
  BY <1>1, <1>2, <1>3, <1>a, SlotFree, BarSizes DEF MineOK, HasGlass, Given, BarTypes
<1>9. GlassesFilled'
  <2>1. \A e \in Bartender : pc[e] = "pour_write" => Left(e)' = Left(e)
    BY <1>1, <1>2, <1>3, <1>a, SlotFree, BarSizes DEF Left, BarTypes
  <2> QED BY <1>1, <1>2, <1>3, <1>a, SlotFree, <2>1, BarSizes DEF GlassesFilled, Empty, BarTypes
<1>10. OrderedOK'
  BY <1>1, <1>2, <1>3, <1>a, SlotFree, BarSizes DEF OrderedOK, Ingredients, BarTypes
<1>11. OrdersCounted'
  <2>1. /\ Count(Bartender, {"take_scan", "take_put"}) \in Nat
        /\ Count(Bartender, {"take_scan", "take_put"})' = Count(Bartender, {"take_scan", "take_put"})
        /\ Count(Customer, {"submit_V"}) \in Nat
        /\ Count(Customer, {"submit_V"})' = Count(Customer, {"submit_V"})
              + Ind("submit_put" \in {"submit_V"}) - Ind(pc[c] \in {"submit_V"})
    BY <1>1, <1>2, CustomerCounts
  <2>2. /\ Count(Bartender, {"take_scan", "take_put"})' = Count(Bartender, {"take_scan", "take_put"})
        /\ Count(Customer, {"submit_V"})' = Count(Customer, {"submit_V"})
    BY <1>2, <2>1, <1>3, <1>a, SlotFree DEF Ind
  <2>3. Cardinality(Found(orders, 1))' = Cardinality(Found(orders, 1))
    BY <1>2 DEF Found
  <2> QED BY <1>1, <1>2, <2>1, <2>2, <2>3 DEF OrdersCounted, BarTypes
<1>12. GlassesCounted'
  <2>1. /\ Count(Bartender, {"fill_scan", "fill_put"}) \in Nat
        /\ Count(Bartender, {"fill_scan", "fill_put"})' = Count(Bartender, {"fill_scan", "fill_put"})
        /\ Count(Customer, {"return_V"}) \in Nat
        /\ Count(Customer, {"return_V"})' = Count(Customer, {"return_V"})
              + Ind("submit_put" \in {"return_V"}) - Ind(pc[c] \in {"return_V"})
    BY <1>1, <1>2, CustomerCounts
  <2>2. /\ Count(Bartender, {"fill_scan", "fill_put"})' = Count(Bartender, {"fill_scan", "fill_put"})
        /\ Count(Customer, {"return_V"})' = Count(Customer, {"return_V"})
    BY <1>2, <2>1, <1>3, <1>a, SlotFree DEF Ind
  <2>3. Cardinality(Found(glasses, 0))' = Cardinality(Found(glasses, 0))
    BY <1>2 DEF Found
  <2> QED BY <1>1, <1>2, <2>1, <2>2, <2>3 DEF GlassesCounted, BarTypes
<1>13. ndrinkers' = Cardinality(Drinking)'
  <2>1. Drinking' = Drinking
    BY <1>1, <1>2, <1>3, <1>a, SlotFree, BarSizes DEF Drinking
  <2> QED BY <1>1, <1>2, <2>1
<1> QED BY <1>2, <1>4, <1>5, <1>6, <1>7, <1>8, <1>9, <1>10, <1>11, <1>12, <1>13 DEF BarInv

\* submit_order: the order is filled in.
LEMMA submit_putInv ==
    ASSUME BarInv, NEW c \in Customer, submit_put(c)
    PROVE  BarInv'
<1>1. /\ BarTypes /\ ~fault /\ SlotsOwned /\ OrdersTaken /\ GlassesOwned /\ MineOK /\ GlassesFilled
      /\ OrderedOK /\ OrdersCounted /\ GlassesCounted /\ ndrinkers = Cardinality(Drinking)
  BY DEF BarInv
<1>i. Ingredients(c) \in Triple
  BY BarAssumption DEF Ingredients, Triple, NOTHING
<1>a. PICK s \in Slot : s = slot[c]
  BY <1>1, BarSizes DEF BarTypes
<1>b. PICK r : r = [orders[s] EXCEPT !.ing = Ingredients(c), !.state = 1]
  OBVIOUS
<1>c. r \in OrderRecord /\ r.ing = Ingredients(c) /\ r.glass = orders[s].glass /\ r.state = 1
  <2>1. orders[s] \in OrderRecord
    BY <1>1, <1>a DEF BarTypes
  <2>2. {0, 1} \subseteq 0..1 /\ {0, 1, 2, 3} \subseteq 0..3
    OBVIOUS
  <2> QED BY <1>1, <1>a, <1>b, <2>1, <2>2, <1>i DEF BarTypes, OrderRecord
<1>2. /\ pc[c] = "submit_put" /\ pc' = [pc EXCEPT ![c] = "submit_V"]
      /\ orders' = [orders EXCEPT ![s] = r]
      /\ orderslock' = NONE
      /\ UNCHANGED <<glasses, ndrinkers, emptyglasses, ordersready, ordercomplete,
                     glassarraylock, slot, mine, dummy, poured, fault>>
  BY <1>1, <1>a, <1>c, <1>b DEF submit_put, At, Goto, sems, locks, locals
<1>3. /\ c \in Thread /\ pc'[c] = "submit_V" /\ \A u \in Thread \ {c} : pc'[u] = pc[u]
      /\ orders'[s] = r /\ \A i \in Slot \ {s} : orders'[i] = orders[i]
  BY <1>1, <1>2, <1>a, <1>c, BarSizes DEF BarTypes
<1>x. /\ \A e \in Bartender : pc[e] \in Fills \cup {"take_put"} => slot[e] # s
      /\ \A d \in Customer \ {c} : pc[d] \in HasSlot \cup {"submit_put"} => slot[d] # s
      /\ \A i \in Slot : ordercomplete[i] = 1 => i # s
      /\ orders[s].state = 0 /\ \A e \in Bartender : pc[e] # "take_put"
  BY <1>1, <1>2, <1>3, <1>a, <1>c, BarSizes
  DEF SlotsOwned, OrdersTaken, MineOK, HasSlot, Fills, HasGlass, Given, BarTypes
<1>4. BarTypes'
  <2>1. pc' \in [Thread -> Labels]
    BY <1>1, <1>2, <1>3, <1>a, <1>c, <1>x DEF BarTypes, Labels, HasSlot, Fills
  <2>2. orders' \in [Slot -> OrderRecord] /\ glasses' \in [Glass -> GlassRecord]
    BY <1>1, <1>2, <1>3, <1>a, <1>c, <1>x DEF BarTypes
  <2>3. /\ ndrinkers' \in Nat /\ emptyglasses' \in Nat /\ ordersready' \in Nat
    BY <1>1, <1>2 DEF BarTypes
  <2>4. /\ ordercomplete' \in [Slot -> 0..1] /\ slot' \in [Thread -> Slot]
        /\ mine' \in [Thread -> Glass \cup {NONE}]
        /\ dummy' \in [Customer -> 0..NBartenders] /\ poured' \in [Bartender -> 0..3]
    BY <1>1, <1>2, <1>3, <1>a, <1>c, <1>x DEF BarTypes
  <2> QED BY <2>1, <2>2, <2>3, <2>4 DEF BarTypes
<1>5. SlotsOwned'
  BY <1>1, <1>2, <1>3, <1>a, <1>c, <1>x, BarSizes DEF SlotsOwned, HasSlot, BarTypes
<1>6. OrdersTaken'
  BY <1>1, <1>2, <1>3, <1>a, <1>c, <1>x, BarSizes DEF OrdersTaken, Fills, BarTypes
<1>7. GlassesOwned'
  <2>1. \A i \in Slot : \A h : GlassAt(i, h)' => GlassAt(i, h)
    BY <1>1, <1>2, <1>3, <1>a, <1>c, <1>x, BarSizes DEF GlassAt, HasGlass, Given, BarTypes
  <2> QED BY <1>1, <1>2, <1>3, <1>a, <1>c, <1>x, <2>1 DEF GlassesOwned
<1>8. MineOK'
  BY <1>1, <1>2, <1>3, <1>a, <1>c, <1>x, BarSizes DEF MineOK, HasGlass, Given, BarTypes
<1>9. GlassesFilled'
  <2>1. \A e \in Bartender : pc[e] = "pour_write" => Left(e)' = Left(e)
    BY <1>1, <1>2, <1>3, <1>a, <1>c, <1>x, BarSizes DEF Fills, HasSlot, Left, BarTypes
  <2> QED BY <1>1, <1>2, <1>3, <1>a, <1>c, <1>x, <2>1, BarSizes
          DEF Fills, HasSlot, GlassesFilled, Empty, BarTypes
<1>10. OrderedOK'
  BY <1>1, <1>2, <1>3, <1>a, <1>c, <1>x, BarSizes DEF HasSlot, OrderedOK, Ingredients, BarTypes
<1>11. OrdersCounted'
  <2>1. /\ Count(Bartender, {"take_scan", "take_put"}) \in Nat
        /\ Count(Bartender, {"take_scan", "take_put"})' = Count(Bartender, {"take_scan", "take_put"})
        /\ Count(Customer, {"submit_V"}) \in Nat
        /\ Count(Customer, {"submit_V"})' = Count(Customer, {"submit_V"})
              + Ind("submit_V" \in {"submit_V"}) - Ind(pc[c] \in {"submit_V"})
    BY <1>1, <1>2, CustomerCounts
  <2>2. /\ Count(Bartender, {"take_scan", "take_put"})' = Count(Bartender, {"take_scan", "take_put"})
        /\ Count(Customer, {"submit_V"})' = Count(Customer, {"submit_V"}) + 1
    BY <1>2, <2>1, <1>3, <1>a, <1>c, <1>x DEF Ind
  <2>3. /\ Cardinality(Found(orders, 1)) \in Nat
        /\ Cardinality(Found(orders, 1))' = Cardinality(Found(orders, 1))
              + Ind(orders'[s].state = 1) - Ind(orders[s].state = 1)
    BY <1>1, <1>2, <1>3, <1>a, <1>c, <1>x, <1>4, OrdersStep
  <2> QED BY <1>1, <1>2, <1>3, <1>a, <1>c, <1>x, <2>1, <2>2, <2>3
          DEF OrdersCounted, BarTypes, SlotsOwned, OrdersTaken, MineOK, Ind
<1>12. GlassesCounted'
  <2>1. /\ Count(Bartender, {"fill_scan", "fill_put"}) \in Nat
        /\ Count(Bartender, {"fill_scan", "fill_put"})' = Count(Bartender, {"fill_scan", "fill_put"})
        /\ Count(Customer, {"return_V"}) \in Nat
        /\ Count(Customer, {"return_V"})' = Count(Customer, {"return_V"})
              + Ind("submit_V" \in {"return_V"}) - Ind(pc[c] \in {"return_V"})
    BY <1>1, <1>2, CustomerCounts
  <2>2. /\ Count(Bartender, {"fill_scan", "fill_put"})' = Count(Bartender, {"fill_scan", "fill_put"})
        /\ Count(Customer, {"return_V"})' = Count(Customer, {"return_V"})
    BY <1>2, <2>1, <1>3, <1>a, <1>c, <1>x DEF Ind
  <2>3. Cardinality(Found(glasses, 0))' = Cardinality(Found(glasses, 0))
    BY <1>2 DEF Found
  <2> QED BY <1>1, <1>2, <2>1, <2>2, <2>3 DEF GlassesCounted, BarTypes
<1>13. ndrinkers' = Cardinality(Drinking)'
  <2>1. Drinking' = Drinking
    BY <1>1, <1>2, <1>3, <1>a, <1>c, <1>x, BarSizes DEF Drinking
  <2> QED BY <1>1, <1>2, <2>1
<1> QED BY <1>2, <1>4, <1>5, <1>6, <1>7, <1>8, <1>9, <1>10, <1>11, <1>12, <1>13 DEF BarInv

\* submit_order: V(ordersready).
LEMMA submit_VInv ==
    ASSUME BarInv, NEW c \in Customer, submit_V(c)
    PROVE  BarInv'
<1>1. /\ BarTypes /\ ~fault /\ SlotsOwned /\ OrdersTaken /\ GlassesOwned /\ MineOK /\ GlassesFilled
      /\ OrderedOK /\ OrdersCounted /\ GlassesCounted /\ ndrinkers = Cardinality(Drinking)
  BY DEF BarInv
<1>2. /\ pc[c] = "submit_V" /\ pc' = [pc EXCEPT ![c] = "submit_P"]
      /\ ordersready' = ordersready + 1
      /\ UNCHANGED <<orders, glasses, ndrinkers, emptyglasses, ordercomplete, orderslock,
                     glassarraylock, slot, mine, dummy, poured, fault>>
  BY <1>1 DEF submit_V, At, Goto, sems, locks, locals
<1>3. /\ c \in Thread /\ pc'[c] = "submit_P" /\ \A u \in Thread \ {c} : pc'[u] = pc[u]
  BY <1>1, <1>2, BarSizes DEF BarTypes
<1>4. BarTypes'
  <2>1. pc' \in [Thread -> Labels]
    BY <1>1, <1>2, <1>3 DEF BarTypes, Labels, HasSlot, Fills
  <2>2. orders' \in [Slot -> OrderRecord] /\ glasses' \in [Glass -> GlassRecord]
    BY <1>1, <1>2, <1>3 DEF BarTypes
  <2>3. /\ ndrinkers' \in Nat /\ emptyglasses' \in Nat /\ ordersready' \in Nat
    BY <1>1, <1>2 DEF BarTypes
  <2>4. /\ ordercomplete' \in [Slot -> 0..1] /\ slot' \in [Thread -> Slot]
        /\ mine' \in [Thread -> Glass \cup {NONE}]
        /\ dummy' \in [Customer -> 0..NBartenders] /\ poured' \in [Bartender -> 0..3]
    BY <1>1, <1>2, <1>3 DEF BarTypes
  <2> QED BY <2>1, <2>2, <2>3, <2>4 DEF BarTypes
<1>5. SlotsOwned'
  BY <1>1, <1>2, <1>3, BarSizes DEF SlotsOwned, HasSlot, BarTypes
<1>6. OrdersTaken'
  BY <1>1, <1>2, <1>3, BarSizes DEF OrdersTaken, Fills, BarTypes
<1>7. GlassesOwned'
  <2>1. \A i \in Slot : \A h : GlassAt(i, h)' => GlassAt(i, h)
    BY <1>1, <1>2, <1>3, BarSizes DEF GlassAt, HasGlass, Given, BarTypes
  <2> QED BY <1>1, <1>2, <1>3, <2>1 DEF GlassesOwned
<1>8. MineOK'
  BY <1>1, <1>2, <1>3, BarSizes DEF MineOK, HasGlass, Given, BarTypes
<1>9. GlassesFilled'
  <2>1. \A e \in Bartender : pc[e] = "pour_write" => Left(e)' = Left(e)
    BY <1>1, <1>2, <1>3, BarSizes DEF Left, BarTypes
  <2> QED BY <1>1, <1>2, <1>3, <2>1, BarSizes DEF GlassesFilled, Empty, BarTypes
<1>10. OrderedOK'
  BY <1>1, <1>2, <1>3, BarSizes DEF OrderedOK, Ingredients, BarTypes
<1>11. OrdersCounted'
  <2>1. /\ Count(Bartender, {"take_scan", "take_put"}) \in Nat
        /\ Count(Bartender, {"take_scan", "take_put"})' = Count(Bartender, {"take_scan", "take_put"})
        /\ Count(Customer, {"submit_V"}) \in Nat
        /\ Count(Customer, {"submit_V"})' = Count(Customer, {"submit_V"})
              + Ind("submit_P" \in {"submit_V"}) - Ind(pc[c] \in {"submit_V"})
    BY <1>1, <1>2, CustomerCounts
  <2>2. /\ Count(Bartender, {"take_scan", "take_put"})' = Count(Bartender, {"take_scan", "take_put"})
        /\ Count(Customer, {"submit_V"})' = Count(Customer, {"submit_V"}) - 1
    BY <1>2, <2>1, <1>3 DEF Ind
  <2>3. Cardinality(Found(orders, 1))' = Cardinality(Found(orders, 1))
    BY <1>2 DEF Found
  <2> QED BY <1>1, <1>2, <2>1, <2>2, <2>3 DEF OrdersCounted, BarTypes
<1>12. GlassesCounted'
  <2>1. /\ Count(Bartender, {"fill_scan", "fill_put"}) \in Nat
        /\ Count(Bartender, {"fill_scan", "fill_put"})' = Count(Bartender, {"fill_scan", "fill_put"})
        /\ Count(Customer, {"return_V"}) \in Nat
        /\ Count(Customer, {"return_V"})' = Count(Customer, {"return_V"})
              + Ind("submit_P" \in {"return_V"}) - Ind(pc[c] \in {"return_V"})
    BY <1>1, <1>2, CustomerCounts
  <2>2. /\ Count(Bartender, {"fill_scan", "fill_put"})' = Count(Bartender, {"fill_scan", "fill_put"})
        /\ Count(Customer, {"return_V"})' = Count(Customer, {"return_V"})
    BY <1>2, <2>1, <1>3 DEF Ind
  <2>3. Cardinality(Found(glasses, 0))' = Cardinality(Found(glasses, 0))
    BY <1>2 DEF Found
  <2> QED BY <1>1, <1>2, <2>1, <2>2, <2>3 DEF GlassesCounted, BarTypes
<1>13. ndrinkers' = Cardinality(Drinking)'
  <2>1. Drinking' = Drinking
    BY <1>1, <1>2, <1>3, BarSizes DEF Drinking
  <2> QED BY <1>1, <1>2, <2>1
<1> QED BY <1>2, <1>4, <1>5, <1>6, <1>7, <1>8, <1>9, <1>10, <1>11, <1>12, <1>13 DEF BarInv

\* submit_order: P(ordercomplete), and the glass that the order has.
LEMMA submit_PInv ==
    ASSUME BarInv, NEW c \in Customer, submit_P(c)
    PROVE  BarInv'
<1>1. /\ BarTypes /\ ~fault /\ SlotsOwned /\ OrdersTaken /\ GlassesOwned /\ MineOK /\ GlassesFilled
      /\ OrderedOK /\ OrdersCounted /\ GlassesCounted /\ ndrinkers = Cardinality(Drinking)
  BY DEF BarInv
<1>a. PICK s \in Slot : s = slot[c] /\ ordercomplete[s] = 1
  BY <1>1, BarSizes DEF BarTypes, submit_P
<1>d. PICK g \in Glass : g = orders[s].glass
  BY <1>1, <1>a, Alone DEF BarTypes
<1>e. PICK q : q = [glasses[g] EXCEPT !.ordernumber = s]
  OBVIOUS
<1>f. q \in GlassRecord /\ q.contents = glasses[g].contents /\ q.state = glasses[g].state /\ q.ordernumber = s
  <2>1. glasses[g] \in GlassRecord
    BY <1>1, <1>d DEF BarTypes
  <2>2. {0, 1} \subseteq 0..1 /\ {0, 1, 2, 3} \subseteq 0..3
    OBVIOUS
  <2> QED BY <1>1, <1>d, <1>e, <2>1, <2>2 DEF BarTypes, GlassRecord
<1>2. /\ pc[c] = "submit_P" /\ pc' = [pc EXCEPT ![c] = "given"]
      /\ s = slot[c] /\ ordercomplete[s] = 1 /\ ordercomplete' = [ordercomplete EXCEPT ![s] = 0]
      /\ mine' = [mine EXCEPT ![c] = g]
      /\ glasses' = [glasses EXCEPT ![g] = q]
      /\ UNCHANGED <<orders, ndrinkers, emptyglasses, ordersready, orderslock, glassarraylock,
                     slot, dummy, poured, fault>>
  BY <1>1, <1>a, <1>d, <1>f, BarSizes, <1>e, Alone DEF submit_P, At, Goto, sems, locks, locals
<1>3. /\ c \in Thread /\ pc'[c] = "given" /\ \A u \in Thread \ {c} : pc'[u] = pc[u]
      /\ ordercomplete'[s] = 0 /\ \A i \in Slot \ {s} : ordercomplete'[i] = ordercomplete[i]
      /\ mine'[c] = g /\ \A u \in Thread \ {c} : mine'[u] = mine[u]
      /\ glasses'[g] = q /\ \A i \in Glass \ {g} : glasses'[i] = glasses[i]
  BY <1>1, <1>2, <1>a, <1>d, <1>f, BarSizes DEF BarTypes
<1>x. /\ orders[s].state = 2 /\ \A e \in Bartender : pc[e] \in Fills => slot[e] # s
      /\ \A d \in Customer \ {c} : pc[d] \in HasSlot => slot[d] # s
  BY <1>1, <1>2, <1>3, <1>a, <1>d, <1>f, BarSizes
  DEF SlotsOwned, OrdersTaken, MineOK, HasSlot, Fills, HasGlass, Given, BarTypes
<1>4. BarTypes'
  <2>1. pc' \in [Thread -> Labels]
    BY <1>1, <1>2, <1>3, <1>a, <1>d, <1>f, BarSizes, <1>x DEF BarTypes, Labels, HasSlot, Fills
  <2>2. orders' \in [Slot -> OrderRecord] /\ glasses' \in [Glass -> GlassRecord]
    BY <1>1, <1>2, <1>3, <1>a, <1>d, <1>f, BarSizes, <1>x DEF BarTypes
  <2>3. /\ ndrinkers' \in Nat /\ emptyglasses' \in Nat /\ ordersready' \in Nat
    BY <1>1, <1>2 DEF BarTypes
  <2>4. /\ ordercomplete' \in [Slot -> 0..1] /\ slot' \in [Thread -> Slot]
        /\ mine' \in [Thread -> Glass \cup {NONE}]
        /\ dummy' \in [Customer -> 0..NBartenders] /\ poured' \in [Bartender -> 0..3]
    BY <1>1, <1>2, <1>3, <1>a, <1>d, <1>f, BarSizes, <1>x DEF BarTypes
  <2> QED BY <2>1, <2>2, <2>3, <2>4 DEF BarTypes
<1>5. SlotsOwned'
  BY <1>1, <1>2, <1>3, <1>a, <1>d, <1>f, BarSizes, <1>x DEF SlotsOwned, HasSlot, BarTypes
<1>6. OrdersTaken'
  BY <1>1, <1>2, <1>3, <1>a, <1>d, <1>f, BarSizes, <1>x DEF OrdersTaken, Fills, BarTypes
<1>7. GlassesOwned'
  <2>1. \A i \in Slot : \A h : GlassAt(i, h)' => GlassAt(i, h)
    BY <1>1, <1>2, <1>3, <1>a, <1>d, <1>f, BarSizes, <1>x DEF GlassAt, HasGlass, Given, BarTypes
  <2> QED BY <1>1, <1>2, <1>3, <1>a, <1>d, <1>f, BarSizes, <1>x, Alone, <2>1
          DEF GlassesOwned, BarTypes
<1>8. MineOK'
  BY <1>1, <1>2, <1>3, <1>a, <1>d, <1>f, BarSizes, <1>x, Alone
  DEF MineOK, HasGlass, Given, BarTypes
<1>9. GlassesFilled'
  <2>1. \A e \in Bartender : pc'[e] = pc[e] /\ mine'[e] = mine[e] /\ Left(e)' = Left(e)
    BY <1>1, <1>2, <1>3, <1>a, <1>d, <1>f, BarSizes, <1>x DEF Left
  <2>2. \A h \in Glass : /\ glasses'[h].contents = glasses[h].contents
                         /\ glasses'[h].state = glasses[h].state
    BY <1>3, <1>f
  <2>3. \A h \in Glass : Empty(h)' <=> Empty(h)
    BY <2>2 DEF Empty
  <2>4. \A e \in Bartender : pc[e] \in HasGlass => mine[e] \in Glass
    BY Alone
  <2>5. \A d \in Customer : pc[d] \in Given => mine[d] \in Glass
    BY Alone
  <2>6. \A i \in Slot : ordercomplete[i] = 1 => orders[i].glass \in Glass
    BY Alone
  <2>7. \A h \in Glass : glasses'[h].state = 0 => Empty(h)'
    BY <1>1, <2>2, <2>3 DEF GlassesFilled
  <2>8. \A e \in Bartender :
           /\ pc'[e] \in {"fill_glass", "fill_bottles"} => Empty(mine[e])'
           /\ pc'[e] = "pour" => Poured(glasses'[mine[e]].contents, orders[slot[e]].ing, poured[e])
           /\ pc'[e] = "pour_write" =>
                 /\ Left(e) # {}
                 /\ Poured(glasses'[mine[e]].contents, orders[slot[e]].ing, Min(Left(e)))
           /\ pc'[e] = "serve" => Poured(glasses'[mine[e]].contents, orders[slot[e]].ing, 3)
    <3> TAKE e \in Bartender
    <3>1. pc[e] \in HasGlass => glasses'[mine[e]].contents = glasses[mine[e]].contents
                              /\ (Empty(mine[e])' <=> Empty(mine[e]))
      BY <1>1, <1>2, <2>1, <2>2, <2>4, BarSizes DEF Empty
    <3> QED BY <1>1, <2>1, <3>1 DEF GlassesFilled, HasGlass
  <2>9. \A i \in Slot : ordercomplete'[i] = 1 =>
           Poured(glasses'[orders[i].glass].contents, orders[i].ing, 3)
    BY <1>1, <1>3, <1>a, <2>2, <2>6 DEF GlassesFilled
  <2>10. \A d \in Customer :
            /\ pc'[d] \in {"given", "drink"} =>
                  Poured(glasses'[mine'[d]].contents, orders[slot[d]].ing, 3)
            /\ pc'[d] = "return" => \A p \in 1..3 : glasses'[mine'[d]].contents[p] = NOTHING
    <3> TAKE d \in Customer
    <3>1. CASE d = c
      BY <1>1, <1>3, <1>a, <1>d, <2>2, <3>1 DEF GlassesFilled
    <3>2. CASE d # c
      <4>1. pc'[d] = pc[d] /\ mine'[d] = mine[d]
        BY <1>3, <3>2, BarSizes
      <4>2. pc[d] \in Given => glasses'[mine[d]].contents = glasses[mine[d]].contents
        BY <2>2, <2>5
      <4> QED BY <1>1, <4>1, <4>2 DEF GlassesFilled, Given, Empty
    <3> QED BY <3>1, <3>2
  <2> QED BY <1>2, <2>1, <2>7, <2>8, <2>9, <2>10 DEF GlassesFilled, Empty
<1>10. OrderedOK'
  BY <1>1, <1>2, <1>3, <1>a, <1>d, <1>f, BarSizes, <1>x DEF OrderedOK, Ingredients, BarTypes
<1>11. OrdersCounted'
  <2>1. /\ Count(Bartender, {"take_scan", "take_put"}) \in Nat
        /\ Count(Bartender, {"take_scan", "take_put"})' = Count(Bartender, {"take_scan", "take_put"})
        /\ Count(Customer, {"submit_V"}) \in Nat
        /\ Count(Customer, {"submit_V"})' = Count(Customer, {"submit_V"})
              + Ind("given" \in {"submit_V"}) - Ind(pc[c] \in {"submit_V"})
    BY <1>1, <1>2, CustomerCounts
  <2>2. /\ Count(Bartender, {"take_scan", "take_put"})' = Count(Bartender, {"take_scan", "take_put"})
        /\ Count(Customer, {"submit_V"})' = Count(Customer, {"submit_V"})
    BY <1>2, <2>1, <1>3, <1>a, <1>d, <1>f, BarSizes, <1>x DEF Ind
  <2>3. Cardinality(Found(orders, 1))' = Cardinality(Found(orders, 1))
    BY <1>2 DEF Found
  <2> QED BY <1>1, <1>2, <2>1, <2>2, <2>3 DEF OrdersCounted, BarTypes
<1>12. GlassesCounted'
  <2>1. /\ Count(Bartender, {"fill_scan", "fill_put"}) \in Nat
        /\ Count(Bartender, {"fill_scan", "fill_put"})' = Count(Bartender, {"fill_scan", "fill_put"})
        /\ Count(Customer, {"return_V"}) \in Nat
        /\ Count(Customer, {"return_V"})' = Count(Customer, {"return_V"})
              + Ind("given" \in {"return_V"}) - Ind(pc[c] \in {"return_V"})
    BY <1>1, <1>2, CustomerCounts
  <2>2. /\ Count(Bartender, {"fill_scan", "fill_put"})' = Count(Bartender, {"fill_scan", "fill_put"})
        /\ Count(Customer, {"return_V"})' = Count(Customer, {"return_V"})
    BY <1>2, <2>1, <1>3, <1>a, <1>d, <1>f, BarSizes, <1>x DEF Ind
  <2>3. /\ Cardinality(Found(glasses, 0)) \in Nat
        /\ Cardinality(Found(glasses, 0))' = Cardinality(Found(glasses, 0))
              + Ind(glasses'[g].state = 0) - Ind(glasses[g].state = 0)
    BY <1>1, <1>2, <1>3, <1>a, <1>d, <1>f, BarSizes, <1>x, <1>4, GlassesStep
  <2> QED BY <1>1, <1>2, <1>3, <1>a, <1>d, <1>f, BarSizes, <1>x, <2>1, <2>2, <2>3
          DEF GlassesCounted, BarTypes, SlotsOwned, OrdersTaken, MineOK, Ind
<1>13. ndrinkers' = Cardinality(Drinking)'
  <2>1. Drinking' = Drinking
    BY <1>1, <1>2, <1>3, <1>a, <1>d, <1>f, BarSizes, <1>x DEF Drinking
  <2> QED BY <1>1, <1>2, <2>1
<1> QED BY <1>2, <1>4, <1>5, <1>6, <1>7, <1>8, <1>9, <1>10, <1>11, <1>12, <1>13 DEF BarInv

\* submit_order: the order is given, and the customer drinks, or returns a dummy.
LEMMA submit_givenInv ==
    ASSUME BarInv, NEW c \in Customer, submit_given(c)
    PROVE  BarInv'
<1>1. /\ BarTypes /\ ~fault /\ SlotsOwned /\ OrdersTaken /\ GlassesOwned /\ MineOK /\ GlassesFilled
      /\ OrderedOK /\ OrdersCounted /\ GlassesCounted /\ ndrinkers = Cardinality(Drinking)
  BY DEF BarInv
<1>t. PICK to \in {"drink", "return"} : pc' = [pc EXCEPT ![c] = to] /\ (to = "drink" <=> dummy[c] = 0)
  BY DEF submit_given, Goto
<1>a. PICK s \in Slot : s = slot[c]
  BY <1>1, BarSizes DEF BarTypes
<1>b. PICK r : r = [orders[s] EXCEPT !.state = 3]
  OBVIOUS
<1>c. r \in OrderRecord /\ r.ing = orders[s].ing /\ r.glass = orders[s].glass /\ r.state = 3
  <2>1. orders[s] \in OrderRecord
    BY <1>1, <1>a DEF BarTypes
  <2>2. {0, 1} \subseteq 0..1 /\ {0, 1, 2, 3} \subseteq 0..3
    OBVIOUS
  <2> QED BY <1>1, <1>a, <1>b, <2>1, <2>2 DEF BarTypes, OrderRecord
<1>2. /\ pc[c] = "given" /\ pc' = [pc EXCEPT ![c] = to]
      /\ orders' = [orders EXCEPT ![s] = r]
      /\ UNCHANGED <<glasses, ndrinkers, emptyglasses, ordersready, ordercomplete, orderslock,
                     glassarraylock, slot, mine, dummy, poured, fault>>
  BY <1>1, <1>a, <1>c, <1>t, <1>b DEF submit_given, At, Goto, sems, locks, locals
<1>3. /\ c \in Thread /\ pc'[c] = to /\ \A u \in Thread \ {c} : pc'[u] = pc[u]
      /\ orders'[s] = r /\ \A i \in Slot \ {s} : orders'[i] = orders[i]
  BY <1>1, <1>2, <1>a, <1>c, <1>t, BarSizes DEF BarTypes
<1>x. /\ \A e \in Bartender : pc[e] \in Fills \cup {"take_put"} => slot[e] # s
      /\ \A d \in Customer \ {c} : pc[d] \in HasSlot \cup {"submit_put"} => slot[d] # s
      /\ \A i \in Slot : ordercomplete[i] = 1 => i # s
      /\ orders[s].state = 2
  BY <1>1, <1>2, <1>3, <1>a, <1>c, <1>t, BarSizes
  DEF SlotsOwned, OrdersTaken, MineOK, HasSlot, Fills, HasGlass, Given, BarTypes
<1>y. dummy[c] # 0 => \A p \in 1..3 : glasses[mine[c]].contents[p] = NOTHING
  <2>1. PICK con : con = glasses[mine[c]].contents
    OBVIOUS
  <2>2. PICK ing : ing = orders[slot[c]].ing
    OBVIOUS
  <2>3. con \in Triple /\ ing \in Triple
    BY <1>1, <1>2, <2>1, <2>2, Alone, BarSizes DEF BarTypes, Given, OrderRecord, GlassRecord
  <2>4. Poured(con, ing, 3) /\ ing = Ingredients(c)
    BY <1>1, <1>2, <2>1, <2>2 DEF GlassesFilled, OrderedOK
  <2>5. dummy[c] # 0 => \A p \in 1..3 : ing[p] = NOTHING
    BY <1>1, <2>4 DEF Ingredients, BarTypes
  <2> QED BY <2>1, <2>3, <2>4, <2>5, PourSteps
<1>4. BarTypes'
  <2>1. pc' \in [Thread -> Labels]
    BY <1>1, <1>2, <1>3, <1>a, <1>c, <1>t, <1>x DEF BarTypes, Labels, HasSlot, Fills
  <2>2. orders' \in [Slot -> OrderRecord] /\ glasses' \in [Glass -> GlassRecord]
    BY <1>1, <1>2, <1>3, <1>a, <1>c, <1>t, <1>x DEF BarTypes
  <2>3. /\ ndrinkers' \in Nat /\ emptyglasses' \in Nat /\ ordersready' \in Nat
    BY <1>1, <1>2 DEF BarTypes
  <2>4. /\ ordercomplete' \in [Slot -> 0..1] /\ slot' \in [Thread -> Slot]
        /\ mine' \in [Thread -> Glass \cup {NONE}]
        /\ dummy' \in [Customer -> 0..NBartenders] /\ poured' \in [Bartender -> 0..3]
    BY <1>1, <1>2, <1>3, <1>a, <1>c, <1>t, <1>x DEF BarTypes
  <2> QED BY <2>1, <2>2, <2>3, <2>4 DEF BarTypes
<1>5. SlotsOwned'
  BY <1>1, <1>2, <1>3, <1>a, <1>c, <1>t, <1>x, BarSizes DEF SlotsOwned, HasSlot, BarTypes
<1>6. OrdersTaken'
  BY <1>1, <1>2, <1>3, <1>a, <1>c, <1>t, <1>x, BarSizes DEF OrdersTaken, Fills, BarTypes
<1>7. GlassesOwned'
  <2>1. \A i \in Slot : \A h : GlassAt(i, h)' => GlassAt(i, h)
    BY <1>1, <1>2, <1>3, <1>a, <1>c, <1>t, <1>x, BarSizes DEF GlassAt, HasGlass, Given, BarTypes
  <2> QED BY <1>1, <1>2, <1>3, <1>a, <1>c, <1>t, <1>x, <2>1 DEF GlassesOwned
<1>8. MineOK'
  BY <1>1, <1>2, <1>3, <1>a, <1>c, <1>t, <1>x, BarSizes DEF MineOK, HasGlass, Given, BarTypes
<1>9. GlassesFilled'
  <2>1. \A e \in Bartender : pc[e] = "pour_write" => Left(e)' = Left(e)
    BY <1>1, <1>2, <1>3, <1>a, <1>c, <1>t, <1>x, BarSizes, <1>y DEF Left, BarTypes
  <2> QED BY <1>1, <1>2, <1>3, <1>a, <1>c, <1>t, <1>x, <2>1, BarSizes, <1>y
          DEF GlassesFilled, Empty, BarTypes
<1>10. OrderedOK'
  BY <1>1, <1>2, <1>3, <1>a, <1>c, <1>t, <1>x, BarSizes DEF OrderedOK, Ingredients, BarTypes
<1>11. OrdersCounted'
  <2>1. /\ Count(Bartender, {"take_scan", "take_put"}) \in Nat
        /\ Count(Bartender, {"take_scan", "take_put"})' = Count(Bartender, {"take_scan", "take_put"})
        /\ Count(Customer, {"submit_V"}) \in Nat
        /\ Count(Customer, {"submit_V"})' = Count(Customer, {"submit_V"})
              + Ind(to \in {"submit_V"}) - Ind(pc[c] \in {"submit_V"})
    BY <1>1, <1>2, CustomerCounts
  <2>2. /\ Count(Bartender, {"take_scan", "take_put"})' = Count(Bartender, {"take_scan", "take_put"})
        /\ Count(Customer, {"submit_V"})' = Count(Customer, {"submit_V"})
    BY <1>2, <2>1, <1>3, <1>a, <1>c, <1>t, <1>x DEF Ind
  <2>3. /\ Cardinality(Found(orders, 1)) \in Nat
        /\ Cardinality(Found(orders, 1))' = Cardinality(Found(orders, 1))
              + Ind(orders'[s].state = 1) - Ind(orders[s].state = 1)
    BY <1>1, <1>2, <1>3, <1>a, <1>c, <1>t, <1>x, <1>4, OrdersStep
  <2> QED BY <1>1, <1>2, <1>3, <1>a, <1>c, <1>t, <1>x, <2>1, <2>2, <2>3
          DEF OrdersCounted, BarTypes, SlotsOwned, OrdersTaken, MineOK, Ind
<1>12. GlassesCounted'
  <2>1. /\ Count(Bartender, {"fill_scan", "fill_put"}) \in Nat
        /\ Count(Bartender, {"fill_scan", "fill_put"})' = Count(Bartender, {"fill_scan", "fill_put"})
        /\ Count(Customer, {"return_V"}) \in Nat
        /\ Count(Customer, {"return_V"})' = Count(Customer, {"return_V"})
              + Ind(to \in {"return_V"}) - Ind(pc[c] \in {"return_V"})
    BY <1>1, <1>2, CustomerCounts
  <2>2. /\ Count(Bartender, {"fill_scan", "fill_put"})' = Count(Bartender, {"fill_scan", "fill_put"})
        /\ Count(Customer, {"return_V"})' = Count(Customer, {"return_V"})
    BY <1>2, <2>1, <1>3, <1>a, <1>c, <1>t, <1>x DEF Ind
  <2>3. Cardinality(Found(glasses, 0))' = Cardinality(Found(glasses, 0))
    BY <1>2 DEF Found
  <2> QED BY <1>1, <1>2, <2>1, <2>2, <2>3 DEF GlassesCounted, BarTypes
<1>13. ndrinkers' = Cardinality(Drinking)'
  <2>1. Drinking' = Drinking
    BY <1>1, <1>2, <1>3, <1>a, <1>c, <1>t, <1>x, BarSizes DEF Drinking
  <2> QED BY <1>1, <1>2, <2>1
<1> QED BY <1>2, <1>4, <1>5, <1>6, <1>7, <1>8, <1>9, <1>10, <1>11, <1>12, <1>13 DEF BarInv

\* customer: bottoms up.
LEMMA drinkInv ==
    ASSUME BarInv, NEW c \in Customer, drink(c)
    PROVE  BarInv'
<1>1. /\ BarTypes /\ ~fault /\ SlotsOwned /\ OrdersTaken /\ GlassesOwned /\ MineOK /\ GlassesFilled
      /\ OrderedOK /\ OrdersCounted /\ GlassesCounted /\ ndrinkers = Cardinality(Drinking)
  BY DEF BarInv
<1>h. PICK z : z = <<0, 0, 0>>
  OBVIOUS
<1>i. z \in Triple /\ \A p \in 1..3 : z[p] = NOTHING
  <2>1. 0 \in 0..(NBottles - 1)
    BY BarAssumption
  <2>2. z \in [1..3 -> {0}]
    BY <1>h
  <2> QED BY <2>1, <2>2 DEF Triple, NOTHING
<1>d. PICK g \in Glass : g = mine[c]
  BY <1>1, Alone DEF drink, At, Given
<1>e. PICK q : q = [glasses[g] EXCEPT !.contents = z]
  OBVIOUS
<1>f. q \in GlassRecord /\ q.contents = z /\ q.state = glasses[g].state /\ q.ordernumber = glasses[g].ordernumber
  <2>1. glasses[g] \in GlassRecord
    BY <1>1, <1>d DEF BarTypes
  <2>2. {0, 1} \subseteq 0..1 /\ {0, 1, 2, 3} \subseteq 0..3
    OBVIOUS
  <2> QED BY <1>1, <1>d, <1>e, <2>1, <2>2, <1>i DEF BarTypes, GlassRecord
<1>2. /\ pc[c] = "drink" /\ pc' = [pc EXCEPT ![c] = "return"]
      /\ glasses' = [glasses EXCEPT ![g] = q]
      /\ UNCHANGED <<orders, ndrinkers, emptyglasses, ordersready, ordercomplete, orderslock,
                     glassarraylock, slot, mine, dummy, poured, fault>>
  BY <1>1, <1>d, <1>f, <1>i, <1>e, <1>h DEF drink, At, Goto, sems, locks, locals
<1>3. /\ c \in Thread /\ pc'[c] = "return" /\ \A u \in Thread \ {c} : pc'[u] = pc[u]
      /\ glasses'[g] = q /\ \A i \in Glass \ {g} : glasses'[i] = glasses[i]
  BY <1>1, <1>2, <1>d, <1>f, <1>i, BarSizes DEF BarTypes
<1>x. glasses[g].state = 1
  BY <1>1, <1>2, <1>d, Alone DEF Given
<1>4. BarTypes'
  <2>1. pc' \in [Thread -> Labels]
    BY <1>1, <1>2, <1>3, <1>d, <1>f, <1>i, <1>x DEF BarTypes, Labels, HasSlot, Fills
  <2>2. orders' \in [Slot -> OrderRecord] /\ glasses' \in [Glass -> GlassRecord]
    BY <1>1, <1>2, <1>3, <1>d, <1>f, <1>i, <1>x DEF BarTypes
  <2>3. /\ ndrinkers' \in Nat /\ emptyglasses' \in Nat /\ ordersready' \in Nat
    BY <1>1, <1>2 DEF BarTypes
  <2>4. /\ ordercomplete' \in [Slot -> 0..1] /\ slot' \in [Thread -> Slot]
        /\ mine' \in [Thread -> Glass \cup {NONE}]
        /\ dummy' \in [Customer -> 0..NBartenders] /\ poured' \in [Bartender -> 0..3]
    BY <1>1, <1>2, <1>3, <1>d, <1>f, <1>i, <1>x DEF BarTypes
  <2> QED BY <2>1, <2>2, <2>3, <2>4 DEF BarTypes
<1>5. SlotsOwned'
  BY <1>1, <1>2, <1>3, <1>d, <1>f, <1>i, <1>x, BarSizes DEF SlotsOwned, HasSlot, BarTypes
<1>6. OrdersTaken'
  BY <1>1, <1>2, <1>3, <1>d, <1>f, <1>i, <1>x, BarSizes DEF OrdersTaken, Fills, BarTypes
<1>7. GlassesOwned'
  <2>1. \A i \in Slot : \A h : GlassAt(i, h)' => GlassAt(i, h)
    BY <1>1, <1>2, <1>3, <1>d, <1>f, <1>i, <1>x, BarSizes DEF GlassAt, HasGlass, Given, BarTypes
  <2> QED BY <1>1, <1>2, <1>3, <1>d, <1>f, <1>i, <1>x, Alone, <2>1 DEF GlassesOwned, BarTypes
<1>8. MineOK'
  BY <1>1, <1>2, <1>3, <1>d, <1>f, <1>i, <1>x, Alone, BarSizes
  DEF MineOK, HasGlass, Given, BarTypes
<1>9. GlassesFilled'
  <2>1. \A e \in Bartender : pc[e] = "pour_write" => Left(e)' = Left(e)
    BY <1>1, <1>2, <1>3, <1>d, <1>f, <1>i, <1>x, BarSizes DEF Left, BarTypes
  <2> QED BY <1>1, <1>2, <1>3, <1>d, <1>f, <1>i, <1>x, Alone, <2>1, BarSizes
          DEF GlassesFilled, Empty, BarTypes, HasGlass, Given
<1>10. OrderedOK'
  BY <1>1, <1>2, <1>3, <1>d, <1>f, <1>i, <1>x, BarSizes DEF OrderedOK, Ingredients, BarTypes
<1>11. OrdersCounted'
  <2>1. /\ Count(Bartender, {"take_scan", "take_put"}) \in Nat
        /\ Count(Bartender, {"take_scan", "take_put"})' = Count(Bartender, {"take_scan", "take_put"})
        /\ Count(Customer, {"submit_V"}) \in Nat
        /\ Count(Customer, {"submit_V"})' = Count(Customer, {"submit_V"})
              + Ind("return" \in {"submit_V"}) - Ind(pc[c] \in {"submit_V"})
    BY <1>1, <1>2, CustomerCounts
  <2>2. /\ Count(Bartender, {"take_scan", "take_put"})' = Count(Bartender, {"take_scan", "take_put"})
        /\ Count(Customer, {"submit_V"})' = Count(Customer, {"submit_V"})
    BY <1>2, <2>1, <1>3, <1>d, <1>f, <1>i, <1>x DEF Ind
  <2>3. Cardinality(Found(orders, 1))' = Cardinality(Found(orders, 1))
    BY <1>2 DEF Found
  <2> QED BY <1>1, <1>2, <2>1, <2>2, <2>3 DEF OrdersCounted, BarTypes
<1>12. GlassesCounted'
  <2>1. /\ Count(Bartender, {"fill_scan", "fill_put"}) \in Nat
        /\ Count(Bartender, {"fill_scan", "fill_put"})' = Count(Bartender, {"fill_scan", "fill_put"})
        /\ Count(Customer, {"return_V"}) \in Nat
        /\ Count(Customer, {"return_V"})' = Count(Customer, {"return_V"})
              + Ind("return" \in {"return_V"}) - Ind(pc[c] \in {"return_V"})
    BY <1>1, <1>2, CustomerCounts
  <2>2. /\ Count(Bartender, {"fill_scan", "fill_put"})' = Count(Bartender, {"fill_scan", "fill_put"})
        /\ Count(Customer, {"return_V"})' = Count(Customer, {"return_V"})
    BY <1>2, <2>1, <1>3, <1>d, <1>f, <1>i, <1>x DEF Ind
  <2>3. /\ Cardinality(Found(glasses, 0)) \in Nat
        /\ Cardinality(Found(glasses, 0))' = Cardinality(Found(glasses, 0))
              + Ind(glasses'[g].state = 0) - Ind(glasses[g].state = 0)
    BY <1>1, <1>2, <1>3, <1>d, <1>f, <1>i, <1>x, <1>4, GlassesStep
  <2> QED BY <1>1, <1>2, <1>3, <1>d, <1>f, <1>i, <1>x, <2>1, <2>2, <2>3
          DEF GlassesCounted, BarTypes, SlotsOwned, OrdersTaken, MineOK, Ind
<1>13. ndrinkers' = Cardinality(Drinking)'
  <2>1. Drinking' = Drinking
    BY <1>1, <1>2, <1>3, <1>d, <1>f, <1>i, <1>x, BarSizes DEF Drinking
  <2> QED BY <1>1, <1>2, <2>1
<1> QED BY <1>2, <1>4, <1>5, <1>6, <1>7, <1>8, <1>9, <1>10, <1>11, <1>12, <1>13 DEF BarInv

\* return_glass: the glass is empty; the order number it has is the customer's.
LEMMA return_glassInv ==
    ASSUME BarInv, NEW c \in Customer, return_glass(c)
    PROVE  BarInv'
<1>1. /\ BarTypes /\ ~fault /\ SlotsOwned /\ OrdersTaken /\ GlassesOwned /\ MineOK /\ GlassesFilled
      /\ OrderedOK /\ OrdersCounted /\ GlassesCounted /\ ndrinkers = Cardinality(Drinking)
  BY DEF BarInv
<1>d. PICK g \in Glass : g = mine[c]
  BY <1>1, Alone DEF return_glass, At, Given
<1>e. PICK q : q = [glasses[g] EXCEPT !.state = 0]
  OBVIOUS
<1>f. q \in GlassRecord /\ q.contents = glasses[g].contents /\ q.state = 0 /\ q.ordernumber = glasses[g].ordernumber
  <2>1. glasses[g] \in GlassRecord
    BY <1>1, <1>d DEF BarTypes
  <2>2. {0, 1} \subseteq 0..1 /\ {0, 1, 2, 3} \subseteq 0..3
    OBVIOUS
  <2> QED BY <1>1, <1>d, <1>e, <2>1, <2>2 DEF BarTypes, GlassRecord
<1>g. glasses[mine[c]].ordernumber = slot[c]
  BY <1>1 DEF return_glass, At, Given, MineOK
<1>2. /\ pc[c] = "return" /\ pc' = [pc EXCEPT ![c] = "return_V"]
      /\ glasses' = [glasses EXCEPT ![g] = q]
      /\ slot' = [slot EXCEPT ![c] = slot[c]]
      /\ UNCHANGED <<orders, ndrinkers, emptyglasses, ordersready, ordercomplete, orderslock,
                     glassarraylock, mine, dummy, poured, fault>>
  BY <1>1, <1>d, <1>f, <1>g, <1>e DEF return_glass, At, Goto, sems, locks, locals
<1>3. /\ c \in Thread /\ pc'[c] = "return_V" /\ \A u \in Thread \ {c} : pc'[u] = pc[u]
      /\ glasses'[g] = q /\ \A i \in Glass \ {g} : glasses'[i] = glasses[i]
      /\ slot' = slot
  BY <1>1, <1>2, <1>d, <1>f, <1>g, BarSizes DEF BarTypes
<1>x. /\ glasses[g].state = 1 /\ GlassAt(slot[c], g) /\ ordercomplete[slot[c]] # 1
      /\ \A e \in Bartender : pc[e] \in HasGlass => slot[e] # slot[c]
      /\ \A d \in Customer \ {c} : pc[d] \in Given => slot[d] # slot[c]
  <2>1. glasses[g].state = 1
    BY <1>1, <1>2, <1>d, Alone DEF Given
  <2>2. GlassAt(slot[c], g)
    BY <1>2, <1>d DEF GlassAt, Given
  <2>3. slot[c] \in Slot /\ orders[slot[c]].state = 3
    BY <1>1, <1>2, BarSizes DEF SlotsOwned, BarTypes
  <2>4. ordercomplete[slot[c]] # 1
    BY <1>1, <2>3 DEF OrdersTaken
  <2>5. \A e \in Bartender : pc[e] \in HasGlass => slot[e] # slot[c]
    BY <1>1, <2>3 DEF OrdersTaken, Fills, HasGlass
  <2>6. \A d \in Customer \ {c} : pc[d] \in Given => slot[d] # slot[c]
    BY <1>1, <1>2 DEF SlotsOwned, HasSlot, Given
  <2> QED BY <2>1, <2>2, <2>4, <2>5, <2>6
<1>4. BarTypes'
  <2>1. pc' \in [Thread -> Labels]
    BY <1>1, <1>2, <1>3, <1>d, <1>f, <1>g, <1>x DEF BarTypes, Labels, HasSlot, Fills
  <2>2. orders' \in [Slot -> OrderRecord] /\ glasses' \in [Glass -> GlassRecord]
    BY <1>1, <1>2, <1>3, <1>d, <1>f, <1>g, <1>x DEF BarTypes
  <2>3. /\ ndrinkers' \in Nat /\ emptyglasses' \in Nat /\ ordersready' \in Nat
    BY <1>1, <1>2 DEF BarTypes
  <2>4. /\ ordercomplete' \in [Slot -> 0..1] /\ slot' \in [Thread -> Slot]
        /\ mine' \in [Thread -> Glass \cup {NONE}]
        /\ dummy' \in [Customer -> 0..NBartenders] /\ poured' \in [Bartender -> 0..3]
    BY <1>1, <1>2, <1>3, <1>d, <1>f, <1>g, <1>x DEF BarTypes
  <2> QED BY <2>1, <2>2, <2>3, <2>4 DEF BarTypes
<1>5. SlotsOwned'
  BY <1>1, <1>2, <1>3, <1>d, <1>f, <1>g, <1>x, BarSizes DEF SlotsOwned, HasSlot, BarTypes
<1>6. OrdersTaken'
  BY <1>1, <1>2, <1>3, <1>d, <1>f, <1>g, <1>x, BarSizes DEF OrdersTaken, Fills, BarTypes
<1>7. GlassesOwned'
  <2>1. \A i \in Slot : \A h : GlassAt(i, h)' => GlassAt(i, h) /\ i # slot[c]
    BY <1>1, <1>2, <1>3, <1>d, <1>f, <1>g, <1>x, BarSizes DEF GlassAt, HasGlass, Given, BarTypes
  <2>2. slot[c] \in Slot
    BY <1>1, BarSizes DEF BarTypes
  <2>3. \A i \in Slot, h \in Glass : GlassAt(i, h)' => h # g
    BY <1>1, <1>d, <1>x, <2>1, <2>2 DEF GlassesOwned
  <2> QED BY <1>1, <1>3, <2>1, <2>3 DEF GlassesOwned
<1>8. MineOK'
  BY <1>1, <1>2, <1>3, <1>d, <1>f, <1>g, <1>x, Alone, BarSizes
  DEF MineOK, HasGlass, Given, BarTypes
<1>9. GlassesFilled'
  <2>1. \A e \in Bartender : pc[e] = "pour_write" => Left(e)' = Left(e)
    BY <1>1, <1>2, <1>3, <1>d, <1>f, <1>g, <1>x, BarSizes DEF Left, BarTypes
  <2> QED BY <1>1, <1>2, <1>3, <1>d, <1>f, <1>g, <1>x, Alone, <2>1, BarSizes
          DEF GlassesFilled, Empty, BarTypes, HasGlass, Given
<1>10. OrderedOK'
  BY <1>1, <1>2, <1>3, <1>d, <1>f, <1>g, <1>x, BarSizes DEF OrderedOK, Ingredients, BarTypes
<1>11. OrdersCounted'
  <2>1. /\ Count(Bartender, {"take_scan", "take_put"}) \in Nat
        /\ Count(Bartender, {"take_scan", "take_put"})' = Count(Bartender, {"take_scan", "take_put"})
        /\ Count(Customer, {"submit_V"}) \in Nat
        /\ Count(Customer, {"submit_V"})' = Count(Customer, {"submit_V"})
              + Ind("return_V" \in {"submit_V"}) - Ind(pc[c] \in {"submit_V"})
    BY <1>1, <1>2, CustomerCounts
  <2>2. /\ Count(Bartender, {"take_scan", "take_put"})' = Count(Bartender, {"take_scan", "take_put"})
        /\ Count(Customer, {"submit_V"})' = Count(Customer, {"submit_V"})
    BY <1>2, <2>1, <1>3, <1>d, <1>f, <1>g, <1>x DEF Ind
  <2>3. Cardinality(Found(orders, 1))' = Cardinality(Found(orders, 1))
    BY <1>2 DEF Found
  <2> QED BY <1>1, <1>2, <2>1, <2>2, <2>3 DEF OrdersCounted, BarTypes
<1>12. GlassesCounted'
  <2>1. /\ Count(Bartender, {"fill_scan", "fill_put"}) \in Nat
        /\ Count(Bartender, {"fill_scan", "fill_put"})' = Count(Bartender, {"fill_scan", "fill_put"})
        /\ Count(Customer, {"return_V"}) \in Nat
        /\ Count(Customer, {"return_V"})' = Count(Customer, {"return_V"})
              + Ind("return_V" \in {"return_V"}) - Ind(pc[c] \in {"return_V"})
    BY <1>1, <1>2, CustomerCounts
  <2>2. /\ Count(Bartender, {"fill_scan", "fill_put"})' = Count(Bartender, {"fill_scan", "fill_put"})
        /\ Count(Customer, {"return_V"})' = Count(Customer, {"return_V"}) + 1
    BY <1>2, <2>1, <1>3, <1>d, <1>f, <1>g, <1>x DEF Ind
  <2>3. /\ Cardinality(Found(glasses, 0)) \in Nat
        /\ Cardinality(Found(glasses, 0))' = Cardinality(Found(glasses, 0))
              + Ind(glasses'[g].state = 0) - Ind(glasses[g].state = 0)
    BY <1>1, <1>2, <1>3, <1>d, <1>f, <1>g, <1>x, <1>4, GlassesStep
  <2> QED BY <1>1, <1>2, <1>3, <1>d, <1>f, <1>g, <1>x, <2>1, <2>2, <2>3
          DEF GlassesCounted, BarTypes, SlotsOwned, OrdersTaken, MineOK, Ind
<1>13. ndrinkers' = Cardinality(Drinking)'
  <2>1. Drinking' = Drinking
    BY <1>1, <1>2, <1>3, <1>d, <1>f, <1>g, <1>x, BarSizes DEF Drinking
  <2> QED BY <1>1, <1>2, <2>1
<1> QED BY <1>2, <1>4, <1>5, <1>6, <1>7, <1>8, <1>9, <1>10, <1>11, <1>12, <1>13 DEF BarInv

\* return_glass: V(emptyglasses).
LEMMA return_VInv ==
    ASSUME BarInv, NEW c \in Customer, return_V(c)
    PROVE  BarInv'
<1>1. /\ BarTypes /\ ~fault /\ SlotsOwned /\ OrdersTaken /\ GlassesOwned /\ MineOK /\ GlassesFilled
      /\ OrderedOK /\ OrdersCounted /\ GlassesCounted /\ ndrinkers = Cardinality(Drinking)
  BY DEF BarInv
<1>2. /\ pc[c] = "return_V" /\ pc' = [pc EXCEPT ![c] = "return_slot"]
      /\ emptyglasses' = emptyglasses + 1
      /\ UNCHANGED <<orders, glasses, ndrinkers, ordersready, ordercomplete, orderslock,
                     glassarraylock, slot, mine, dummy, poured, fault>>
  BY <1>1 DEF return_V, At, Goto, sems, locks, locals
<1>3. /\ c \in Thread /\ pc'[c] = "return_slot" /\ \A u \in Thread \ {c} : pc'[u] = pc[u]
  BY <1>1, <1>2, BarSizes DEF BarTypes
<1>4. BarTypes'
  <2>1. pc' \in [Thread -> Labels]
    BY <1>1, <1>2, <1>3 DEF BarTypes, Labels, HasSlot, Fills
  <2>2. orders' \in [Slot -> OrderRecord] /\ glasses' \in [Glass -> GlassRecord]
    BY <1>1, <1>2, <1>3 DEF BarTypes
  <2>3. /\ ndrinkers' \in Nat /\ emptyglasses' \in Nat /\ ordersready' \in Nat
    BY <1>1, <1>2 DEF BarTypes
  <2>4. /\ ordercomplete' \in [Slot -> 0..1] /\ slot' \in [Thread -> Slot]
        /\ mine' \in [Thread -> Glass \cup {NONE}]
        /\ dummy' \in [Customer -> 0..NBartenders] /\ poured' \in [Bartender -> 0..3]
    BY <1>1, <1>2, <1>3 DEF BarTypes
  <2> QED BY <2>1, <2>2, <2>3, <2>4 DEF BarTypes
<1>5. SlotsOwned'
  BY <1>1, <1>2, <1>3, BarSizes DEF SlotsOwned, HasSlot, BarTypes
<1>6. OrdersTaken'
  BY <1>1, <1>2, <1>3, BarSizes DEF OrdersTaken, Fills, BarTypes
<1>7. GlassesOwned'
  <2>1. \A i \in Slot : \A h : GlassAt(i, h)' => GlassAt(i, h)
    BY <1>1, <1>2, <1>3, BarSizes DEF GlassAt, HasGlass, Given, BarTypes
  <2> QED BY <1>1, <1>2, <1>3, <2>1 DEF GlassesOwned
<1>8. MineOK'
  BY <1>1, <1>2, <1>3, BarSizes DEF MineOK, HasGlass, Given, BarTypes
<1>9. GlassesFilled'
  <2>1. \A e \in Bartender : pc[e] = "pour_write" => Left(e)' = Left(e)
    BY <1>1, <1>2, <1>3, BarSizes DEF Left, BarTypes
  <2> QED BY <1>1, <1>2, <1>3, <2>1, BarSizes DEF GlassesFilled, Empty, BarTypes
<1>10. OrderedOK'
  BY <1>1, <1>2, <1>3, BarSizes DEF OrderedOK, Ingredients, BarTypes
<1>11. OrdersCounted'
  <2>1. /\ Count(Bartender, {"take_scan", "take_put"}) \in Nat
        /\ Count(Bartender, {"take_scan", "take_put"})' = Count(Bartender, {"take_scan", "take_put"})
        /\ Count(Customer, {"submit_V"}) \in Nat
        /\ Count(Customer, {"submit_V"})' = Count(Customer, {"submit_V"})
              + Ind("return_slot" \in {"submit_V"}) - Ind(pc[c] \in {"submit_V"})
    BY <1>1, <1>2, CustomerCounts
  <2>2. /\ Count(Bartender, {"take_scan", "take_put"})' = Count(Bartender, {"take_scan", "take_put"})
        /\ Count(Customer, {"submit_V"})' = Count(Customer, {"submit_V"})
    BY <1>2, <2>1, <1>3 DEF Ind
  <2>3. Cardinality(Found(orders, 1))' = Cardinality(Found(orders, 1))
    BY <1>2 DEF Found
  <2> QED BY <1>1, <1>2, <2>1, <2>2, <2>3 DEF OrdersCounted, BarTypes
<1>12. GlassesCounted'
  <2>1. /\ Count(Bartender, {"fill_scan", "fill_put"}) \in Nat
        /\ Count(Bartender, {"fill_scan", "fill_put"})' = Count(Bartender, {"fill_scan", "fill_put"})
        /\ Count(Customer, {"return_V"}) \in Nat
        /\ Count(Customer, {"return_V"})' = Count(Customer, {"return_V"})
              + Ind("return_slot" \in {"return_V"}) - Ind(pc[c] \in {"return_V"})
    BY <1>1, <1>2, CustomerCounts
  <2>2. /\ Count(Bartender, {"fill_scan", "fill_put"})' = Count(Bartender, {"fill_scan", "fill_put"})
        /\ Count(Customer, {"return_V"})' = Count(Customer, {"return_V"}) - 1
    BY <1>2, <2>1, <1>3 DEF Ind
  <2>3. Cardinality(Found(glasses, 0))' = Cardinality(Found(glasses, 0))
    BY <1>2 DEF Found
  <2> QED BY <1>1, <1>2, <2>1, <2>2, <2>3 DEF GlassesCounted, BarTypes
<1>13. ndrinkers' = Cardinality(Drinking)'
  <2>1. Drinking' = Drinking
    BY <1>1, <1>2, <1>3, BarSizes DEF Drinking
  <2> QED BY <1>1, <1>2, <2>1
<1> QED BY <1>2, <1>4, <1>5, <1>6, <1>7, <1>8, <1>9, <1>10, <1>11, <1>12, <1>13 DEF BarInv

\* return_glass: the slot is free again; the next drink, the way home, or the next dummy.
LEMMA return_slotInv ==
    ASSUME BarInv, NEW c \in Customer, return_slot(c)
    PROVE  BarInv'
<1>1. /\ BarTypes /\ ~fault /\ SlotsOwned /\ OrdersTaken /\ GlassesOwned /\ MineOK /\ GlassesFilled
      /\ OrderedOK /\ OrdersCounted /\ GlassesCounted /\ ndrinkers = Cardinality(Drinking)
  BY DEF BarInv
<1>t. PICK to \in {"submit", "crawl_home", "home"}, n \in 0..NBartenders :
         /\ pc' = [pc EXCEPT ![c] = to] /\ dummy' = [dummy EXCEPT ![c] = n]
         /\ dummy[c] = 0 <=> (n = 0 /\ to # "home")
         /\ to = "crawl_home" => n = 0
  <2>1. dummy[c] \in 0..NBartenders /\ NBartenders \in Nat \ {0} /\ [dummy EXCEPT ![c] = dummy[c]] = dummy
    BY <1>1, BarSizes DEF BarTypes
  <2>2. CASE dummy[c] = 0 /\ dummy' = dummy
             /\ pc' = [pc EXCEPT ![c] = IF round[c] + 1 < Rounds THEN "submit" ELSE "crawl_home"]
    BY <2>1, <2>2
  <2>3. CASE dummy[c] \in 1..(NBartenders - 1) /\ dummy' = [dummy EXCEPT ![c] = dummy[c] + 1]
             /\ pc' = [pc EXCEPT ![c] = "submit"]
    <3>1. PICK n : n = dummy[c] + 1
      OBVIOUS
    <3>2. n \in 0..NBartenders /\ n # 0 /\ dummy[c] # 0
      BY <2>1, <2>3, <3>1
    <3> QED BY <2>3, <3>1, <3>2
  <2>4. CASE dummy[c] = NBartenders /\ dummy' = [dummy EXCEPT ![c] = 0]
             /\ pc' = [pc EXCEPT ![c] = "home"]
    <3>1. PICK n : n = 0
      OBVIOUS
    <3>2. PICK to : to = "home"
      OBVIOUS
    <3>3. n \in 0..NBartenders /\ dummy[c] # 0
      BY <2>1, <2>4, <3>1
    <3>4. to \in {"submit", "crawl_home", "home"} /\ to # "crawl_home"
      BY <3>2
    <3>5. pc' = [pc EXCEPT ![c] = to] /\ dummy' = [dummy EXCEPT ![c] = n]
      BY <2>4, <3>1, <3>2
    <3> QED BY <3>2, <3>3, <3>4, <3>5
  <2>5. \/ /\ dummy[c] = 0 /\ dummy' = dummy
            /\ pc' = [pc EXCEPT ![c] = IF round[c] + 1 < Rounds THEN "submit" ELSE "crawl_home"]
        \/ /\ dummy[c] \in 1..(NBartenders - 1) /\ dummy' = [dummy EXCEPT ![c] = dummy[c] + 1]
            /\ pc' = [pc EXCEPT ![c] = "submit"]
        \/ /\ dummy[c] = NBartenders /\ dummy' = [dummy EXCEPT ![c] = 0]
            /\ pc' = [pc EXCEPT ![c] = "home"]
    BY DEF return_slot, Goto
  <2> QED BY <2>2, <2>3, <2>4, <2>5
<1>a. PICK s \in Slot : s = slot[c]
  BY <1>1, BarSizes DEF BarTypes
<1>b. PICK r : r = [orders[s] EXCEPT !.state = 0]
  OBVIOUS
<1>c. r \in OrderRecord /\ r.ing = orders[s].ing /\ r.glass = orders[s].glass /\ r.state = 0
  <2>1. orders[s] \in OrderRecord
    BY <1>1, <1>a DEF BarTypes
  <2>2. {0, 1} \subseteq 0..1 /\ {0, 1, 2, 3} \subseteq 0..3
    OBVIOUS
  <2> QED BY <1>1, <1>a, <1>b, <2>1, <2>2 DEF BarTypes, OrderRecord
<1>2. /\ pc[c] = "return_slot" /\ pc' = [pc EXCEPT ![c] = to]
      /\ orders' = [orders EXCEPT ![s] = r]
      /\ mine' = [mine EXCEPT ![c] = NONE]
      /\ dummy' = [dummy EXCEPT ![c] = n]
      /\ UNCHANGED <<glasses, ndrinkers, emptyglasses, ordersready, ordercomplete, orderslock,
                     glassarraylock, slot, poured, fault>>
  BY <1>1, <1>a, <1>c, <1>t, BarSizes, <1>b DEF return_slot, At, Goto, sems, locks, locals
<1>3. /\ c \in Thread /\ pc'[c] = to /\ \A u \in Thread \ {c} : pc'[u] = pc[u]
      /\ orders'[s] = r /\ \A i \in Slot \ {s} : orders'[i] = orders[i]
      /\ mine'[c] = NONE /\ \A u \in Thread \ {c} : mine'[u] = mine[u]
      /\ dummy'[c] = n /\ \A d \in Customer \ {c} : dummy'[d] = dummy[d]
  BY <1>1, <1>2, <1>a, <1>c, <1>t, BarSizes DEF BarTypes
<1>x. /\ \A e \in Bartender : pc[e] \in Fills \cup {"take_put"} => slot[e] # s
      /\ \A d \in Customer \ {c} : pc[d] \in HasSlot \cup {"submit_put"} => slot[d] # s
      /\ \A i \in Slot : ordercomplete[i] = 1 => i # s
      /\ orders[s].state = 3
  BY <1>1, <1>2, <1>3, <1>a, <1>c, <1>t, BarSizes
  DEF SlotsOwned, OrdersTaken, MineOK, HasSlot, Fills, HasGlass, Given, BarTypes
<1>4. BarTypes'
  <2>1. pc' \in [Thread -> Labels]
    BY <1>1, <1>2, <1>3, <1>a, <1>c, <1>t, BarSizes, <1>x DEF BarTypes, Labels, HasSlot, Fills
  <2>2. orders' \in [Slot -> OrderRecord] /\ glasses' \in [Glass -> GlassRecord]
    BY <1>1, <1>2, <1>3, <1>a, <1>c, <1>t, BarSizes, <1>x DEF BarTypes
  <2>3. /\ ndrinkers' \in Nat /\ emptyglasses' \in Nat /\ ordersready' \in Nat
    BY <1>1, <1>2 DEF BarTypes
  <2>4. /\ ordercomplete' \in [Slot -> 0..1] /\ slot' \in [Thread -> Slot]
        /\ mine' \in [Thread -> Glass \cup {NONE}]
        /\ dummy' \in [Customer -> 0..NBartenders] /\ poured' \in [Bartender -> 0..3]
    BY <1>1, <1>2, <1>3, <1>a, <1>c, <1>t, BarSizes, <1>x DEF BarTypes
  <2> QED BY <2>1, <2>2, <2>3, <2>4 DEF BarTypes
<1>5. SlotsOwned'
  BY <1>1, <1>2, <1>3, <1>a, <1>c, <1>t, BarSizes, <1>x DEF SlotsOwned, HasSlot, BarTypes
<1>6. OrdersTaken'
  BY <1>1, <1>2, <1>3, <1>a, <1>c, <1>t, BarSizes, <1>x DEF OrdersTaken, Fills, BarTypes
<1>7. GlassesOwned'
  <2>1. \A i \in Slot : \A h : GlassAt(i, h)' => GlassAt(i, h)
    BY <1>1, <1>2, <1>3, <1>a, <1>c, <1>t, BarSizes, <1>x DEF GlassAt, HasGlass, Given, BarTypes
  <2> QED BY <1>1, <1>2, <1>3, <1>a, <1>c, <1>t, BarSizes, <1>x, <2>1 DEF GlassesOwned
<1>8. MineOK'
  BY <1>1, <1>2, <1>3, <1>a, <1>c, <1>t, BarSizes, <1>x DEF MineOK, HasGlass, Given, BarTypes
<1>9. GlassesFilled'
  <2>1. \A e \in Bartender : pc[e] = "pour_write" => Left(e)' = Left(e)
    BY <1>1, <1>2, <1>3, <1>a, <1>c, <1>t, BarSizes, <1>x DEF Left, BarTypes
  <2> QED BY <1>1, <1>2, <1>3, <1>a, <1>c, <1>t, BarSizes, <1>x, <2>1
          DEF GlassesFilled, Empty, BarTypes
<1>10. OrderedOK'
  BY <1>1, <1>2, <1>3, <1>a, <1>c, <1>t, BarSizes, <1>x DEF OrderedOK, Ingredients, BarTypes
<1>11. OrdersCounted'
  <2>1. /\ Count(Bartender, {"take_scan", "take_put"}) \in Nat
        /\ Count(Bartender, {"take_scan", "take_put"})' = Count(Bartender, {"take_scan", "take_put"})
        /\ Count(Customer, {"submit_V"}) \in Nat
        /\ Count(Customer, {"submit_V"})' = Count(Customer, {"submit_V"})
              + Ind(to \in {"submit_V"}) - Ind(pc[c] \in {"submit_V"})
    BY <1>1, <1>2, CustomerCounts
  <2>2. /\ Count(Bartender, {"take_scan", "take_put"})' = Count(Bartender, {"take_scan", "take_put"})
        /\ Count(Customer, {"submit_V"})' = Count(Customer, {"submit_V"})
    BY <1>2, <2>1, <1>3, <1>a, <1>c, <1>t, BarSizes, <1>x DEF Ind
  <2>3. /\ Cardinality(Found(orders, 1)) \in Nat
        /\ Cardinality(Found(orders, 1))' = Cardinality(Found(orders, 1))
              + Ind(orders'[s].state = 1) - Ind(orders[s].state = 1)
    BY <1>1, <1>2, <1>3, <1>a, <1>c, <1>t, BarSizes, <1>x, <1>4, OrdersStep
  <2> QED BY <1>1, <1>2, <1>3, <1>a, <1>c, <1>t, BarSizes, <1>x, <2>1, <2>2, <2>3
          DEF OrdersCounted, BarTypes, SlotsOwned, OrdersTaken, MineOK, Ind
<1>12. GlassesCounted'
  <2>1. /\ Count(Bartender, {"fill_scan", "fill_put"}) \in Nat
        /\ Count(Bartender, {"fill_scan", "fill_put"})' = Count(Bartender, {"fill_scan", "fill_put"})
        /\ Count(Customer, {"return_V"}) \in Nat
        /\ Count(Customer, {"return_V"})' = Count(Customer, {"return_V"})
              + Ind(to \in {"return_V"}) - Ind(pc[c] \in {"return_V"})
    BY <1>1, <1>2, CustomerCounts
  <2>2. /\ Count(Bartender, {"fill_scan", "fill_put"})' = Count(Bartender, {"fill_scan", "fill_put"})
        /\ Count(Customer, {"return_V"})' = Count(Customer, {"return_V"})
    BY <1>2, <2>1, <1>3, <1>a, <1>c, <1>t, BarSizes, <1>x DEF Ind
  <2>3. Cardinality(Found(glasses, 0))' = Cardinality(Found(glasses, 0))
    BY <1>2 DEF Found
  <2> QED BY <1>1, <1>2, <2>1, <2>2, <2>3 DEF GlassesCounted, BarTypes
<1>13. ndrinkers' = Cardinality(Drinking)'
  <2>1. Drinking' = Drinking
    BY <1>1, <1>2, <1>3, <1>a, <1>c, <1>t, BarSizes, <1>x DEF Drinking
  <2> QED BY <1>1, <1>2, <2>1
<1> QED BY <1>2, <1>4, <1>5, <1>6, <1>7, <1>8, <1>9, <1>10, <1>11, <1>12, <1>13 DEF BarInv

\* crawl_home: one drinker less; the last orders the dummies.
LEMMA crawl_homeInv ==
    ASSUME BarInv, NEW c \in Customer, crawl_home(c)
    PROVE  BarInv'
<1>1. /\ BarTypes /\ ~fault /\ SlotsOwned /\ OrdersTaken /\ GlassesOwned /\ MineOK /\ GlassesFilled
      /\ OrderedOK /\ OrdersCounted /\ GlassesCounted /\ ndrinkers = Cardinality(Drinking)
  BY DEF BarInv
<1>t. PICK to \in {"submit", "home"}, n \in 0..NBartenders :
         /\ pc' = [pc EXCEPT ![c] = to] /\ dummy' = [dummy EXCEPT ![c] = n] /\ (to = "submit" <=> n = 1)
         /\ (to = "home" <=> n = 0)
  <2>1. dummy[c] = 0 /\ {0, 1} \subseteq 0..NBartenders /\ [dummy EXCEPT ![c] = dummy[c]] = dummy
    BY <1>1, BarSizes DEF BarTypes, OrderedOK, crawl_home, At
  <2>2. CASE pc' = [pc EXCEPT ![c] = "submit"] /\ dummy' = [dummy EXCEPT ![c] = 1]
    <3>1. PICK n : n = 1
      OBVIOUS
    <3>2. PICK to : to = "submit"
      OBVIOUS
    <3>3. n \in 0..NBartenders /\ n # 0
      BY <2>1, <3>1
    <3>4. to \in {"submit", "home"} /\ to # "home"
      BY <3>2
    <3>5. pc' = [pc EXCEPT ![c] = to] /\ dummy' = [dummy EXCEPT ![c] = n]
      BY <2>2, <3>1, <3>2
    <3> QED BY <3>1, <3>2, <3>3, <3>4, <3>5
  <2>3. CASE pc' = [pc EXCEPT ![c] = "home"] /\ dummy' = dummy
    BY <2>1, <2>3
  <2> QED BY <2>2, <2>3 DEF crawl_home, Goto
<1>s. /\ IsFiniteSet(Drinking) /\ c \in Drinking /\ Cardinality(Drinking) \in Nat \ {0}
  <2>1. Drinking \in SUBSET Customer
    BY DEF Drinking
  <2>2. c \in Drinking
    BY <1>1 DEF crawl_home, At, OrderedOK, Drinking
  <2>3. IsFiniteSet(Drinking)
    BY <2>1, BarSizes, FS_Subset
  <2> QED BY <2>2, <2>3, FS_CardinalityType, FS_EmptySet
<1>2. /\ pc[c] = "crawl_home" /\ pc' = [pc EXCEPT ![c] = to]
      /\ ndrinkers' = ndrinkers - 1 /\ ndrinkers > 0
      /\ dummy' = [dummy EXCEPT ![c] = n]
      /\ UNCHANGED <<orders, glasses, emptyglasses, ordersready, ordercomplete, orderslock,
                     glassarraylock, slot, mine, poured, fault>>
  BY <1>1, <1>t, <1>s DEF crawl_home, At, Goto, sems, locks, locals
<1>3. /\ c \in Thread /\ pc'[c] = to /\ \A u \in Thread \ {c} : pc'[u] = pc[u]
      /\ dummy'[c] = n /\ \A d \in Customer \ {c} : dummy'[d] = dummy[d]
  BY <1>1, <1>2, <1>t, <1>s, BarSizes DEF BarTypes
<1>4. BarTypes'
  <2>1. pc' \in [Thread -> Labels]
    BY <1>1, <1>2, <1>3, <1>t, <1>s DEF BarTypes, Labels, HasSlot, Fills
  <2>2. orders' \in [Slot -> OrderRecord] /\ glasses' \in [Glass -> GlassRecord]
    BY <1>1, <1>2, <1>3, <1>t, <1>s DEF BarTypes
  <2>3. /\ ndrinkers' \in Nat /\ emptyglasses' \in Nat /\ ordersready' \in Nat
    BY <1>1, <1>2 DEF BarTypes
  <2>4. /\ ordercomplete' \in [Slot -> 0..1] /\ slot' \in [Thread -> Slot]
        /\ mine' \in [Thread -> Glass \cup {NONE}]
        /\ dummy' \in [Customer -> 0..NBartenders] /\ poured' \in [Bartender -> 0..3]
    BY <1>1, <1>2, <1>3, <1>t, <1>s DEF BarTypes
  <2> QED BY <2>1, <2>2, <2>3, <2>4 DEF BarTypes
<1>5. SlotsOwned'
  BY <1>1, <1>2, <1>3, <1>t, <1>s, BarSizes DEF SlotsOwned, HasSlot, BarTypes
<1>6. OrdersTaken'
  BY <1>1, <1>2, <1>3, <1>t, <1>s, BarSizes DEF OrdersTaken, Fills, BarTypes
<1>7. GlassesOwned'
  <2>1. \A i \in Slot : \A h : GlassAt(i, h)' => GlassAt(i, h)
    BY <1>1, <1>2, <1>3, <1>t, <1>s, BarSizes DEF GlassAt, HasGlass, Given, BarTypes
  <2> QED BY <1>1, <1>2, <1>3, <1>t, <1>s, <2>1 DEF GlassesOwned
<1>8. MineOK'
  BY <1>1, <1>2, <1>3, <1>t, <1>s, BarSizes DEF MineOK, HasGlass, Given, BarTypes
<1>9. GlassesFilled'
  <2>1. \A e \in Bartender : pc[e] = "pour_write" => Left(e)' = Left(e)
    BY <1>1, <1>2, <1>3, <1>t, <1>s, BarSizes DEF Left, BarTypes
  <2> QED BY <1>1, <1>2, <1>3, <1>t, <1>s, <2>1, BarSizes DEF GlassesFilled, Empty, BarTypes
<1>10. OrderedOK'
  BY <1>1, <1>2, <1>3, <1>t, <1>s, BarSizes DEF OrderedOK, Ingredients, BarTypes
<1>11. OrdersCounted'
  <2>1. /\ Count(Bartender, {"take_scan", "take_put"}) \in Nat
        /\ Count(Bartender, {"take_scan", "take_put"})' = Count(Bartender, {"take_scan", "take_put"})
        /\ Count(Customer, {"submit_V"}) \in Nat
        /\ Count(Customer, {"submit_V"})' = Count(Customer, {"submit_V"})
              + Ind(to \in {"submit_V"}) - Ind(pc[c] \in {"submit_V"})
    BY <1>1, <1>2, CustomerCounts
  <2>2. /\ Count(Bartender, {"take_scan", "take_put"})' = Count(Bartender, {"take_scan", "take_put"})
        /\ Count(Customer, {"submit_V"})' = Count(Customer, {"submit_V"})
    BY <1>2, <2>1, <1>3, <1>t, <1>s DEF Ind
  <2>3. Cardinality(Found(orders, 1))' = Cardinality(Found(orders, 1))
    BY <1>2 DEF Found
  <2> QED BY <1>1, <1>2, <2>1, <2>2, <2>3 DEF OrdersCounted, BarTypes
<1>12. GlassesCounted'
  <2>1. /\ Count(Bartender, {"fill_scan", "fill_put"}) \in Nat
        /\ Count(Bartender, {"fill_scan", "fill_put"})' = Count(Bartender, {"fill_scan", "fill_put"})
        /\ Count(Customer, {"return_V"}) \in Nat
        /\ Count(Customer, {"return_V"})' = Count(Customer, {"return_V"})
              + Ind(to \in {"return_V"}) - Ind(pc[c] \in {"return_V"})
    BY <1>1, <1>2, CustomerCounts
  <2>2. /\ Count(Bartender, {"fill_scan", "fill_put"})' = Count(Bartender, {"fill_scan", "fill_put"})
        /\ Count(Customer, {"return_V"})' = Count(Customer, {"return_V"})
    BY <1>2, <2>1, <1>3, <1>t, <1>s DEF Ind
  <2>3. Cardinality(Found(glasses, 0))' = Cardinality(Found(glasses, 0))
    BY <1>2 DEF Found
  <2> QED BY <1>1, <1>2, <2>1, <2>2, <2>3 DEF GlassesCounted, BarTypes
<1>13. ndrinkers' = Cardinality(Drinking)'
  <2>1. Drinking' = Drinking \ {c}
    BY <1>1, <1>2, <1>3, <1>t, BarSizes DEF Drinking
  <2>2. Cardinality(Drinking \ {c}) = Cardinality(Drinking) - 1
    BY <1>s, FS_RemoveElement
  <2> QED BY <1>1, <1>2, <2>1, <2>2
<1> QED BY <1>2, <1>4, <1>5, <1>6, <1>7, <1>8, <1>9, <1>10, <1>11, <1>12, <1>13 DEF BarInv

\* go_home of a customer.
LEMMA cgo_homeInv ==
    ASSUME BarInv, NEW c \in Customer, go_home(c)
    PROVE  BarInv'
<1>1. /\ BarTypes /\ ~fault /\ SlotsOwned /\ OrdersTaken /\ GlassesOwned /\ MineOK /\ GlassesFilled
      /\ OrderedOK /\ OrdersCounted /\ GlassesCounted /\ ndrinkers = Cardinality(Drinking)
  BY DEF BarInv
<1>2. /\ pc[c] = "home" /\ pc' = [pc EXCEPT ![c] = "gone"]
      /\ UNCHANGED <<orders, glasses, ndrinkers, emptyglasses, ordersready, ordercomplete,
                     orderslock, glassarraylock, slot, mine, dummy, poured, fault>>
  BY <1>1 DEF go_home, At, Goto, sems, locks, locals
<1>3. /\ c \in Thread /\ pc'[c] = "gone" /\ \A u \in Thread \ {c} : pc'[u] = pc[u]
  BY <1>1, <1>2, BarSizes DEF BarTypes
<1>4. BarTypes'
  <2>1. pc' \in [Thread -> Labels]
    BY <1>1, <1>2, <1>3 DEF BarTypes, Labels, HasSlot, Fills
  <2>2. orders' \in [Slot -> OrderRecord] /\ glasses' \in [Glass -> GlassRecord]
    BY <1>1, <1>2, <1>3 DEF BarTypes
  <2>3. /\ ndrinkers' \in Nat /\ emptyglasses' \in Nat /\ ordersready' \in Nat
    BY <1>1, <1>2 DEF BarTypes
  <2>4. /\ ordercomplete' \in [Slot -> 0..1] /\ slot' \in [Thread -> Slot]
        /\ mine' \in [Thread -> Glass \cup {NONE}]
        /\ dummy' \in [Customer -> 0..NBartenders] /\ poured' \in [Bartender -> 0..3]
    BY <1>1, <1>2, <1>3 DEF BarTypes
  <2> QED BY <2>1, <2>2, <2>3, <2>4 DEF BarTypes
<1>5. SlotsOwned'
  BY <1>1, <1>2, <1>3, BarSizes DEF SlotsOwned, HasSlot, BarTypes
<1>6. OrdersTaken'
  BY <1>1, <1>2, <1>3, BarSizes DEF OrdersTaken, Fills, BarTypes
<1>7. GlassesOwned'
  <2>1. \A i \in Slot : \A h : GlassAt(i, h)' => GlassAt(i, h)
    BY <1>1, <1>2, <1>3, BarSizes DEF GlassAt, HasGlass, Given, BarTypes
  <2> QED BY <1>1, <1>2, <1>3, <2>1 DEF GlassesOwned
<1>8. MineOK'
  BY <1>1, <1>2, <1>3, BarSizes DEF MineOK, HasGlass, Given, BarTypes
<1>9. GlassesFilled'
  <2>1. \A e \in Bartender : pc[e] = "pour_write" => Left(e)' = Left(e)
    BY <1>1, <1>2, <1>3, BarSizes DEF Left, BarTypes
  <2> QED BY <1>1, <1>2, <1>3, <2>1, BarSizes DEF GlassesFilled, Empty, BarTypes
<1>10. OrderedOK'
  BY <1>1, <1>2, <1>3, BarSizes DEF OrderedOK, Ingredients, BarTypes
<1>11. OrdersCounted'
  <2>1. /\ Count(Bartender, {"take_scan", "take_put"}) \in Nat
        /\ Count(Bartender, {"take_scan", "take_put"})' = Count(Bartender, {"take_scan", "take_put"})
        /\ Count(Customer, {"submit_V"}) \in Nat
        /\ Count(Customer, {"submit_V"})' = Count(Customer, {"submit_V"})
              + Ind("gone" \in {"submit_V"}) - Ind(pc[c] \in {"submit_V"})
    BY <1>1, <1>2, CustomerCounts
  <2>2. /\ Count(Bartender, {"take_scan", "take_put"})' = Count(Bartender, {"take_scan", "take_put"})
        /\ Count(Customer, {"submit_V"})' = Count(Customer, {"submit_V"})
    BY <1>2, <2>1, <1>3 DEF Ind
  <2>3. Cardinality(Found(orders, 1))' = Cardinality(Found(orders, 1))
    BY <1>2 DEF Found
  <2> QED BY <1>1, <1>2, <2>1, <2>2, <2>3 DEF OrdersCounted, BarTypes
<1>12. GlassesCounted'
  <2>1. /\ Count(Bartender, {"fill_scan", "fill_put"}) \in Nat
        /\ Count(Bartender, {"fill_scan", "fill_put"})' = Count(Bartender, {"fill_scan", "fill_put"})
        /\ Count(Customer, {"return_V"}) \in Nat
        /\ Count(Customer, {"return_V"})' = Count(Customer, {"return_V"})
              + Ind("gone" \in {"return_V"}) - Ind(pc[c] \in {"return_V"})
    BY <1>1, <1>2, CustomerCounts
  <2>2. /\ Count(Bartender, {"fill_scan", "fill_put"})' = Count(Bartender, {"fill_scan", "fill_put"})
        /\ Count(Customer, {"return_V"})' = Count(Customer, {"return_V"})
    BY <1>2, <2>1, <1>3 DEF Ind
  <2>3. Cardinality(Found(glasses, 0))' = Cardinality(Found(glasses, 0))
    BY <1>2 DEF Found
  <2> QED BY <1>1, <1>2, <2>1, <2>2, <2>3 DEF GlassesCounted, BarTypes
<1>13. ndrinkers' = Cardinality(Drinking)'
  <2>1. Drinking' = Drinking
    BY <1>1, <1>2, <1>3, BarSizes DEF Drinking
  <2> QED BY <1>1, <1>2, <2>1
<1> QED BY <1>2, <1>4, <1>5, <1>6, <1>7, <1>8, <1>9, <1>10, <1>11, <1>12, <1>13 DEF BarInv

\* go_home of a bartender.
LEMMA bgo_homeInv ==
    ASSUME BarInv, NEW b \in Bartender, go_home(b)
    PROVE  BarInv'
<1>1. /\ BarTypes /\ ~fault /\ SlotsOwned /\ OrdersTaken /\ GlassesOwned /\ MineOK /\ GlassesFilled
      /\ OrderedOK /\ OrdersCounted /\ GlassesCounted /\ ndrinkers = Cardinality(Drinking)
  BY DEF BarInv
<1>2. /\ pc[b] = "home" /\ pc' = [pc EXCEPT ![b] = "gone"]
      /\ UNCHANGED <<orders, glasses, ndrinkers, emptyglasses, ordersready, ordercomplete,
                     orderslock, glassarraylock, slot, mine, dummy, poured, fault>>
  BY <1>1 DEF go_home, At, Goto, sems, locks, locals
<1>3. /\ b \in Thread /\ pc'[b] = "gone" /\ \A u \in Thread \ {b} : pc'[u] = pc[u]
  BY <1>1, <1>2, BarSizes DEF BarTypes
<1>4. BarTypes'
  <2>1. pc' \in [Thread -> Labels]
    BY <1>1, <1>2, <1>3 DEF BarTypes, Labels, HasSlot, Fills
  <2>2. orders' \in [Slot -> OrderRecord] /\ glasses' \in [Glass -> GlassRecord]
    BY <1>1, <1>2, <1>3 DEF BarTypes
  <2>3. /\ ndrinkers' \in Nat /\ emptyglasses' \in Nat /\ ordersready' \in Nat
    BY <1>1, <1>2 DEF BarTypes
  <2>4. /\ ordercomplete' \in [Slot -> 0..1] /\ slot' \in [Thread -> Slot]
        /\ mine' \in [Thread -> Glass \cup {NONE}]
        /\ dummy' \in [Customer -> 0..NBartenders] /\ poured' \in [Bartender -> 0..3]
    BY <1>1, <1>2, <1>3 DEF BarTypes
  <2> QED BY <2>1, <2>2, <2>3, <2>4 DEF BarTypes
<1>5. SlotsOwned'
  BY <1>1, <1>2, <1>3, BarSizes DEF SlotsOwned, HasSlot, BarTypes
<1>6. OrdersTaken'
  BY <1>1, <1>2, <1>3, BarSizes DEF OrdersTaken, Fills, BarTypes
<1>7. GlassesOwned'
  <2>1. \A i \in Slot : \A h : GlassAt(i, h)' => GlassAt(i, h)
    BY <1>1, <1>2, <1>3, BarSizes DEF GlassAt, HasGlass, Given, BarTypes
  <2> QED BY <1>1, <1>2, <1>3, <2>1 DEF GlassesOwned
<1>8. MineOK'
  BY <1>1, <1>2, <1>3, BarSizes DEF MineOK, HasGlass, Given, BarTypes
<1>9. GlassesFilled'
  <2>1. \A e \in Bartender : pc[e] = "pour_write" /\ e # b => Left(e)' = Left(e)
    BY <1>1, <1>2, <1>3, BarSizes DEF Left, BarTypes
  <2> QED BY <1>1, <1>2, <1>3, <2>1, BarSizes DEF GlassesFilled, Empty, BarTypes
<1>10. OrderedOK'
  BY <1>1, <1>2, <1>3, BarSizes DEF OrderedOK, Ingredients, BarTypes
<1>11. OrdersCounted'
  <2>1. /\ Count(Customer, {"submit_V"}) \in Nat
        /\ Count(Customer, {"submit_V"})' = Count(Customer, {"submit_V"})
        /\ Count(Bartender, {"take_scan", "take_put"}) \in Nat
        /\ Count(Bartender, {"take_scan", "take_put"})' = Count(Bartender, {"take_scan", "take_put"})
              + Ind("gone" \in {"take_scan", "take_put"}) - Ind(pc[b] \in {"take_scan", "take_put"})
    BY <1>1, <1>2, BartenderCounts
  <2>2. /\ Count(Bartender, {"take_scan", "take_put"})' = Count(Bartender, {"take_scan", "take_put"})
        /\ Count(Customer, {"submit_V"})' = Count(Customer, {"submit_V"})
    BY <1>2, <2>1, <1>3 DEF Ind
  <2>3. Cardinality(Found(orders, 1))' = Cardinality(Found(orders, 1))
    BY <1>2 DEF Found
  <2> QED BY <1>1, <1>2, <2>1, <2>2, <2>3 DEF OrdersCounted, BarTypes
<1>12. GlassesCounted'
  <2>1. /\ Count(Customer, {"return_V"}) \in Nat
        /\ Count(Customer, {"return_V"})' = Count(Customer, {"return_V"})
        /\ Count(Bartender, {"fill_scan", "fill_put"}) \in Nat
        /\ Count(Bartender, {"fill_scan", "fill_put"})' = Count(Bartender, {"fill_scan", "fill_put"})
              + Ind("gone" \in {"fill_scan", "fill_put"}) - Ind(pc[b] \in {"fill_scan", "fill_put"})
    BY <1>1, <1>2, BartenderCounts
  <2>2. /\ Count(Bartender, {"fill_scan", "fill_put"})' = Count(Bartender, {"fill_scan", "fill_put"})
        /\ Count(Customer, {"return_V"})' = Count(Customer, {"return_V"})
    BY <1>2, <2>1, <1>3 DEF Ind
  <2>3. Cardinality(Found(glasses, 0))' = Cardinality(Found(glasses, 0))
    BY <1>2 DEF Found
  <2> QED BY <1>1, <1>2, <2>1, <2>2, <2>3 DEF GlassesCounted, BarTypes
<1>13. ndrinkers' = Cardinality(Drinking)'
  <2>1. Drinking' = Drinking
    BY <1>1, <1>2, <1>3, BarSizes DEF Drinking
  <2> QED BY <1>1, <1>2, <2>1
<1> QED BY <1>2, <1>4, <1>5, <1>6, <1>7, <1>8, <1>9, <1>10, <1>11, <1>12, <1>13 DEF BarInv

\* while (drinkers()).
LEMMA drinkersInv ==
    ASSUME BarInv, NEW b \in Bartender, drinkers(b)
    PROVE  BarInv'
<1>1. /\ BarTypes /\ ~fault /\ SlotsOwned /\ OrdersTaken /\ GlassesOwned /\ MineOK /\ GlassesFilled
      /\ OrderedOK /\ OrdersCounted /\ GlassesCounted /\ ndrinkers = Cardinality(Drinking)
  BY DEF BarInv
<1>t. PICK to \in {"take_P", "home"} : pc' = [pc EXCEPT ![b] = to]
  BY DEF drinkers, Goto
<1>2. /\ pc[b] = "while" /\ pc' = [pc EXCEPT ![b] = to]
      /\ UNCHANGED <<orders, glasses, ndrinkers, emptyglasses, ordersready, ordercomplete,
                     orderslock, glassarraylock, slot, mine, dummy, poured, fault>>
  BY <1>1, <1>t DEF drinkers, At, Goto, sems, locks, locals
<1>3. /\ b \in Thread /\ pc'[b] = to /\ \A u \in Thread \ {b} : pc'[u] = pc[u]
  BY <1>1, <1>2, <1>t, BarSizes DEF BarTypes
<1>4. BarTypes'
  <2>1. pc' \in [Thread -> Labels]
    BY <1>1, <1>2, <1>3, <1>t DEF BarTypes, Labels, HasSlot, Fills
  <2>2. orders' \in [Slot -> OrderRecord] /\ glasses' \in [Glass -> GlassRecord]
    BY <1>1, <1>2, <1>3, <1>t DEF BarTypes
  <2>3. /\ ndrinkers' \in Nat /\ emptyglasses' \in Nat /\ ordersready' \in Nat
    BY <1>1, <1>2 DEF BarTypes
  <2>4. /\ ordercomplete' \in [Slot -> 0..1] /\ slot' \in [Thread -> Slot]
        /\ mine' \in [Thread -> Glass \cup {NONE}]
        /\ dummy' \in [Customer -> 0..NBartenders] /\ poured' \in [Bartender -> 0..3]
    BY <1>1, <1>2, <1>3, <1>t DEF BarTypes
  <2> QED BY <2>1, <2>2, <2>3, <2>4 DEF BarTypes
<1>5. SlotsOwned'
  BY <1>1, <1>2, <1>3, <1>t, BarSizes DEF SlotsOwned, HasSlot, BarTypes
<1>6. OrdersTaken'
  BY <1>1, <1>2, <1>3, <1>t, BarSizes DEF OrdersTaken, Fills, BarTypes
<1>7. GlassesOwned'
  <2>1. \A i \in Slot : \A h : GlassAt(i, h)' => GlassAt(i, h)
    BY <1>1, <1>2, <1>3, <1>t, BarSizes DEF GlassAt, HasGlass, Given, BarTypes
  <2> QED BY <1>1, <1>2, <1>3, <1>t, <2>1 DEF GlassesOwned
<1>8. MineOK'
  BY <1>1, <1>2, <1>3, <1>t, BarSizes DEF MineOK, HasGlass, Given, BarTypes
<1>9. GlassesFilled'
  <2>1. \A e \in Bartender : pc[e] = "pour_write" /\ e # b => Left(e)' = Left(e)
    BY <1>1, <1>2, <1>3, <1>t, BarSizes DEF Left, BarTypes
  <2> QED BY <1>1, <1>2, <1>3, <1>t, <2>1, BarSizes DEF GlassesFilled, Empty, BarTypes
<1>10. OrderedOK'
  BY <1>1, <1>2, <1>3, <1>t, BarSizes DEF OrderedOK, Ingredients, BarTypes
<1>11. OrdersCounted'
  <2>1. /\ Count(Customer, {"submit_V"}) \in Nat
        /\ Count(Customer, {"submit_V"})' = Count(Customer, {"submit_V"})
        /\ Count(Bartender, {"take_scan", "take_put"}) \in Nat
        /\ Count(Bartender, {"take_scan", "take_put"})' = Count(Bartender, {"take_scan", "take_put"})
              + Ind(to \in {"take_scan", "take_put"}) - Ind(pc[b] \in {"take_scan", "take_put"})
    BY <1>1, <1>2, BartenderCounts
  <2>2. /\ Count(Bartender, {"take_scan", "take_put"})' = Count(Bartender, {"take_scan", "take_put"})
        /\ Count(Customer, {"submit_V"})' = Count(Customer, {"submit_V"})
    BY <1>2, <2>1, <1>3, <1>t DEF Ind
  <2>3. Cardinality(Found(orders, 1))' = Cardinality(Found(orders, 1))
    BY <1>2 DEF Found
  <2> QED BY <1>1, <1>2, <2>1, <2>2, <2>3 DEF OrdersCounted, BarTypes
<1>12. GlassesCounted'
  <2>1. /\ Count(Customer, {"return_V"}) \in Nat
        /\ Count(Customer, {"return_V"})' = Count(Customer, {"return_V"})
        /\ Count(Bartender, {"fill_scan", "fill_put"}) \in Nat
        /\ Count(Bartender, {"fill_scan", "fill_put"})' = Count(Bartender, {"fill_scan", "fill_put"})
              + Ind(to \in {"fill_scan", "fill_put"}) - Ind(pc[b] \in {"fill_scan", "fill_put"})
    BY <1>1, <1>2, BartenderCounts
  <2>2. /\ Count(Bartender, {"fill_scan", "fill_put"})' = Count(Bartender, {"fill_scan", "fill_put"})
        /\ Count(Customer, {"return_V"})' = Count(Customer, {"return_V"})
    BY <1>2, <2>1, <1>3, <1>t DEF Ind
  <2>3. Cardinality(Found(glasses, 0))' = Cardinality(Found(glasses, 0))
    BY <1>2 DEF Found
  <2> QED BY <1>1, <1>2, <2>1, <2>2, <2>3 DEF GlassesCounted, BarTypes
<1>13. ndrinkers' = Cardinality(Drinking)'
  <2>1. Drinking' = Drinking
    BY <1>1, <1>2, <1>3, <1>t, BarSizes DEF Drinking
  <2> QED BY <1>1, <1>2, <2>1
<1> QED BY <1>2, <1>4, <1>5, <1>6, <1>7, <1>8, <1>9, <1>10, <1>11, <1>12, <1>13 DEF BarInv

\* take_order: P(ordersready).
LEMMA take_PInv ==
    ASSUME BarInv, NEW b \in Bartender, take_P(b)
    PROVE  BarInv'
<1>1. /\ BarTypes /\ ~fault /\ SlotsOwned /\ OrdersTaken /\ GlassesOwned /\ MineOK /\ GlassesFilled
      /\ OrderedOK /\ OrdersCounted /\ GlassesCounted /\ ndrinkers = Cardinality(Drinking)
  BY DEF BarInv
<1>2. /\ pc[b] = "take_P" /\ pc' = [pc EXCEPT ![b] = "take_scan"]
      /\ ordersready' = ordersready - 1 /\ ordersready > 0
      /\ UNCHANGED <<orders, glasses, ndrinkers, emptyglasses, ordercomplete, orderslock,
                     glassarraylock, slot, mine, dummy, poured, fault>>
  BY <1>1 DEF take_P, At, Goto, sems, locks, locals
<1>3. /\ b \in Thread /\ pc'[b] = "take_scan" /\ \A u \in Thread \ {b} : pc'[u] = pc[u]
  BY <1>1, <1>2, BarSizes DEF BarTypes
<1>4. BarTypes'
  <2>1. pc' \in [Thread -> Labels]
    BY <1>1, <1>2, <1>3 DEF BarTypes, Labels, HasSlot, Fills
  <2>2. orders' \in [Slot -> OrderRecord] /\ glasses' \in [Glass -> GlassRecord]
    BY <1>1, <1>2, <1>3 DEF BarTypes
  <2>3. /\ ndrinkers' \in Nat /\ emptyglasses' \in Nat /\ ordersready' \in Nat
    BY <1>1, <1>2 DEF BarTypes
  <2>4. /\ ordercomplete' \in [Slot -> 0..1] /\ slot' \in [Thread -> Slot]
        /\ mine' \in [Thread -> Glass \cup {NONE}]
        /\ dummy' \in [Customer -> 0..NBartenders] /\ poured' \in [Bartender -> 0..3]
    BY <1>1, <1>2, <1>3 DEF BarTypes
  <2> QED BY <2>1, <2>2, <2>3, <2>4 DEF BarTypes
<1>5. SlotsOwned'
  BY <1>1, <1>2, <1>3, BarSizes DEF SlotsOwned, HasSlot, BarTypes
<1>6. OrdersTaken'
  BY <1>1, <1>2, <1>3, BarSizes DEF OrdersTaken, Fills, BarTypes
<1>7. GlassesOwned'
  <2>1. \A i \in Slot : \A h : GlassAt(i, h)' => GlassAt(i, h)
    BY <1>1, <1>2, <1>3, BarSizes DEF GlassAt, HasGlass, Given, BarTypes
  <2> QED BY <1>1, <1>2, <1>3, <2>1 DEF GlassesOwned
<1>8. MineOK'
  BY <1>1, <1>2, <1>3, BarSizes DEF MineOK, HasGlass, Given, BarTypes
<1>9. GlassesFilled'
  <2>1. \A e \in Bartender : pc[e] = "pour_write" /\ e # b => Left(e)' = Left(e)
    BY <1>1, <1>2, <1>3, BarSizes DEF Left, BarTypes
  <2> QED BY <1>1, <1>2, <1>3, <2>1, BarSizes DEF GlassesFilled, Empty, BarTypes
<1>10. OrderedOK'
  BY <1>1, <1>2, <1>3, BarSizes DEF OrderedOK, Ingredients, BarTypes
<1>11. OrdersCounted'
  <2>1. /\ Count(Customer, {"submit_V"}) \in Nat
        /\ Count(Customer, {"submit_V"})' = Count(Customer, {"submit_V"})
        /\ Count(Bartender, {"take_scan", "take_put"}) \in Nat
        /\ Count(Bartender, {"take_scan", "take_put"})' = Count(Bartender, {"take_scan", "take_put"})
              + Ind("take_scan" \in {"take_scan", "take_put"}) - Ind(pc[b] \in {"take_scan", "take_put"})
    BY <1>1, <1>2, BartenderCounts
  <2>2. /\ Count(Bartender, {"take_scan", "take_put"})' = Count(Bartender, {"take_scan", "take_put"}) + 1
        /\ Count(Customer, {"submit_V"})' = Count(Customer, {"submit_V"})
    BY <1>2, <2>1, <1>3 DEF Ind
  <2>3. Cardinality(Found(orders, 1))' = Cardinality(Found(orders, 1))
    BY <1>2 DEF Found
  <2> QED BY <1>1, <1>2, <2>1, <2>2, <2>3 DEF OrdersCounted, BarTypes
<1>12. GlassesCounted'
  <2>1. /\ Count(Customer, {"return_V"}) \in Nat
        /\ Count(Customer, {"return_V"})' = Count(Customer, {"return_V"})
        /\ Count(Bartender, {"fill_scan", "fill_put"}) \in Nat
        /\ Count(Bartender, {"fill_scan", "fill_put"})' = Count(Bartender, {"fill_scan", "fill_put"})
              + Ind("take_scan" \in {"fill_scan", "fill_put"}) - Ind(pc[b] \in {"fill_scan", "fill_put"})
    BY <1>1, <1>2, BartenderCounts
  <2>2. /\ Count(Bartender, {"fill_scan", "fill_put"})' = Count(Bartender, {"fill_scan", "fill_put"})
        /\ Count(Customer, {"return_V"})' = Count(Customer, {"return_V"})
    BY <1>2, <2>1, <1>3 DEF Ind
  <2>3. Cardinality(Found(glasses, 0))' = Cardinality(Found(glasses, 0))
    BY <1>2 DEF Found
  <2> QED BY <1>1, <1>2, <2>1, <2>2, <2>3 DEF GlassesCounted, BarTypes
<1>13. ndrinkers' = Cardinality(Drinking)'
  <2>1. Drinking' = Drinking
    BY <1>1, <1>2, <1>3, BarSizes DEF Drinking
  <2> QED BY <1>1, <1>2, <2>1
<1> QED BY <1>2, <1>4, <1>5, <1>6, <1>7, <1>8, <1>9, <1>10, <1>11, <1>12, <1>13 DEF BarInv

\* take_order: the scan finds an order.
LEMMA take_scanInv ==
    ASSUME BarInv, NEW b \in Bartender, take_scan(b)
    PROVE  BarInv'
<1>1. /\ BarTypes /\ ~fault /\ SlotsOwned /\ OrdersTaken /\ GlassesOwned /\ MineOK /\ GlassesFilled
      /\ OrderedOK /\ OrdersCounted /\ GlassesCounted /\ ndrinkers = Cardinality(Drinking)
  BY DEF BarInv
<1>a. PICK s \in Slot : s = First(orders, 1) /\ orders[s].state = 1
  BY <1>1, OrderAndGlass, ScanFinds DEF take_scan, At
<1>2. /\ pc[b] = "take_scan" /\ pc' = [pc EXCEPT ![b] = "take_put"]
      /\ orderslock = NONE /\ orderslock' = b
      /\ slot' = [slot EXCEPT ![b] = s]
      /\ UNCHANGED <<orders, glasses, ndrinkers, emptyglasses, ordersready, ordercomplete,
                     glassarraylock, mine, dummy, poured, fault>>
  BY <1>1, <1>a, OrderAndGlass DEF take_scan, At, Goto, sems, locks, locals
<1>3. /\ b \in Thread /\ pc'[b] = "take_put" /\ \A u \in Thread \ {b} : pc'[u] = pc[u]
      /\ slot'[b] = s /\ \A u \in Thread \ {b} : slot'[u] = slot[u]
  BY <1>1, <1>2, <1>a, OrderAndGlass, BarSizes DEF BarTypes
<1>4. BarTypes'
  <2>1. pc' \in [Thread -> Labels]
    BY <1>1, <1>2, <1>3, <1>a, OrderAndGlass DEF BarTypes, Labels, HasSlot, Fills
  <2>2. orders' \in [Slot -> OrderRecord] /\ glasses' \in [Glass -> GlassRecord]
    BY <1>1, <1>2, <1>3, <1>a, OrderAndGlass DEF BarTypes
  <2>3. /\ ndrinkers' \in Nat /\ emptyglasses' \in Nat /\ ordersready' \in Nat
    BY <1>1, <1>2 DEF BarTypes
  <2>4. /\ ordercomplete' \in [Slot -> 0..1] /\ slot' \in [Thread -> Slot]
        /\ mine' \in [Thread -> Glass \cup {NONE}]
        /\ dummy' \in [Customer -> 0..NBartenders] /\ poured' \in [Bartender -> 0..3]
    BY <1>1, <1>2, <1>3, <1>a, OrderAndGlass DEF BarTypes
  <2> QED BY <2>1, <2>2, <2>3, <2>4 DEF BarTypes
<1>5. SlotsOwned'
  BY <1>1, <1>2, <1>3, <1>a, OrderAndGlass, BarSizes DEF SlotsOwned, HasSlot, BarTypes
<1>6. OrdersTaken'
  BY <1>1, <1>2, <1>3, <1>a, OrderAndGlass, BarSizes DEF OrdersTaken, Fills, BarTypes
<1>7. GlassesOwned'
  <2>1. \A i \in Slot : \A h : GlassAt(i, h)' => GlassAt(i, h)
    BY <1>1, <1>2, <1>3, <1>a, OrderAndGlass, BarSizes DEF GlassAt, HasGlass, Given, BarTypes
  <2> QED BY <1>1, <1>2, <1>3, <1>a, OrderAndGlass, <2>1 DEF GlassesOwned
<1>8. MineOK'
  BY <1>1, <1>2, <1>3, <1>a, OrderAndGlass, BarSizes DEF MineOK, HasGlass, Given, BarTypes
<1>9. GlassesFilled'
  <2>1. \A e \in Bartender : pc[e] = "pour_write" /\ e # b => Left(e)' = Left(e)
    BY <1>1, <1>2, <1>3, <1>a, OrderAndGlass, BarSizes DEF Left, BarTypes
  <2> QED BY <1>1, <1>2, <1>3, <1>a, OrderAndGlass, <2>1, BarSizes
          DEF GlassesFilled, Empty, BarTypes
<1>10. OrderedOK'
  BY <1>1, <1>2, <1>3, <1>a, OrderAndGlass, BarSizes DEF OrderedOK, Ingredients, BarTypes
<1>11. OrdersCounted'
  <2>1. /\ Count(Customer, {"submit_V"}) \in Nat
        /\ Count(Customer, {"submit_V"})' = Count(Customer, {"submit_V"})
        /\ Count(Bartender, {"take_scan", "take_put"}) \in Nat
        /\ Count(Bartender, {"take_scan", "take_put"})' = Count(Bartender, {"take_scan", "take_put"})
              + Ind("take_put" \in {"take_scan", "take_put"}) - Ind(pc[b] \in {"take_scan", "take_put"})
    BY <1>1, <1>2, BartenderCounts
  <2>2. /\ Count(Bartender, {"take_scan", "take_put"})' = Count(Bartender, {"take_scan", "take_put"})
        /\ Count(Customer, {"submit_V"})' = Count(Customer, {"submit_V"})
    BY <1>2, <2>1, <1>3, <1>a, OrderAndGlass DEF Ind
  <2>3. Cardinality(Found(orders, 1))' = Cardinality(Found(orders, 1))
    BY <1>2 DEF Found
  <2> QED BY <1>1, <1>2, <2>1, <2>2, <2>3 DEF OrdersCounted, BarTypes
<1>12. GlassesCounted'
  <2>1. /\ Count(Customer, {"return_V"}) \in Nat
        /\ Count(Customer, {"return_V"})' = Count(Customer, {"return_V"})
        /\ Count(Bartender, {"fill_scan", "fill_put"}) \in Nat
        /\ Count(Bartender, {"fill_scan", "fill_put"})' = Count(Bartender, {"fill_scan", "fill_put"})
              + Ind("take_put" \in {"fill_scan", "fill_put"}) - Ind(pc[b] \in {"fill_scan", "fill_put"})
    BY <1>1, <1>2, BartenderCounts
  <2>2. /\ Count(Bartender, {"fill_scan", "fill_put"})' = Count(Bartender, {"fill_scan", "fill_put"})
        /\ Count(Customer, {"return_V"})' = Count(Customer, {"return_V"})
    BY <1>2, <2>1, <1>3, <1>a, OrderAndGlass DEF Ind
  <2>3. Cardinality(Found(glasses, 0))' = Cardinality(Found(glasses, 0))
    BY <1>2 DEF Found
  <2> QED BY <1>1, <1>2, <2>1, <2>2, <2>3 DEF GlassesCounted, BarTypes
<1>13. ndrinkers' = Cardinality(Drinking)'
  <2>1. Drinking' = Drinking
    BY <1>1, <1>2, <1>3, <1>a, OrderAndGlass, BarSizes DEF Drinking
  <2> QED BY <1>1, <1>2, <2>1
<1> QED BY <1>2, <1>4, <1>5, <1>6, <1>7, <1>8, <1>9, <1>10, <1>11, <1>12, <1>13 DEF BarInv

\* take_order: the order is taken.
LEMMA take_putInv ==
    ASSUME BarInv, NEW b \in Bartender, take_put(b)
    PROVE  BarInv'
<1>1. /\ BarTypes /\ ~fault /\ SlotsOwned /\ OrdersTaken /\ GlassesOwned /\ MineOK /\ GlassesFilled
      /\ OrderedOK /\ OrdersCounted /\ GlassesCounted /\ ndrinkers = Cardinality(Drinking)
  BY DEF BarInv
<1>a. PICK s \in Slot : s = slot[b]
  BY <1>1, BarSizes DEF BarTypes
<1>b. PICK r : r = [orders[s] EXCEPT !.state = 2]
  OBVIOUS
<1>c. r \in OrderRecord /\ r.ing = orders[s].ing /\ r.glass = orders[s].glass /\ r.state = 2
  <2>1. orders[s] \in OrderRecord
    BY <1>1, <1>a DEF BarTypes
  <2>2. {0, 1} \subseteq 0..1 /\ {0, 1, 2, 3} \subseteq 0..3
    OBVIOUS
  <2> QED BY <1>1, <1>a, <1>b, <2>1, <2>2 DEF BarTypes, OrderRecord
<1>2. /\ pc[b] = "take_put" /\ pc' = [pc EXCEPT ![b] = "fill_P"]
      /\ orders' = [orders EXCEPT ![s] = r]
      /\ orderslock' = NONE
      /\ UNCHANGED <<glasses, ndrinkers, emptyglasses, ordersready, ordercomplete,
                     glassarraylock, slot, mine, dummy, poured, fault>>
  BY <1>1, <1>a, <1>c, <1>b DEF take_put, At, Goto, sems, locks, locals
<1>3. /\ b \in Thread /\ pc'[b] = "fill_P" /\ \A u \in Thread \ {b} : pc'[u] = pc[u]
      /\ orders'[s] = r /\ \A i \in Slot \ {s} : orders'[i] = orders[i]
  BY <1>1, <1>2, <1>a, <1>c, BarSizes DEF BarTypes
<1>x. /\ \A e \in Bartender \ {b} : pc[e] \in Fills \cup {"take_put"} => slot[e] # s
      /\ \A d \in Customer : pc[d] \in (HasSlot \ {"submit_V", "submit_P"}) \cup {"submit_put"} => slot[d] # s
      /\ \A i \in Slot : ordercomplete[i] = 1 => i # s
      /\ orders[s].state = 1 /\ ordercomplete[s] = 0
      /\ (\A e \in Bartender \ {b} : pc[e] # "take_put") /\ \A d \in Customer : pc[d] # "submit_put"
  BY <1>1, <1>2, <1>3, <1>a, <1>c, BarSizes
  DEF SlotsOwned, OrdersTaken, MineOK, HasSlot, Fills, HasGlass, Given, BarTypes
<1>4. BarTypes'
  <2>1. pc' \in [Thread -> Labels]
    BY <1>1, <1>2, <1>3, <1>a, <1>c, <1>x DEF BarTypes, Labels, HasSlot, Fills
  <2>2. orders' \in [Slot -> OrderRecord] /\ glasses' \in [Glass -> GlassRecord]
    BY <1>1, <1>2, <1>3, <1>a, <1>c, <1>x DEF BarTypes
  <2>3. /\ ndrinkers' \in Nat /\ emptyglasses' \in Nat /\ ordersready' \in Nat
    BY <1>1, <1>2 DEF BarTypes
  <2>4. /\ ordercomplete' \in [Slot -> 0..1] /\ slot' \in [Thread -> Slot]
        /\ mine' \in [Thread -> Glass \cup {NONE}]
        /\ dummy' \in [Customer -> 0..NBartenders] /\ poured' \in [Bartender -> 0..3]
    BY <1>1, <1>2, <1>3, <1>a, <1>c, <1>x DEF BarTypes
  <2> QED BY <2>1, <2>2, <2>3, <2>4 DEF BarTypes
<1>5. SlotsOwned'
  BY <1>1, <1>2, <1>3, <1>a, <1>c, <1>x, BarSizes DEF SlotsOwned, HasSlot, BarTypes
<1>6. OrdersTaken'
  <2>1. \A e \in Bartender :
           /\ pc'[e] = "take_put" => FALSE
           /\ pc'[e] \in Fills => orders'[slot[e]].state = 2 /\ ordercomplete[slot[e]] = 0
    <3> TAKE e \in Bartender
    <3>1. CASE e = b
      BY <1>3, <1>a, <1>c, <1>x, <3>1
    <3>2. CASE e # b
      <4>1. pc'[e] = pc[e] /\ slot[e] \in Slot
        BY <1>1, <1>3, <3>2, BarSizes DEF BarTypes
      <4> QED BY <1>1, <1>3, <1>x, <3>2, <4>1 DEF OrdersTaken
    <3> QED BY <3>1, <3>2
  <2>2. \A e, h \in Bartender : e # h /\ pc'[e] \in Fills /\ pc'[h] \in Fills => slot[e] # slot[h]
    BY <1>1, <1>3, <1>a, <1>x, BarSizes DEF OrdersTaken
  <2>3. \A e \in Bartender, d \in Customer : pc'[e] \in Fills /\ pc'[d] = "given" => slot[e] # slot[d]
    BY <1>1, <1>3, <1>a, <1>x, BarSizes DEF OrdersTaken, HasSlot
  <2>4. \A i \in Slot : ordercomplete[i] # 0 => orders'[i].state = 2
    BY <1>1, <1>3, <1>a, <1>c DEF OrdersTaken
  <2> QED BY <1>2, <2>1, <2>2, <2>3, <2>4 DEF OrdersTaken
<1>7. GlassesOwned'
  <2>1. \A i \in Slot : \A h : GlassAt(i, h)' => GlassAt(i, h)
    BY <1>1, <1>2, <1>3, <1>a, <1>c, <1>x, BarSizes DEF GlassAt, HasGlass, Given, BarTypes
  <2> QED BY <1>1, <1>2, <1>3, <1>a, <1>c, <1>x, <2>1 DEF GlassesOwned
<1>8. MineOK'
  BY <1>1, <1>2, <1>3, <1>a, <1>c, <1>x, BarSizes DEF MineOK, HasGlass, Given, BarTypes
<1>9. GlassesFilled'
  <2>1. \A e \in Bartender : pc[e] = "pour_write" /\ e # b => Left(e)' = Left(e)
    BY <1>1, <1>2, <1>3, <1>a, <1>c, <1>x, BarSizes DEF Left, BarTypes
  <2> QED BY <1>1, <1>2, <1>3, <1>a, <1>c, <1>x, <2>1, BarSizes
          DEF GlassesFilled, Empty, BarTypes
<1>10. OrderedOK'
  BY <1>1, <1>2, <1>3, <1>a, <1>c, <1>x, BarSizes DEF OrderedOK, Ingredients, BarTypes
<1>11. OrdersCounted'
  <2>1. /\ Count(Customer, {"submit_V"}) \in Nat
        /\ Count(Customer, {"submit_V"})' = Count(Customer, {"submit_V"})
        /\ Count(Bartender, {"take_scan", "take_put"}) \in Nat
        /\ Count(Bartender, {"take_scan", "take_put"})' = Count(Bartender, {"take_scan", "take_put"})
              + Ind("fill_P" \in {"take_scan", "take_put"}) - Ind(pc[b] \in {"take_scan", "take_put"})
    BY <1>1, <1>2, BartenderCounts
  <2>2. /\ Count(Bartender, {"take_scan", "take_put"})' = Count(Bartender, {"take_scan", "take_put"}) - 1
        /\ Count(Customer, {"submit_V"})' = Count(Customer, {"submit_V"})
    BY <1>2, <2>1, <1>3, <1>a, <1>c, <1>x DEF Ind
  <2>3. /\ Cardinality(Found(orders, 1)) \in Nat
        /\ Cardinality(Found(orders, 1))' = Cardinality(Found(orders, 1))
              + Ind(orders'[s].state = 1) - Ind(orders[s].state = 1)
    BY <1>1, <1>2, <1>3, <1>a, <1>c, <1>x, <1>4, OrdersStep
  <2> QED BY <1>1, <1>2, <1>3, <1>a, <1>c, <1>x, <2>1, <2>2, <2>3
          DEF OrdersCounted, BarTypes, SlotsOwned, OrdersTaken, MineOK, Ind
<1>12. GlassesCounted'
  <2>1. /\ Count(Customer, {"return_V"}) \in Nat
        /\ Count(Customer, {"return_V"})' = Count(Customer, {"return_V"})
        /\ Count(Bartender, {"fill_scan", "fill_put"}) \in Nat
        /\ Count(Bartender, {"fill_scan", "fill_put"})' = Count(Bartender, {"fill_scan", "fill_put"})
              + Ind("fill_P" \in {"fill_scan", "fill_put"}) - Ind(pc[b] \in {"fill_scan", "fill_put"})
    BY <1>1, <1>2, BartenderCounts
  <2>2. /\ Count(Bartender, {"fill_scan", "fill_put"})' = Count(Bartender, {"fill_scan", "fill_put"})
        /\ Count(Customer, {"return_V"})' = Count(Customer, {"return_V"})
    BY <1>2, <2>1, <1>3, <1>a, <1>c, <1>x DEF Ind
  <2>3. Cardinality(Found(glasses, 0))' = Cardinality(Found(glasses, 0))
    BY <1>2 DEF Found
  <2> QED BY <1>1, <1>2, <2>1, <2>2, <2>3 DEF GlassesCounted, BarTypes
<1>13. ndrinkers' = Cardinality(Drinking)'
  <2>1. Drinking' = Drinking
    BY <1>1, <1>2, <1>3, <1>a, <1>c, <1>x, BarSizes DEF Drinking
  <2> QED BY <1>1, <1>2, <2>1
<1> QED BY <1>2, <1>4, <1>5, <1>6, <1>7, <1>8, <1>9, <1>10, <1>11, <1>12, <1>13 DEF BarInv

\* fill_order: P(emptyglasses).
LEMMA fill_PInv ==
    ASSUME BarInv, NEW b \in Bartender, fill_P(b)
    PROVE  BarInv'
<1>1. /\ BarTypes /\ ~fault /\ SlotsOwned /\ OrdersTaken /\ GlassesOwned /\ MineOK /\ GlassesFilled
      /\ OrderedOK /\ OrdersCounted /\ GlassesCounted /\ ndrinkers = Cardinality(Drinking)
  BY DEF BarInv
<1>2. /\ pc[b] = "fill_P" /\ pc' = [pc EXCEPT ![b] = "fill_scan"]
      /\ emptyglasses' = emptyglasses - 1 /\ emptyglasses > 0
      /\ UNCHANGED <<orders, glasses, ndrinkers, ordersready, ordercomplete, orderslock,
                     glassarraylock, slot, mine, dummy, poured, fault>>
  BY <1>1 DEF fill_P, At, Goto, sems, locks, locals
<1>3. /\ b \in Thread /\ pc'[b] = "fill_scan" /\ \A u \in Thread \ {b} : pc'[u] = pc[u]
  BY <1>1, <1>2, BarSizes DEF BarTypes
<1>4. BarTypes'
  <2>1. pc' \in [Thread -> Labels]
    BY <1>1, <1>2, <1>3 DEF BarTypes, Labels, HasSlot, Fills
  <2>2. orders' \in [Slot -> OrderRecord] /\ glasses' \in [Glass -> GlassRecord]
    BY <1>1, <1>2, <1>3 DEF BarTypes
  <2>3. /\ ndrinkers' \in Nat /\ emptyglasses' \in Nat /\ ordersready' \in Nat
    BY <1>1, <1>2 DEF BarTypes
  <2>4. /\ ordercomplete' \in [Slot -> 0..1] /\ slot' \in [Thread -> Slot]
        /\ mine' \in [Thread -> Glass \cup {NONE}]
        /\ dummy' \in [Customer -> 0..NBartenders] /\ poured' \in [Bartender -> 0..3]
    BY <1>1, <1>2, <1>3 DEF BarTypes
  <2> QED BY <2>1, <2>2, <2>3, <2>4 DEF BarTypes
<1>5. SlotsOwned'
  BY <1>1, <1>2, <1>3, BarSizes DEF SlotsOwned, HasSlot, BarTypes
<1>6. OrdersTaken'
  BY <1>1, <1>2, <1>3, BarSizes DEF OrdersTaken, Fills, BarTypes
<1>7. GlassesOwned'
  <2>1. \A i \in Slot : \A h : GlassAt(i, h)' => GlassAt(i, h)
    BY <1>1, <1>2, <1>3, BarSizes DEF GlassAt, HasGlass, Given, BarTypes
  <2> QED BY <1>1, <1>2, <1>3, <2>1 DEF GlassesOwned
<1>8. MineOK'
  BY <1>1, <1>2, <1>3, BarSizes DEF MineOK, HasGlass, Given, BarTypes
<1>9. GlassesFilled'
  <2>1. \A e \in Bartender : pc[e] = "pour_write" /\ e # b => Left(e)' = Left(e)
    BY <1>1, <1>2, <1>3, BarSizes DEF Left, BarTypes
  <2> QED BY <1>1, <1>2, <1>3, <2>1, BarSizes DEF GlassesFilled, Empty, BarTypes
<1>10. OrderedOK'
  BY <1>1, <1>2, <1>3, BarSizes DEF OrderedOK, Ingredients, BarTypes
<1>11. OrdersCounted'
  <2>1. /\ Count(Customer, {"submit_V"}) \in Nat
        /\ Count(Customer, {"submit_V"})' = Count(Customer, {"submit_V"})
        /\ Count(Bartender, {"take_scan", "take_put"}) \in Nat
        /\ Count(Bartender, {"take_scan", "take_put"})' = Count(Bartender, {"take_scan", "take_put"})
              + Ind("fill_scan" \in {"take_scan", "take_put"}) - Ind(pc[b] \in {"take_scan", "take_put"})
    BY <1>1, <1>2, BartenderCounts
  <2>2. /\ Count(Bartender, {"take_scan", "take_put"})' = Count(Bartender, {"take_scan", "take_put"})
        /\ Count(Customer, {"submit_V"})' = Count(Customer, {"submit_V"})
    BY <1>2, <2>1, <1>3 DEF Ind
  <2>3. Cardinality(Found(orders, 1))' = Cardinality(Found(orders, 1))
    BY <1>2 DEF Found
  <2> QED BY <1>1, <1>2, <2>1, <2>2, <2>3 DEF OrdersCounted, BarTypes
<1>12. GlassesCounted'
  <2>1. /\ Count(Customer, {"return_V"}) \in Nat
        /\ Count(Customer, {"return_V"})' = Count(Customer, {"return_V"})
        /\ Count(Bartender, {"fill_scan", "fill_put"}) \in Nat
        /\ Count(Bartender, {"fill_scan", "fill_put"})' = Count(Bartender, {"fill_scan", "fill_put"})
              + Ind("fill_scan" \in {"fill_scan", "fill_put"}) - Ind(pc[b] \in {"fill_scan", "fill_put"})
    BY <1>1, <1>2, BartenderCounts
  <2>2. /\ Count(Bartender, {"fill_scan", "fill_put"})' = Count(Bartender, {"fill_scan", "fill_put"}) + 1
        /\ Count(Customer, {"return_V"})' = Count(Customer, {"return_V"})
    BY <1>2, <2>1, <1>3 DEF Ind
  <2>3. Cardinality(Found(glasses, 0))' = Cardinality(Found(glasses, 0))
    BY <1>2 DEF Found
  <2> QED BY <1>1, <1>2, <2>1, <2>2, <2>3 DEF GlassesCounted, BarTypes
<1>13. ndrinkers' = Cardinality(Drinking)'
  <2>1. Drinking' = Drinking
    BY <1>1, <1>2, <1>3, BarSizes DEF Drinking
  <2> QED BY <1>1, <1>2, <2>1
<1> QED BY <1>2, <1>4, <1>5, <1>6, <1>7, <1>8, <1>9, <1>10, <1>11, <1>12, <1>13 DEF BarInv

\* fill_order: the scan finds an empty glass.
LEMMA fill_scanInv ==
    ASSUME BarInv, NEW b \in Bartender, fill_scan(b)
    PROVE  BarInv'
<1>1. /\ BarTypes /\ ~fault /\ SlotsOwned /\ OrdersTaken /\ GlassesOwned /\ MineOK /\ GlassesFilled
      /\ OrderedOK /\ OrdersCounted /\ GlassesCounted /\ ndrinkers = Cardinality(Drinking)
  BY DEF BarInv
<1>a. PICK g \in Glass : g = First(glasses, 0) /\ glasses[g].state = 0
  BY <1>1, OrderAndGlass, ScanFinds DEF fill_scan, At
<1>2. /\ pc[b] = "fill_scan" /\ pc' = [pc EXCEPT ![b] = "fill_put"]
      /\ glassarraylock = NONE /\ glassarraylock' = b
      /\ mine' = [mine EXCEPT ![b] = g]
      /\ UNCHANGED <<orders, glasses, ndrinkers, emptyglasses, ordersready, ordercomplete,
                     orderslock, slot, dummy, poured, fault>>
  BY <1>1, <1>a, OrderAndGlass DEF fill_scan, At, Goto, sems, locks, locals
<1>3. /\ b \in Thread /\ pc'[b] = "fill_put" /\ \A u \in Thread \ {b} : pc'[u] = pc[u]
      /\ mine'[b] = g /\ \A u \in Thread \ {b} : mine'[u] = mine[u]
  BY <1>1, <1>2, <1>a, OrderAndGlass, BarSizes DEF BarTypes
<1>4. BarTypes'
  <2>1. pc' \in [Thread -> Labels]
    BY <1>1, <1>2, <1>3, <1>a, OrderAndGlass DEF BarTypes, Labels, HasSlot, Fills
  <2>2. orders' \in [Slot -> OrderRecord] /\ glasses' \in [Glass -> GlassRecord]
    BY <1>1, <1>2, <1>3, <1>a, OrderAndGlass DEF BarTypes
  <2>3. /\ ndrinkers' \in Nat /\ emptyglasses' \in Nat /\ ordersready' \in Nat
    BY <1>1, <1>2 DEF BarTypes
  <2>4. /\ ordercomplete' \in [Slot -> 0..1] /\ slot' \in [Thread -> Slot]
        /\ mine' \in [Thread -> Glass \cup {NONE}]
        /\ dummy' \in [Customer -> 0..NBartenders] /\ poured' \in [Bartender -> 0..3]
    BY <1>1, <1>2, <1>3, <1>a, OrderAndGlass DEF BarTypes
  <2> QED BY <2>1, <2>2, <2>3, <2>4 DEF BarTypes
<1>5. SlotsOwned'
  BY <1>1, <1>2, <1>3, <1>a, OrderAndGlass, BarSizes DEF SlotsOwned, HasSlot, BarTypes
<1>6. OrdersTaken'
  BY <1>1, <1>2, <1>3, <1>a, OrderAndGlass, BarSizes DEF OrdersTaken, Fills, BarTypes
<1>7. GlassesOwned'
  <2>1. \A i \in Slot : \A h : GlassAt(i, h)' => GlassAt(i, h)
    BY <1>1, <1>2, <1>3, <1>a, OrderAndGlass, BarSizes DEF GlassAt, HasGlass, Given, BarTypes
  <2> QED BY <1>1, <1>2, <1>3, <1>a, OrderAndGlass, <2>1 DEF GlassesOwned
<1>8. MineOK'
  BY <1>1, <1>2, <1>3, <1>a, OrderAndGlass, BarSizes DEF MineOK, HasGlass, Given, BarTypes
<1>9. GlassesFilled'
  <2>1. \A e \in Bartender : pc[e] = "pour_write" /\ e # b => Left(e)' = Left(e)
    BY <1>1, <1>2, <1>3, <1>a, OrderAndGlass, BarSizes DEF Left, BarTypes
  <2> QED BY <1>1, <1>2, <1>3, <1>a, OrderAndGlass, <2>1, BarSizes
          DEF GlassesFilled, Empty, BarTypes
<1>10. OrderedOK'
  BY <1>1, <1>2, <1>3, <1>a, OrderAndGlass, BarSizes DEF OrderedOK, Ingredients, BarTypes
<1>11. OrdersCounted'
  <2>1. /\ Count(Customer, {"submit_V"}) \in Nat
        /\ Count(Customer, {"submit_V"})' = Count(Customer, {"submit_V"})
        /\ Count(Bartender, {"take_scan", "take_put"}) \in Nat
        /\ Count(Bartender, {"take_scan", "take_put"})' = Count(Bartender, {"take_scan", "take_put"})
              + Ind("fill_put" \in {"take_scan", "take_put"}) - Ind(pc[b] \in {"take_scan", "take_put"})
    BY <1>1, <1>2, BartenderCounts
  <2>2. /\ Count(Bartender, {"take_scan", "take_put"})' = Count(Bartender, {"take_scan", "take_put"})
        /\ Count(Customer, {"submit_V"})' = Count(Customer, {"submit_V"})
    BY <1>2, <2>1, <1>3, <1>a, OrderAndGlass DEF Ind
  <2>3. Cardinality(Found(orders, 1))' = Cardinality(Found(orders, 1))
    BY <1>2 DEF Found
  <2> QED BY <1>1, <1>2, <2>1, <2>2, <2>3 DEF OrdersCounted, BarTypes
<1>12. GlassesCounted'
  <2>1. /\ Count(Customer, {"return_V"}) \in Nat
        /\ Count(Customer, {"return_V"})' = Count(Customer, {"return_V"})
        /\ Count(Bartender, {"fill_scan", "fill_put"}) \in Nat
        /\ Count(Bartender, {"fill_scan", "fill_put"})' = Count(Bartender, {"fill_scan", "fill_put"})
              + Ind("fill_put" \in {"fill_scan", "fill_put"}) - Ind(pc[b] \in {"fill_scan", "fill_put"})
    BY <1>1, <1>2, BartenderCounts
  <2>2. /\ Count(Bartender, {"fill_scan", "fill_put"})' = Count(Bartender, {"fill_scan", "fill_put"})
        /\ Count(Customer, {"return_V"})' = Count(Customer, {"return_V"})
    BY <1>2, <2>1, <1>3, <1>a, OrderAndGlass DEF Ind
  <2>3. Cardinality(Found(glasses, 0))' = Cardinality(Found(glasses, 0))
    BY <1>2 DEF Found
  <2> QED BY <1>1, <1>2, <2>1, <2>2, <2>3 DEF GlassesCounted, BarTypes
<1>13. ndrinkers' = Cardinality(Drinking)'
  <2>1. Drinking' = Drinking
    BY <1>1, <1>2, <1>3, <1>a, OrderAndGlass, BarSizes DEF Drinking
  <2> QED BY <1>1, <1>2, <2>1
<1> QED BY <1>2, <1>4, <1>5, <1>6, <1>7, <1>8, <1>9, <1>10, <1>11, <1>12, <1>13 DEF BarInv

\* fill_order: the glass is in use.
LEMMA fill_putInv ==
    ASSUME BarInv, NEW b \in Bartender, fill_put(b)
    PROVE  BarInv'
<1>1. /\ BarTypes /\ ~fault /\ SlotsOwned /\ OrdersTaken /\ GlassesOwned /\ MineOK /\ GlassesFilled
      /\ OrderedOK /\ OrdersCounted /\ GlassesCounted /\ ndrinkers = Cardinality(Drinking)
  BY DEF BarInv
<1>d. PICK g \in Glass : g = mine[b]
  BY <1>1 DEF fill_put, At, MineOK
<1>e. PICK q : q = [glasses[g] EXCEPT !.state = 1]
  OBVIOUS
<1>f. q \in GlassRecord /\ q.contents = glasses[g].contents /\ q.state = 1 /\ q.ordernumber = glasses[g].ordernumber
  <2>1. glasses[g] \in GlassRecord
    BY <1>1, <1>d DEF BarTypes
  <2>2. {0, 1} \subseteq 0..1 /\ {0, 1, 2, 3} \subseteq 0..3
    OBVIOUS
  <2> QED BY <1>1, <1>d, <1>e, <2>1, <2>2 DEF BarTypes, GlassRecord
<1>2. /\ pc[b] = "fill_put" /\ pc' = [pc EXCEPT ![b] = "fill_glass"]
      /\ glasses' = [glasses EXCEPT ![g] = q]
      /\ glassarraylock' = NONE
      /\ UNCHANGED <<orders, ndrinkers, emptyglasses, ordersready, ordercomplete, orderslock,
                     slot, mine, dummy, poured, fault>>
  BY <1>1, <1>d, <1>f, <1>e DEF fill_put, At, Goto, sems, locks, locals
<1>3. /\ b \in Thread /\ pc'[b] = "fill_glass" /\ \A u \in Thread \ {b} : pc'[u] = pc[u]
      /\ glasses'[g] = q /\ \A i \in Glass \ {g} : glasses'[i] = glasses[i]
  BY <1>1, <1>2, <1>d, <1>f, BarSizes DEF BarTypes
<1>x. glasses[g].state = 0 /\ \A e \in Bartender \ {b} : pc[e] # "fill_put" 
  BY <1>1, <1>2, <1>3, <1>d, <1>f, BarSizes
  DEF SlotsOwned, OrdersTaken, MineOK, HasSlot, Fills, HasGlass, Given, BarTypes
<1>4. BarTypes'
  <2>1. pc' \in [Thread -> Labels]
    BY <1>1, <1>2, <1>3, <1>d, <1>f, <1>x DEF BarTypes, Labels, HasSlot, Fills
  <2>2. orders' \in [Slot -> OrderRecord] /\ glasses' \in [Glass -> GlassRecord]
    BY <1>1, <1>2, <1>3, <1>d, <1>f, <1>x DEF BarTypes
  <2>3. /\ ndrinkers' \in Nat /\ emptyglasses' \in Nat /\ ordersready' \in Nat
    BY <1>1, <1>2 DEF BarTypes
  <2>4. /\ ordercomplete' \in [Slot -> 0..1] /\ slot' \in [Thread -> Slot]
        /\ mine' \in [Thread -> Glass \cup {NONE}]
        /\ dummy' \in [Customer -> 0..NBartenders] /\ poured' \in [Bartender -> 0..3]
    BY <1>1, <1>2, <1>3, <1>d, <1>f, <1>x DEF BarTypes
  <2> QED BY <2>1, <2>2, <2>3, <2>4 DEF BarTypes
<1>5. SlotsOwned'
  BY <1>1, <1>2, <1>3, <1>d, <1>f, <1>x, BarSizes DEF SlotsOwned, HasSlot, BarTypes
<1>6. OrdersTaken'
  BY <1>1, <1>2, <1>3, <1>d, <1>f, <1>x, BarSizes DEF OrdersTaken, Fills, BarTypes
<1>7. GlassesOwned'
  <2>1. \A i \in Slot : \A h : GlassAt(i, h)' => GlassAt(i, h) \/ (i = slot[b] /\ h = g)
    BY <1>1, <1>2, <1>3, <1>d, <1>f, <1>x, BarSizes DEF GlassAt, HasGlass, Given, BarTypes
  <2>2. \A i \in Slot : ~GlassAt(i, g)
    BY <1>1, <1>d, <1>x DEF GlassesOwned
  <2> QED BY <1>1, <1>3, <1>d, <1>f, <2>1, <2>2 DEF GlassesOwned
<1>8. MineOK'
  BY <1>1, <1>2, <1>3, <1>d, <1>f, <1>x, Alone, BarSizes DEF MineOK, HasGlass, Given, BarTypes
<1>9. GlassesFilled'
  <2>1. \A e \in Bartender : pc[e] = "pour_write" /\ e # b => Left(e)' = Left(e)
    BY <1>1, <1>2, <1>3, <1>d, <1>f, <1>x, BarSizes DEF Left, BarTypes
  <2> QED BY <1>1, <1>2, <1>3, <1>d, <1>f, <1>x, Alone, <2>1, BarSizes
          DEF GlassesFilled, Empty, BarTypes, HasGlass, Given
<1>10. OrderedOK'
  BY <1>1, <1>2, <1>3, <1>d, <1>f, <1>x, BarSizes DEF OrderedOK, Ingredients, BarTypes
<1>11. OrdersCounted'
  <2>1. /\ Count(Customer, {"submit_V"}) \in Nat
        /\ Count(Customer, {"submit_V"})' = Count(Customer, {"submit_V"})
        /\ Count(Bartender, {"take_scan", "take_put"}) \in Nat
        /\ Count(Bartender, {"take_scan", "take_put"})' = Count(Bartender, {"take_scan", "take_put"})
              + Ind("fill_glass" \in {"take_scan", "take_put"}) - Ind(pc[b] \in {"take_scan", "take_put"})
    BY <1>1, <1>2, BartenderCounts
  <2>2. /\ Count(Bartender, {"take_scan", "take_put"})' = Count(Bartender, {"take_scan", "take_put"})
        /\ Count(Customer, {"submit_V"})' = Count(Customer, {"submit_V"})
    BY <1>2, <2>1, <1>3, <1>d, <1>f, <1>x DEF Ind
  <2>3. Cardinality(Found(orders, 1))' = Cardinality(Found(orders, 1))
    BY <1>2 DEF Found
  <2> QED BY <1>1, <1>2, <2>1, <2>2, <2>3 DEF OrdersCounted, BarTypes
<1>12. GlassesCounted'
  <2>1. /\ Count(Customer, {"return_V"}) \in Nat
        /\ Count(Customer, {"return_V"})' = Count(Customer, {"return_V"})
        /\ Count(Bartender, {"fill_scan", "fill_put"}) \in Nat
        /\ Count(Bartender, {"fill_scan", "fill_put"})' = Count(Bartender, {"fill_scan", "fill_put"})
              + Ind("fill_glass" \in {"fill_scan", "fill_put"}) - Ind(pc[b] \in {"fill_scan", "fill_put"})
    BY <1>1, <1>2, BartenderCounts
  <2>2. /\ Count(Bartender, {"fill_scan", "fill_put"})' = Count(Bartender, {"fill_scan", "fill_put"}) - 1
        /\ Count(Customer, {"return_V"})' = Count(Customer, {"return_V"})
    BY <1>2, <2>1, <1>3, <1>d, <1>f, <1>x DEF Ind
  <2>3. /\ Cardinality(Found(glasses, 0)) \in Nat
        /\ Cardinality(Found(glasses, 0))' = Cardinality(Found(glasses, 0))
              + Ind(glasses'[g].state = 0) - Ind(glasses[g].state = 0)
    BY <1>1, <1>2, <1>3, <1>d, <1>f, <1>x, <1>4, GlassesStep
  <2> QED BY <1>1, <1>2, <1>3, <1>d, <1>f, <1>x, <2>1, <2>2, <2>3
          DEF GlassesCounted, BarTypes, SlotsOwned, OrdersTaken, MineOK, Ind
<1>13. ndrinkers' = Cardinality(Drinking)'
  <2>1. Drinking' = Drinking
    BY <1>1, <1>2, <1>3, <1>d, <1>f, <1>x, BarSizes DEF Drinking
  <2> QED BY <1>1, <1>2, <2>1
<1> QED BY <1>2, <1>4, <1>5, <1>6, <1>7, <1>8, <1>9, <1>10, <1>11, <1>12, <1>13 DEF BarInv

\* fill_order: the order has the glass.
LEMMA fill_glassInv ==
    ASSUME BarInv, NEW b \in Bartender, fill_glass(b)
    PROVE  BarInv'
<1>1. /\ BarTypes /\ ~fault /\ SlotsOwned /\ OrdersTaken /\ GlassesOwned /\ MineOK /\ GlassesFilled
      /\ OrderedOK /\ OrdersCounted /\ GlassesCounted /\ ndrinkers = Cardinality(Drinking)
  BY DEF BarInv
<1>a. PICK s \in Slot : s = slot[b]
  BY <1>1, BarSizes DEF BarTypes
<1>b. PICK r : r = [orders[s] EXCEPT !.glass = mine[b]]
  OBVIOUS
<1>c. r \in OrderRecord /\ r.ing = orders[s].ing /\ r.glass = mine[b] /\ r.state = orders[s].state
  <2>1. orders[s] \in OrderRecord
    BY <1>1, <1>a DEF BarTypes
  <2>2. {0, 1} \subseteq 0..1 /\ {0, 1, 2, 3} \subseteq 0..3
    OBVIOUS
  <2> QED BY <1>1, <1>a, <1>b, <2>1, <2>2, BarSizes DEF BarTypes, OrderRecord
<1>2. /\ pc[b] = "fill_glass" /\ pc' = [pc EXCEPT ![b] = "fill_bottles"]
      /\ orders' = [orders EXCEPT ![s] = r]
      /\ UNCHANGED <<glasses, ndrinkers, emptyglasses, ordersready, ordercomplete, orderslock,
                     glassarraylock, slot, mine, dummy, poured, fault>>
  BY <1>1, <1>a, <1>c, <1>b DEF fill_glass, At, Goto, sems, locks, locals
<1>3. /\ b \in Thread /\ pc'[b] = "fill_bottles" /\ \A u \in Thread \ {b} : pc'[u] = pc[u]
      /\ orders'[s] = r /\ \A i \in Slot \ {s} : orders'[i] = orders[i]
  BY <1>1, <1>2, <1>a, <1>c, BarSizes DEF BarTypes
<1>x. /\ \A e \in Bartender \ {b} : pc[e] \in Fills \cup {"take_put"} => slot[e] # s
      /\ \A d \in Customer : pc[d] \in (HasSlot \ {"submit_V", "submit_P"}) \cup {"submit_put"} => slot[d] # s
      /\ \A i \in Slot : ordercomplete[i] = 1 => i # s
      /\ orders[s].state = 2
  BY <1>1, <1>2, <1>3, <1>a, <1>c, BarSizes
  DEF SlotsOwned, OrdersTaken, MineOK, HasSlot, Fills, HasGlass, Given, BarTypes
<1>4. BarTypes'
  <2>1. pc' \in [Thread -> Labels]
    BY <1>1, <1>2, <1>3, <1>a, <1>c, <1>x DEF BarTypes, Labels, HasSlot, Fills
  <2>2. orders' \in [Slot -> OrderRecord] /\ glasses' \in [Glass -> GlassRecord]
    BY <1>1, <1>2, <1>3, <1>a, <1>c, <1>x DEF BarTypes
  <2>3. /\ ndrinkers' \in Nat /\ emptyglasses' \in Nat /\ ordersready' \in Nat
    BY <1>1, <1>2 DEF BarTypes
  <2>4. /\ ordercomplete' \in [Slot -> 0..1] /\ slot' \in [Thread -> Slot]
        /\ mine' \in [Thread -> Glass \cup {NONE}]
        /\ dummy' \in [Customer -> 0..NBartenders] /\ poured' \in [Bartender -> 0..3]
    BY <1>1, <1>2, <1>3, <1>a, <1>c, <1>x DEF BarTypes
  <2> QED BY <2>1, <2>2, <2>3, <2>4 DEF BarTypes
<1>5. SlotsOwned'
  BY <1>1, <1>2, <1>3, <1>a, <1>c, <1>x, BarSizes DEF SlotsOwned, HasSlot, BarTypes
<1>6. OrdersTaken'
  BY <1>1, <1>2, <1>3, <1>a, <1>c, <1>x, BarSizes DEF OrdersTaken, Fills, BarTypes
<1>7. GlassesOwned'
  <2>1. \A i \in Slot : \A h : GlassAt(i, h)' => GlassAt(i, h)
    BY <1>1, <1>2, <1>3, <1>a, <1>c, <1>x, BarSizes DEF GlassAt, HasGlass, Given, BarTypes
  <2> QED BY <1>1, <1>2, <1>3, <1>a, <1>c, <1>x, <2>1 DEF GlassesOwned
<1>8. MineOK'
  BY <1>1, <1>2, <1>3, <1>a, <1>c, <1>x, BarSizes DEF Fills, MineOK, HasGlass, Given, BarTypes
<1>9. GlassesFilled'
  <2>1. \A e \in Bartender : pc[e] = "pour_write" /\ e # b => Left(e)' = Left(e)
    BY <1>1, <1>2, <1>3, <1>a, <1>c, <1>x, BarSizes DEF Left, BarTypes
  <2> QED BY <1>1, <1>2, <1>3, <1>a, <1>c, <1>x, <2>1, BarSizes
          DEF GlassesFilled, Empty, BarTypes
<1>10. OrderedOK'
  BY <1>1, <1>2, <1>3, <1>a, <1>c, <1>x, BarSizes DEF OrderedOK, Ingredients, BarTypes
<1>11. OrdersCounted'
  <2>1. /\ Count(Customer, {"submit_V"}) \in Nat
        /\ Count(Customer, {"submit_V"})' = Count(Customer, {"submit_V"})
        /\ Count(Bartender, {"take_scan", "take_put"}) \in Nat
        /\ Count(Bartender, {"take_scan", "take_put"})' = Count(Bartender, {"take_scan", "take_put"})
              + Ind("fill_bottles" \in {"take_scan", "take_put"}) - Ind(pc[b] \in {"take_scan", "take_put"})
    BY <1>1, <1>2, BartenderCounts
  <2>2. /\ Count(Bartender, {"take_scan", "take_put"})' = Count(Bartender, {"take_scan", "take_put"})
        /\ Count(Customer, {"submit_V"})' = Count(Customer, {"submit_V"})
    BY <1>2, <2>1, <1>3, <1>a, <1>c, <1>x DEF Ind
  <2>3. /\ Cardinality(Found(orders, 1)) \in Nat
        /\ Cardinality(Found(orders, 1))' = Cardinality(Found(orders, 1))
              + Ind(orders'[s].state = 1) - Ind(orders[s].state = 1)
    BY <1>1, <1>2, <1>3, <1>a, <1>c, <1>x, <1>4, OrdersStep
  <2> QED BY <1>1, <1>2, <1>3, <1>a, <1>c, <1>x, <2>1, <2>2, <2>3
          DEF OrdersCounted, BarTypes, SlotsOwned, OrdersTaken, MineOK, Ind
<1>12. GlassesCounted'
  <2>1. /\ Count(Customer, {"return_V"}) \in Nat
        /\ Count(Customer, {"return_V"})' = Count(Customer, {"return_V"})
        /\ Count(Bartender, {"fill_scan", "fill_put"}) \in Nat
        /\ Count(Bartender, {"fill_scan", "fill_put"})' = Count(Bartender, {"fill_scan", "fill_put"})
              + Ind("fill_bottles" \in {"fill_scan", "fill_put"}) - Ind(pc[b] \in {"fill_scan", "fill_put"})
    BY <1>1, <1>2, BartenderCounts
  <2>2. /\ Count(Bartender, {"fill_scan", "fill_put"})' = Count(Bartender, {"fill_scan", "fill_put"})
        /\ Count(Customer, {"return_V"})' = Count(Customer, {"return_V"})
    BY <1>2, <2>1, <1>3, <1>a, <1>c, <1>x DEF Ind
  <2>3. Cardinality(Found(glasses, 0))' = Cardinality(Found(glasses, 0))
    BY <1>2 DEF Found
  <2> QED BY <1>1, <1>2, <2>1, <2>2, <2>3 DEF GlassesCounted, BarTypes
<1>13. ndrinkers' = Cardinality(Drinking)'
  <2>1. Drinking' = Drinking
    BY <1>1, <1>2, <1>3, <1>a, <1>c, <1>x, BarSizes DEF Drinking
  <2> QED BY <1>1, <1>2, <2>1
<1> QED BY <1>2, <1>4, <1>5, <1>6, <1>7, <1>8, <1>9, <1>10, <1>11, <1>12, <1>13 DEF BarInv

\* fill_order: the bottles.
LEMMA fill_bottlesInv ==
    ASSUME BarInv, NEW b \in Bartender, fill_bottles(b)
    PROVE  BarInv'
<1>1. /\ BarTypes /\ ~fault /\ SlotsOwned /\ OrdersTaken /\ GlassesOwned /\ MineOK /\ GlassesFilled
      /\ OrderedOK /\ OrdersCounted /\ GlassesCounted /\ ndrinkers = Cardinality(Drinking)
  BY DEF BarInv
<1>y. Poured(glasses[mine[b]].contents, orders[slot[b]].ing, 0)
  <2>1. PICK con : con = glasses[mine[b]].contents
    OBVIOUS
  <2>2. PICK ing : ing = orders[slot[b]].ing
    OBVIOUS
  <2>3. con \in Triple /\ ing \in Triple
    BY <1>1, <2>1, <2>2, Alone, BarSizes
    DEF BarTypes, HasGlass, OrderRecord, GlassRecord, fill_bottles, At
  <2>4. \A p \in 1..3 : con[p] = NOTHING
    BY <1>1, <2>1 DEF GlassesFilled, Empty, fill_bottles, At
  <2> QED BY <2>1, <2>2, <2>3, <2>4, PourSteps
<1>2. /\ pc[b] = "fill_bottles" /\ pc' = [pc EXCEPT ![b] = "pour"]
      /\ poured' = [poured EXCEPT ![b] = 0]
      /\ UNCHANGED <<orders, glasses, ndrinkers, emptyglasses, ordersready, ordercomplete,
                     orderslock, glassarraylock, slot, mine, dummy, fault>>
  BY <1>1, <1>y DEF fill_bottles, At, Goto, sems, locks, locals
<1>3. /\ b \in Thread /\ pc'[b] = "pour" /\ \A u \in Thread \ {b} : pc'[u] = pc[u]
      /\ poured'[b] = 0 /\ \A e \in Bartender \ {b} : poured'[e] = poured[e]
  BY <1>1, <1>2, <1>y, BarSizes DEF BarTypes
<1>4. BarTypes'
  <2>1. pc' \in [Thread -> Labels]
    BY <1>1, <1>2, <1>3, <1>y DEF BarTypes, Labels, HasSlot, Fills
  <2>2. orders' \in [Slot -> OrderRecord] /\ glasses' \in [Glass -> GlassRecord]
    BY <1>1, <1>2, <1>3, <1>y DEF BarTypes
  <2>3. /\ ndrinkers' \in Nat /\ emptyglasses' \in Nat /\ ordersready' \in Nat
    BY <1>1, <1>2 DEF BarTypes
  <2>4. /\ ordercomplete' \in [Slot -> 0..1] /\ slot' \in [Thread -> Slot]
        /\ mine' \in [Thread -> Glass \cup {NONE}]
        /\ dummy' \in [Customer -> 0..NBartenders] /\ poured' \in [Bartender -> 0..3]
    BY <1>1, <1>2, <1>3, <1>y DEF BarTypes
  <2> QED BY <2>1, <2>2, <2>3, <2>4 DEF BarTypes
<1>5. SlotsOwned'
  BY <1>1, <1>2, <1>3, <1>y, BarSizes DEF SlotsOwned, HasSlot, BarTypes
<1>6. OrdersTaken'
  BY <1>1, <1>2, <1>3, <1>y, BarSizes DEF OrdersTaken, Fills, BarTypes
<1>7. GlassesOwned'
  <2>1. \A i \in Slot : \A h : GlassAt(i, h)' => GlassAt(i, h)
    BY <1>1, <1>2, <1>3, <1>y, BarSizes DEF GlassAt, HasGlass, Given, BarTypes
  <2> QED BY <1>1, <1>2, <1>3, <1>y, <2>1 DEF GlassesOwned
<1>8. MineOK'
  BY <1>1, <1>2, <1>3, <1>y, BarSizes DEF MineOK, HasGlass, Given, BarTypes
<1>9. GlassesFilled'
  <2>1. \A e \in Bartender : pc[e] = "pour_write" /\ e # b => Left(e)' = Left(e)
    BY <1>1, <1>2, <1>3, <1>y, BarSizes DEF Left, BarTypes
  <2> QED BY <1>1, <1>2, <1>3, <1>y, <2>1, BarSizes DEF GlassesFilled, Empty, BarTypes
<1>10. OrderedOK'
  BY <1>1, <1>2, <1>3, <1>y, BarSizes DEF OrderedOK, Ingredients, BarTypes
<1>11. OrdersCounted'
  <2>1. /\ Count(Customer, {"submit_V"}) \in Nat
        /\ Count(Customer, {"submit_V"})' = Count(Customer, {"submit_V"})
        /\ Count(Bartender, {"take_scan", "take_put"}) \in Nat
        /\ Count(Bartender, {"take_scan", "take_put"})' = Count(Bartender, {"take_scan", "take_put"})
              + Ind("pour" \in {"take_scan", "take_put"}) - Ind(pc[b] \in {"take_scan", "take_put"})
    BY <1>1, <1>2, BartenderCounts
  <2>2. /\ Count(Bartender, {"take_scan", "take_put"})' = Count(Bartender, {"take_scan", "take_put"})
        /\ Count(Customer, {"submit_V"})' = Count(Customer, {"submit_V"})
    BY <1>2, <2>1, <1>3, <1>y DEF Ind
  <2>3. Cardinality(Found(orders, 1))' = Cardinality(Found(orders, 1))
    BY <1>2 DEF Found
  <2> QED BY <1>1, <1>2, <2>1, <2>2, <2>3 DEF OrdersCounted, BarTypes
<1>12. GlassesCounted'
  <2>1. /\ Count(Customer, {"return_V"}) \in Nat
        /\ Count(Customer, {"return_V"})' = Count(Customer, {"return_V"})
        /\ Count(Bartender, {"fill_scan", "fill_put"}) \in Nat
        /\ Count(Bartender, {"fill_scan", "fill_put"})' = Count(Bartender, {"fill_scan", "fill_put"})
              + Ind("pour" \in {"fill_scan", "fill_put"}) - Ind(pc[b] \in {"fill_scan", "fill_put"})
    BY <1>1, <1>2, BartenderCounts
  <2>2. /\ Count(Bartender, {"fill_scan", "fill_put"})' = Count(Bartender, {"fill_scan", "fill_put"})
        /\ Count(Customer, {"return_V"})' = Count(Customer, {"return_V"})
    BY <1>2, <2>1, <1>3, <1>y DEF Ind
  <2>3. Cardinality(Found(glasses, 0))' = Cardinality(Found(glasses, 0))
    BY <1>2 DEF Found
  <2> QED BY <1>1, <1>2, <2>1, <2>2, <2>3 DEF GlassesCounted, BarTypes
<1>13. ndrinkers' = Cardinality(Drinking)'
  <2>1. Drinking' = Drinking
    BY <1>1, <1>2, <1>3, <1>y, BarSizes DEF Drinking
  <2> QED BY <1>1, <1>2, <2>1
<1> QED BY <1>2, <1>4, <1>5, <1>6, <1>7, <1>8, <1>9, <1>10, <1>11, <1>12, <1>13 DEF BarInv

\* pour: the next ingredient.
LEMMA pour_readInv ==
    ASSUME BarInv, NEW b \in Bartender, pour_read(b)
    PROVE  BarInv'
<1>1. /\ BarTypes /\ ~fault /\ SlotsOwned /\ OrdersTaken /\ GlassesOwned /\ MineOK /\ GlassesFilled
      /\ OrderedOK /\ OrdersCounted /\ GlassesCounted /\ ndrinkers = Cardinality(Drinking)
  BY DEF BarInv
<1>i. PICK k \in 1..3 : k = Min(Left(b)) /\ k \in Left(b) /\ \A x \in Left(b) : k <= x
  <2>1. Left(b) \in SUBSET (1..3) /\ Left(b) # {}
    BY <1>1 DEF Left, BarTypes, pour_read
  <2> QED BY <2>1, MinIn
<1>j. PICK z : z = [glasses[mine[b]].contents EXCEPT ![Place(b)] = orders[slot[b]].ing[k]]
  OBVIOUS
<1>k. z \in Triple /\ Poured(z, orders[slot[b]].ing, k)
  <2>c. PICK con : con = glasses[mine[b]].contents
    OBVIOUS
  <2>i. PICK ing : ing = orders[slot[b]].ing
    OBVIOUS
  <2>1. /\ mine[b] \in Glass /\ slot[b] \in Slot /\ poured[b] \in 0..3
        /\ ing \in Triple /\ con \in Triple
    BY <1>1, <2>c, <2>i, Alone, BarSizes
    DEF pour_read, At, HasGlass, BarTypes, OrderRecord, GlassRecord
  <2>2. PICK j \in 0..3 : j = poured[b] /\ Poured(con, ing, j)
    BY <1>1, <2>1, <2>c, <2>i DEF pour_read, At, GlassesFilled
  <2>3. Left(b) = {x \in (j + 1)..3 : ing[x] # NOTHING}
    BY <2>2, <2>i DEF Left
  <2>4. Place(b) = 1 + Places(ing, j)
    BY <2>2, <2>i DEF Place, Places
  <2>5. j < k /\ ing[k] # NOTHING /\ k \in 0..3
        /\ \A x \in (j + 1)..3 : ing[x] # NOTHING => k <= x
    BY <1>i, <2>2, <2>3
  <2>6. 1 + Places(ing, j) \in 1..3 /\ Poured([con EXCEPT ![1 + Places(ing, j)] = ing[k]], ing, k)
    BY <2>1, <2>2, <2>5, PourSteps
  <2>7. z = [con EXCEPT ![1 + Places(ing, j)] = ing[k]]
    BY <1>j, <2>4, <2>c, <2>i
  <2>8. z \in Triple
    <3>1. PICK p \in 1..3 : z = [con EXCEPT ![p] = ing[k]]
      BY <2>6, <2>7
    <3> QED BY <2>1, <3>1 DEF Triple
  <2> QED BY <2>6, <2>7, <2>8, <2>i
<1>d. PICK g \in Glass : g = mine[b]
  BY <1>1, Alone DEF pour_read, At, HasGlass
<1>e. PICK q : q = [glasses[g] EXCEPT !.contents = z]
  OBVIOUS
<1>f. q \in GlassRecord /\ q.contents = z /\ q.state = glasses[g].state /\ q.ordernumber = glasses[g].ordernumber
  <2>1. glasses[g] \in GlassRecord
    BY <1>1, <1>d DEF BarTypes
  <2>2. {0, 1} \subseteq 0..1 /\ {0, 1, 2, 3} \subseteq 0..3
    OBVIOUS
  <2> QED BY <1>1, <1>d, <1>e, <2>1, <2>2, <1>k DEF BarTypes, GlassRecord
<1>2. /\ pc[b] = "pour" /\ pc' = [pc EXCEPT ![b] = "pour_write"]
      /\ glasses' = [glasses EXCEPT ![g] = q]
      /\ UNCHANGED <<orders, ndrinkers, emptyglasses, ordersready, ordercomplete, orderslock,
                     glassarraylock, slot, mine, dummy, poured, fault>>
  BY <1>1, <1>d, <1>f, <1>k, <1>e, <1>i, <1>j DEF pour_read, At, Goto, sems, locks, locals
<1>3. /\ b \in Thread /\ pc'[b] = "pour_write" /\ \A u \in Thread \ {b} : pc'[u] = pc[u]
      /\ glasses'[g] = q /\ \A i \in Glass \ {g} : glasses'[i] = glasses[i]
  BY <1>1, <1>2, <1>d, <1>f, <1>k, BarSizes DEF BarTypes
<1>x. /\ glasses[g].state = 1 /\ k = Min(Left(b)) /\ Left(b) # {} /\ Left(b)' = Left(b)
  <2>1. Left(b)' = Left(b)
    BY <1>2 DEF Left
  <2> QED BY <1>1, <1>2, <1>d, <1>i, <2>1, Alone DEF HasGlass
<1>4. BarTypes'
  <2>1. pc' \in [Thread -> Labels]
    BY <1>1, <1>2, <1>3, <1>d, <1>f, <1>k, <1>x DEF BarTypes, Labels, HasSlot, Fills
  <2>2. orders' \in [Slot -> OrderRecord] /\ glasses' \in [Glass -> GlassRecord]
    BY <1>1, <1>2, <1>3, <1>d, <1>f, <1>k, <1>x DEF BarTypes
  <2>3. /\ ndrinkers' \in Nat /\ emptyglasses' \in Nat /\ ordersready' \in Nat
    BY <1>1, <1>2 DEF BarTypes
  <2>4. /\ ordercomplete' \in [Slot -> 0..1] /\ slot' \in [Thread -> Slot]
        /\ mine' \in [Thread -> Glass \cup {NONE}]
        /\ dummy' \in [Customer -> 0..NBartenders] /\ poured' \in [Bartender -> 0..3]
    BY <1>1, <1>2, <1>3, <1>d, <1>f, <1>k, <1>x DEF BarTypes
  <2> QED BY <2>1, <2>2, <2>3, <2>4 DEF BarTypes
<1>5. SlotsOwned'
  BY <1>1, <1>2, <1>3, <1>d, <1>f, <1>k, <1>x, BarSizes DEF SlotsOwned, HasSlot, BarTypes
<1>6. OrdersTaken'
  BY <1>1, <1>2, <1>3, <1>d, <1>f, <1>k, <1>x, BarSizes DEF OrdersTaken, Fills, BarTypes
<1>7. GlassesOwned'
  <2>1. \A i \in Slot : \A h : GlassAt(i, h)' => GlassAt(i, h)
    BY <1>1, <1>2, <1>3, <1>d, <1>f, <1>k, <1>x, BarSizes DEF GlassAt, HasGlass, Given, BarTypes
  <2> QED BY <1>1, <1>2, <1>3, <1>d, <1>f, <1>k, <1>x, Alone, <2>1 DEF GlassesOwned, BarTypes
<1>8. MineOK'
  BY <1>1, <1>2, <1>3, <1>d, <1>f, <1>k, <1>x, Alone, BarSizes
  DEF MineOK, HasGlass, Given, BarTypes
<1>9. GlassesFilled'
  <2>1. \A e \in Bartender : pc[e] = "pour_write" /\ e # b => Left(e)' = Left(e)
    BY <1>1, <1>2, <1>3, <1>d, <1>f, <1>k, <1>x, BarSizes DEF Left, BarTypes
  <2> QED BY <1>1, <1>2, <1>3, <1>d, <1>f, <1>k, <1>x, Alone, <2>1, BarSizes
          DEF GlassesFilled, Empty, BarTypes, HasGlass, Given
<1>10. OrderedOK'
  BY <1>1, <1>2, <1>3, <1>d, <1>f, <1>k, <1>x, BarSizes DEF OrderedOK, Ingredients, BarTypes
<1>11. OrdersCounted'
  <2>1. /\ Count(Customer, {"submit_V"}) \in Nat
        /\ Count(Customer, {"submit_V"})' = Count(Customer, {"submit_V"})
        /\ Count(Bartender, {"take_scan", "take_put"}) \in Nat
        /\ Count(Bartender, {"take_scan", "take_put"})' = Count(Bartender, {"take_scan", "take_put"})
              + Ind("pour_write" \in {"take_scan", "take_put"}) - Ind(pc[b] \in {"take_scan", "take_put"})
    BY <1>1, <1>2, BartenderCounts
  <2>2. /\ Count(Bartender, {"take_scan", "take_put"})' = Count(Bartender, {"take_scan", "take_put"})
        /\ Count(Customer, {"submit_V"})' = Count(Customer, {"submit_V"})
    BY <1>2, <2>1, <1>3, <1>d, <1>f, <1>k, <1>x DEF Ind
  <2>3. Cardinality(Found(orders, 1))' = Cardinality(Found(orders, 1))
    BY <1>2 DEF Found
  <2> QED BY <1>1, <1>2, <2>1, <2>2, <2>3 DEF OrdersCounted, BarTypes
<1>12. GlassesCounted'
  <2>1. /\ Count(Customer, {"return_V"}) \in Nat
        /\ Count(Customer, {"return_V"})' = Count(Customer, {"return_V"})
        /\ Count(Bartender, {"fill_scan", "fill_put"}) \in Nat
        /\ Count(Bartender, {"fill_scan", "fill_put"})' = Count(Bartender, {"fill_scan", "fill_put"})
              + Ind("pour_write" \in {"fill_scan", "fill_put"}) - Ind(pc[b] \in {"fill_scan", "fill_put"})
    BY <1>1, <1>2, BartenderCounts
  <2>2. /\ Count(Bartender, {"fill_scan", "fill_put"})' = Count(Bartender, {"fill_scan", "fill_put"})
        /\ Count(Customer, {"return_V"})' = Count(Customer, {"return_V"})
    BY <1>2, <2>1, <1>3, <1>d, <1>f, <1>k, <1>x DEF Ind
  <2>3. /\ Cardinality(Found(glasses, 0)) \in Nat
        /\ Cardinality(Found(glasses, 0))' = Cardinality(Found(glasses, 0))
              + Ind(glasses'[g].state = 0) - Ind(glasses[g].state = 0)
    BY <1>1, <1>2, <1>3, <1>d, <1>f, <1>k, <1>x, <1>4, GlassesStep
  <2> QED BY <1>1, <1>2, <1>3, <1>d, <1>f, <1>k, <1>x, <2>1, <2>2, <2>3
          DEF GlassesCounted, BarTypes, SlotsOwned, OrdersTaken, MineOK, Ind
<1>13. ndrinkers' = Cardinality(Drinking)'
  <2>1. Drinking' = Drinking
    BY <1>1, <1>2, <1>3, <1>d, <1>f, <1>k, <1>x, BarSizes DEF Drinking
  <2> QED BY <1>1, <1>2, <2>1
<1> QED BY <1>2, <1>4, <1>5, <1>6, <1>7, <1>8, <1>9, <1>10, <1>11, <1>12, <1>13 DEF BarInv

\* pour: the dose is counted.
LEMMA pour_writeInv ==
    ASSUME BarInv, NEW b \in Bartender, pour_write(b)
    PROVE  BarInv'
<1>1. /\ BarTypes /\ ~fault /\ SlotsOwned /\ OrdersTaken /\ GlassesOwned /\ MineOK /\ GlassesFilled
      /\ OrderedOK /\ OrdersCounted /\ GlassesCounted /\ ndrinkers = Cardinality(Drinking)
  BY DEF BarInv
<1>i. PICK k \in 0..3 : k = Min(Left(b))
  <2>1. Left(b) # {}
    BY <1>1 DEF pour_write, At, GlassesFilled
  <2>2. Left(b) \in SUBSET (1..3)
    BY <1>1 DEF Left, BarTypes
  <2> QED BY <2>1, <2>2, MinIn
<1>2. /\ pc[b] = "pour_write" /\ pc' = [pc EXCEPT ![b] = "pour"]
      /\ poured' = [poured EXCEPT ![b] = k]
      /\ UNCHANGED <<orders, glasses, ndrinkers, emptyglasses, ordersready, ordercomplete,
                     orderslock, glassarraylock, slot, mine, dummy, fault>>
  BY <1>1, <1>i DEF pour_write, At, Goto, sems, locks, locals
<1>3. /\ b \in Thread /\ pc'[b] = "pour" /\ \A u \in Thread \ {b} : pc'[u] = pc[u]
      /\ poured'[b] = k /\ \A e \in Bartender \ {b} : poured'[e] = poured[e]
  BY <1>1, <1>2, <1>i, BarSizes DEF BarTypes
<1>4. BarTypes'
  <2>1. pc' \in [Thread -> Labels]
    BY <1>1, <1>2, <1>3, <1>i DEF BarTypes, Labels, HasSlot, Fills
  <2>2. orders' \in [Slot -> OrderRecord] /\ glasses' \in [Glass -> GlassRecord]
    BY <1>1, <1>2, <1>3, <1>i DEF BarTypes
  <2>3. /\ ndrinkers' \in Nat /\ emptyglasses' \in Nat /\ ordersready' \in Nat
    BY <1>1, <1>2 DEF BarTypes
  <2>4. /\ ordercomplete' \in [Slot -> 0..1] /\ slot' \in [Thread -> Slot]
        /\ mine' \in [Thread -> Glass \cup {NONE}]
        /\ dummy' \in [Customer -> 0..NBartenders] /\ poured' \in [Bartender -> 0..3]
    BY <1>1, <1>2, <1>3, <1>i DEF BarTypes
  <2> QED BY <2>1, <2>2, <2>3, <2>4 DEF BarTypes
<1>5. SlotsOwned'
  BY <1>1, <1>2, <1>3, <1>i, BarSizes DEF SlotsOwned, HasSlot, BarTypes
<1>6. OrdersTaken'
  BY <1>1, <1>2, <1>3, <1>i, BarSizes DEF OrdersTaken, Fills, BarTypes
<1>7. GlassesOwned'
  <2>1. \A i \in Slot : \A h : GlassAt(i, h)' => GlassAt(i, h)
    BY <1>1, <1>2, <1>3, <1>i, BarSizes DEF GlassAt, HasGlass, Given, BarTypes
  <2> QED BY <1>1, <1>2, <1>3, <1>i, <2>1 DEF GlassesOwned
<1>8. MineOK'
  BY <1>1, <1>2, <1>3, <1>i, BarSizes DEF MineOK, HasGlass, Given, BarTypes
<1>9. GlassesFilled'
  <2>1. \A e \in Bartender : pc[e] = "pour_write" /\ e # b => Left(e)' = Left(e)
    BY <1>1, <1>2, <1>3, <1>i, BarSizes DEF Left, BarTypes
  <2> QED BY <1>1, <1>2, <1>3, <1>i, <2>1, BarSizes DEF GlassesFilled, Empty, BarTypes
<1>10. OrderedOK'
  BY <1>1, <1>2, <1>3, <1>i, BarSizes DEF OrderedOK, Ingredients, BarTypes
<1>11. OrdersCounted'
  <2>1. /\ Count(Customer, {"submit_V"}) \in Nat
        /\ Count(Customer, {"submit_V"})' = Count(Customer, {"submit_V"})
        /\ Count(Bartender, {"take_scan", "take_put"}) \in Nat
        /\ Count(Bartender, {"take_scan", "take_put"})' = Count(Bartender, {"take_scan", "take_put"})
              + Ind("pour" \in {"take_scan", "take_put"}) - Ind(pc[b] \in {"take_scan", "take_put"})
    BY <1>1, <1>2, BartenderCounts
  <2>2. /\ Count(Bartender, {"take_scan", "take_put"})' = Count(Bartender, {"take_scan", "take_put"})
        /\ Count(Customer, {"submit_V"})' = Count(Customer, {"submit_V"})
    BY <1>2, <2>1, <1>3, <1>i DEF Ind
  <2>3. Cardinality(Found(orders, 1))' = Cardinality(Found(orders, 1))
    BY <1>2 DEF Found
  <2> QED BY <1>1, <1>2, <2>1, <2>2, <2>3 DEF OrdersCounted, BarTypes
<1>12. GlassesCounted'
  <2>1. /\ Count(Customer, {"return_V"}) \in Nat
        /\ Count(Customer, {"return_V"})' = Count(Customer, {"return_V"})
        /\ Count(Bartender, {"fill_scan", "fill_put"}) \in Nat
        /\ Count(Bartender, {"fill_scan", "fill_put"})' = Count(Bartender, {"fill_scan", "fill_put"})
              + Ind("pour" \in {"fill_scan", "fill_put"}) - Ind(pc[b] \in {"fill_scan", "fill_put"})
    BY <1>1, <1>2, BartenderCounts
  <2>2. /\ Count(Bartender, {"fill_scan", "fill_put"})' = Count(Bartender, {"fill_scan", "fill_put"})
        /\ Count(Customer, {"return_V"})' = Count(Customer, {"return_V"})
    BY <1>2, <2>1, <1>3, <1>i DEF Ind
  <2>3. Cardinality(Found(glasses, 0))' = Cardinality(Found(glasses, 0))
    BY <1>2 DEF Found
  <2> QED BY <1>1, <1>2, <2>1, <2>2, <2>3 DEF GlassesCounted, BarTypes
<1>13. ndrinkers' = Cardinality(Drinking)'
  <2>1. Drinking' = Drinking
    BY <1>1, <1>2, <1>3, <1>i, BarSizes DEF Drinking
  <2> QED BY <1>1, <1>2, <2>1
<1> QED BY <1>2, <1>4, <1>5, <1>6, <1>7, <1>8, <1>9, <1>10, <1>11, <1>12, <1>13 DEF BarInv

\* fill_order: the glass is filled.
LEMMA fill_doneInv ==
    ASSUME BarInv, NEW b \in Bartender, fill_done(b)
    PROVE  BarInv'
<1>1. /\ BarTypes /\ ~fault /\ SlotsOwned /\ OrdersTaken /\ GlassesOwned /\ MineOK /\ GlassesFilled
      /\ OrderedOK /\ OrdersCounted /\ GlassesCounted /\ ndrinkers = Cardinality(Drinking)
  BY DEF BarInv
<1>i. Poured(glasses[mine[b]].contents, orders[slot[b]].ing, 3)
  <2>1. /\ mine[b] \in Glass /\ slot[b] \in Slot /\ poured[b] \in 0..3
        /\ orders[slot[b]].ing \in Triple /\ glasses[mine[b]].contents \in Triple
    BY <1>1, Alone, BarSizes DEF fill_done, At, HasGlass, BarTypes, OrderRecord, GlassRecord
  <2>2. Poured(glasses[mine[b]].contents, orders[slot[b]].ing, poured[b])
    BY <1>1 DEF fill_done, At, GlassesFilled
  <2>3. \A x \in (poured[b] + 1)..3 : orders[slot[b]].ing[x] = NOTHING
    BY DEF Left, fill_done
  <2> QED BY <2>1, <2>2, <2>3, PourSteps
<1>2. /\ pc[b] = "pour" /\ pc' = [pc EXCEPT ![b] = "serve"]
      /\ UNCHANGED <<orders, glasses, ndrinkers, emptyglasses, ordersready, ordercomplete,
                     orderslock, glassarraylock, slot, mine, dummy, poured, fault>>
  BY <1>1, <1>i DEF fill_done, At, Goto, sems, locks, locals
<1>3. /\ b \in Thread /\ pc'[b] = "serve" /\ \A u \in Thread \ {b} : pc'[u] = pc[u]
  BY <1>1, <1>2, <1>i, BarSizes DEF BarTypes
<1>4. BarTypes'
  <2>1. pc' \in [Thread -> Labels]
    BY <1>1, <1>2, <1>3, <1>i DEF BarTypes, Labels, HasSlot, Fills
  <2>2. orders' \in [Slot -> OrderRecord] /\ glasses' \in [Glass -> GlassRecord]
    BY <1>1, <1>2, <1>3, <1>i DEF BarTypes
  <2>3. /\ ndrinkers' \in Nat /\ emptyglasses' \in Nat /\ ordersready' \in Nat
    BY <1>1, <1>2 DEF BarTypes
  <2>4. /\ ordercomplete' \in [Slot -> 0..1] /\ slot' \in [Thread -> Slot]
        /\ mine' \in [Thread -> Glass \cup {NONE}]
        /\ dummy' \in [Customer -> 0..NBartenders] /\ poured' \in [Bartender -> 0..3]
    BY <1>1, <1>2, <1>3, <1>i DEF BarTypes
  <2> QED BY <2>1, <2>2, <2>3, <2>4 DEF BarTypes
<1>5. SlotsOwned'
  BY <1>1, <1>2, <1>3, <1>i, BarSizes DEF SlotsOwned, HasSlot, BarTypes
<1>6. OrdersTaken'
  BY <1>1, <1>2, <1>3, <1>i, BarSizes DEF OrdersTaken, Fills, BarTypes
<1>7. GlassesOwned'
  <2>1. \A i \in Slot : \A h : GlassAt(i, h)' => GlassAt(i, h)
    BY <1>1, <1>2, <1>3, <1>i, BarSizes DEF GlassAt, HasGlass, Given, BarTypes
  <2> QED BY <1>1, <1>2, <1>3, <1>i, <2>1 DEF GlassesOwned
<1>8. MineOK'
  BY <1>1, <1>2, <1>3, <1>i, BarSizes DEF MineOK, HasGlass, Given, BarTypes
<1>9. GlassesFilled'
  <2>1. \A e \in Bartender : pc[e] = "pour_write" /\ e # b => Left(e)' = Left(e)
    BY <1>1, <1>2, <1>3, <1>i, BarSizes DEF Left, BarTypes
  <2> QED BY <1>1, <1>2, <1>3, <1>i, <2>1, BarSizes DEF GlassesFilled, Empty, BarTypes
<1>10. OrderedOK'
  BY <1>1, <1>2, <1>3, <1>i, BarSizes DEF OrderedOK, Ingredients, BarTypes
<1>11. OrdersCounted'
  <2>1. /\ Count(Customer, {"submit_V"}) \in Nat
        /\ Count(Customer, {"submit_V"})' = Count(Customer, {"submit_V"})
        /\ Count(Bartender, {"take_scan", "take_put"}) \in Nat
        /\ Count(Bartender, {"take_scan", "take_put"})' = Count(Bartender, {"take_scan", "take_put"})
              + Ind("serve" \in {"take_scan", "take_put"}) - Ind(pc[b] \in {"take_scan", "take_put"})
    BY <1>1, <1>2, BartenderCounts
  <2>2. /\ Count(Bartender, {"take_scan", "take_put"})' = Count(Bartender, {"take_scan", "take_put"})
        /\ Count(Customer, {"submit_V"})' = Count(Customer, {"submit_V"})
    BY <1>2, <2>1, <1>3, <1>i DEF Ind
  <2>3. Cardinality(Found(orders, 1))' = Cardinality(Found(orders, 1))
    BY <1>2 DEF Found
  <2> QED BY <1>1, <1>2, <2>1, <2>2, <2>3 DEF OrdersCounted, BarTypes
<1>12. GlassesCounted'
  <2>1. /\ Count(Customer, {"return_V"}) \in Nat
        /\ Count(Customer, {"return_V"})' = Count(Customer, {"return_V"})
        /\ Count(Bartender, {"fill_scan", "fill_put"}) \in Nat
        /\ Count(Bartender, {"fill_scan", "fill_put"})' = Count(Bartender, {"fill_scan", "fill_put"})
              + Ind("serve" \in {"fill_scan", "fill_put"}) - Ind(pc[b] \in {"fill_scan", "fill_put"})
    BY <1>1, <1>2, BartenderCounts
  <2>2. /\ Count(Bartender, {"fill_scan", "fill_put"})' = Count(Bartender, {"fill_scan", "fill_put"})
        /\ Count(Customer, {"return_V"})' = Count(Customer, {"return_V"})
    BY <1>2, <2>1, <1>3, <1>i DEF Ind
  <2>3. Cardinality(Found(glasses, 0))' = Cardinality(Found(glasses, 0))
    BY <1>2 DEF Found
  <2> QED BY <1>1, <1>2, <2>1, <2>2, <2>3 DEF GlassesCounted, BarTypes
<1>13. ndrinkers' = Cardinality(Drinking)'
  <2>1. Drinking' = Drinking
    BY <1>1, <1>2, <1>3, <1>i, BarSizes DEF Drinking
  <2> QED BY <1>1, <1>2, <2>1
<1> QED BY <1>2, <1>4, <1>5, <1>6, <1>7, <1>8, <1>9, <1>10, <1>11, <1>12, <1>13 DEF BarInv

\* serve_order: the order is complete.
LEMMA serve_orderInv ==
    ASSUME BarInv, NEW b \in Bartender, serve_order(b)
    PROVE  BarInv'
<1>1. /\ BarTypes /\ ~fault /\ SlotsOwned /\ OrdersTaken /\ GlassesOwned /\ MineOK /\ GlassesFilled
      /\ OrderedOK /\ OrdersCounted /\ GlassesCounted /\ ndrinkers = Cardinality(Drinking)
  BY DEF BarInv
<1>a. PICK s \in Slot : s = slot[b] /\ ordercomplete[s] = 0
  BY <1>1, BarSizes DEF BarTypes, serve_order, At, OrdersTaken, Fills
<1>2. /\ pc[b] = "serve" /\ pc' = [pc EXCEPT ![b] = "while"]
      /\ s = slot[b] /\ ordercomplete[s] = 0 /\ ordercomplete' = [ordercomplete EXCEPT ![s] = 1]
      /\ mine' = [mine EXCEPT ![b] = NONE]
      /\ UNCHANGED <<orders, glasses, ndrinkers, emptyglasses, ordersready, orderslock,
                     glassarraylock, slot, dummy, poured, fault>>
  BY <1>1, <1>a DEF serve_order, At, Goto, sems, locks, locals
<1>3. /\ b \in Thread /\ pc'[b] = "while" /\ \A u \in Thread \ {b} : pc'[u] = pc[u]
      /\ ordercomplete'[s] = 1 /\ \A i \in Slot \ {s} : ordercomplete'[i] = ordercomplete[i]
      /\ mine'[b] = NONE /\ \A u \in Thread \ {b} : mine'[u] = mine[u]
  BY <1>1, <1>2, <1>a, BarSizes DEF BarTypes
<1>x. /\ \A e \in Bartender \ {b} : pc[e] \in Fills \cup {"take_put"} => slot[e] # s
      /\ \A d \in Customer : pc[d] \in (HasSlot \ {"submit_V", "submit_P"}) \cup {"submit_put"} => slot[d] # s
      /\ \A i \in Slot : ordercomplete[i] = 1 => i # s
      /\ orders[s].state = 2 /\ orders[s].glass = mine[b] /\ pc[b] \in HasGlass
  BY <1>1, <1>2, <1>3, <1>a, BarSizes
  DEF SlotsOwned, OrdersTaken, MineOK, HasSlot, Fills, HasGlass, Given, BarTypes
<1>4. BarTypes'
  <2>1. pc' \in [Thread -> Labels]
    BY <1>1, <1>2, <1>3, <1>a, <1>x DEF BarTypes, Labels, HasSlot, Fills
  <2>2. orders' \in [Slot -> OrderRecord] /\ glasses' \in [Glass -> GlassRecord]
    BY <1>1, <1>2, <1>3, <1>a, <1>x DEF BarTypes
  <2>3. /\ ndrinkers' \in Nat /\ emptyglasses' \in Nat /\ ordersready' \in Nat
    BY <1>1, <1>2 DEF BarTypes
  <2>4. /\ ordercomplete' \in [Slot -> 0..1] /\ slot' \in [Thread -> Slot]
        /\ mine' \in [Thread -> Glass \cup {NONE}]
        /\ dummy' \in [Customer -> 0..NBartenders] /\ poured' \in [Bartender -> 0..3]
    BY <1>1, <1>2, <1>3, <1>a, <1>x DEF BarTypes
  <2> QED BY <2>1, <2>2, <2>3, <2>4 DEF BarTypes
<1>5. SlotsOwned'
  BY <1>1, <1>2, <1>3, <1>a, <1>x, BarSizes DEF SlotsOwned, HasSlot, BarTypes
<1>6. OrdersTaken'
  BY <1>1, <1>2, <1>3, <1>a, <1>x, BarSizes DEF OrdersTaken, Fills, BarTypes
<1>7. GlassesOwned'
  <2>1. \A i \in Slot : \A h : GlassAt(i, h)' => GlassAt(i, h)
    BY <1>1, <1>2, <1>3, <1>a, <1>x, BarSizes DEF GlassAt, HasGlass, Given, BarTypes
  <2> QED BY <1>1, <1>2, <1>3, <1>a, <1>x, <2>1 DEF GlassesOwned
<1>8. MineOK'
  BY <1>1, <1>2, <1>3, <1>a, <1>x, BarSizes DEF MineOK, HasGlass, Given, BarTypes
<1>9. GlassesFilled'
  <2>1. \A e \in Bartender : pc[e] = "pour_write" /\ e # b => Left(e)' = Left(e)
    BY <1>1, <1>2, <1>3, <1>a, <1>x, BarSizes DEF Left, BarTypes
  <2> QED BY <1>1, <1>2, <1>3, <1>a, <1>x, <2>1, BarSizes DEF GlassesFilled, Empty, BarTypes
<1>10. OrderedOK'
  BY <1>1, <1>2, <1>3, <1>a, <1>x, BarSizes DEF OrderedOK, Ingredients, BarTypes
<1>11. OrdersCounted'
  <2>1. /\ Count(Customer, {"submit_V"}) \in Nat
        /\ Count(Customer, {"submit_V"})' = Count(Customer, {"submit_V"})
        /\ Count(Bartender, {"take_scan", "take_put"}) \in Nat
        /\ Count(Bartender, {"take_scan", "take_put"})' = Count(Bartender, {"take_scan", "take_put"})
              + Ind("while" \in {"take_scan", "take_put"}) - Ind(pc[b] \in {"take_scan", "take_put"})
    BY <1>1, <1>2, BartenderCounts
  <2>2. /\ Count(Bartender, {"take_scan", "take_put"})' = Count(Bartender, {"take_scan", "take_put"})
        /\ Count(Customer, {"submit_V"})' = Count(Customer, {"submit_V"})
    BY <1>2, <2>1, <1>3, <1>a, <1>x DEF Ind
  <2>3. Cardinality(Found(orders, 1))' = Cardinality(Found(orders, 1))
    BY <1>2 DEF Found
  <2> QED BY <1>1, <1>2, <2>1, <2>2, <2>3 DEF OrdersCounted, BarTypes
<1>12. GlassesCounted'
  <2>1. /\ Count(Customer, {"return_V"}) \in Nat
        /\ Count(Customer, {"return_V"})' = Count(Customer, {"return_V"})
        /\ Count(Bartender, {"fill_scan", "fill_put"}) \in Nat
        /\ Count(Bartender, {"fill_scan", "fill_put"})' = Count(Bartender, {"fill_scan", "fill_put"})
              + Ind("while" \in {"fill_scan", "fill_put"}) - Ind(pc[b] \in {"fill_scan", "fill_put"})
    BY <1>1, <1>2, BartenderCounts
  <2>2. /\ Count(Bartender, {"fill_scan", "fill_put"})' = Count(Bartender, {"fill_scan", "fill_put"})
        /\ Count(Customer, {"return_V"})' = Count(Customer, {"return_V"})
    BY <1>2, <2>1, <1>3, <1>a, <1>x DEF Ind
  <2>3. Cardinality(Found(glasses, 0))' = Cardinality(Found(glasses, 0))
    BY <1>2 DEF Found
  <2> QED BY <1>1, <1>2, <2>1, <2>2, <2>3 DEF GlassesCounted, BarTypes
<1>13. ndrinkers' = Cardinality(Drinking)'
  <2>1. Drinking' = Drinking
    BY <1>1, <1>2, <1>3, <1>a, <1>x, BarSizes DEF Drinking
  <2> QED BY <1>1, <1>2, <2>1
<1> QED BY <1>2, <1>4, <1>5, <1>6, <1>7, <1>8, <1>9, <1>10, <1>11, <1>12, <1>13 DEF BarInv

\* createbar changes nothing that the invariant is about, nor does a step that
\* leaves every variable.
LEMMA CreatebarInv ==
    ASSUME BarInv, createbar \/ UNCHANGED vars
    PROVE  BarInv'
<1>1. UNCHANGED <<orders, glasses, ndrinkers, emptyglasses, ordersready, ordercomplete,
                  orderslock, glassarraylock, pc, slot, mine, dummy, poured, fault>>
  BY DEF createbar, vars, sems, locks, locals
<1>2. BarTypes' /\ ~fault'
  BY <1>1 DEF BarInv, BarTypes
<1>3. SlotsOwned' /\ OrdersTaken'
  BY <1>1 DEF BarInv, SlotsOwned, OrdersTaken
<1>4. GlassesOwned' /\ MineOK'
  BY <1>1 DEF BarInv, GlassesOwned, GlassAt, MineOK
<1>5. GlassesFilled' /\ OrderedOK'
  BY <1>1 DEF BarInv, GlassesFilled, Empty, Left, OrderedOK, Ingredients
<1>6. OrdersCounted' /\ GlassesCounted' /\ ndrinkers' = Cardinality(Drinking)'
  BY <1>1 DEF BarInv, OrdersCounted, GlassesCounted, Count, Found, Drinking
<1> QED BY <1>2, <1>3, <1>4, <1>5, <1>6 DEF BarInv

\* bar_open: nobody has a slot or a glass, and the semaphores count the arrays.
LEMMA InitBarInv == Init => BarInv
<1> SUFFICES ASSUME Init PROVE BarInv
  OBVIOUS
<1>1. /\ \A c \in Customer : pc[c] = "submit" /\ mine[c] = NONE /\ dummy[c] = 0
      /\ \A b \in Bartender : pc[b] = "while" /\ mine[b] = NONE
      /\ \A i \in Slot : orders[i].state = 0 /\ ordercomplete[i] = 0
      /\ \A g \in Glass : glasses[g].state = 0 /\ glasses[g].contents = <<0, 0, 0>>
  BY BarSizes DEF Init
<1>2. PICK z : z = <<0, 0, 0>>
  OBVIOUS
<1>3. z \in Triple /\ \A p \in 1..3 : z[p] = NOTHING
  <2>1. 0 \in 0..(NBottles - 1)
    BY BarAssumption
  <2>2. z \in [1..3 -> {0}]
    BY <1>2
  <2> QED BY <2>1, <2>2 DEF Triple, NOTHING
<1>4. BarTypes
  <2>1. [ing |-> z, glass |-> NONE, state |-> 0] \in OrderRecord
    BY <1>3 DEF OrderRecord
  <2>2. [contents |-> z, state |-> 0, ordernumber |-> 0] \in GlassRecord
    BY <1>3, BarSizes DEF GlassRecord
  <2>3. orders \in [Slot -> OrderRecord] /\ glasses \in [Glass -> GlassRecord]
    BY <1>2, <2>1, <2>2 DEF Init
  <2>4. ndrinkers \in Nat /\ emptyglasses \in Nat /\ ordersready \in Nat
    BY BarSizes, BarAssumption DEF Init
  <2>5. {"submit", "while"} \subseteq Labels
    BY DEF Labels
  <2>6. pc \in [Thread -> Labels]
    BY <2>5 DEF Init
  <2>7. /\ ordercomplete \in [Slot -> 0..1] /\ slot \in [Thread -> Slot]
        /\ mine \in [Thread -> Glass \cup {NONE}]
    BY BarSizes DEF Init
  <2>8. dummy \in [Customer -> 0..NBartenders] /\ poured \in [Bartender -> 0..3]
    BY BarSizes DEF Init
  <2> QED BY <2>3, <2>4, <2>6, <2>7, <2>8 DEF BarTypes
<1>5. SlotsOwned /\ OrdersTaken
  BY <1>1 DEF SlotsOwned, OrdersTaken, HasSlot, Fills
<1>6. GlassesOwned /\ MineOK
  <2>1. \A i \in Slot : \A h : ~GlassAt(i, h)
    BY <1>1 DEF GlassAt, HasGlass, Given
  <2> QED BY <1>1, <2>1 DEF GlassesOwned, MineOK, HasGlass, Given
<1>7. GlassesFilled /\ OrderedOK
  <2>1. \A g \in Glass : Empty(g)
    BY <1>1, <1>2, <1>3 DEF Empty
  <2> QED BY <1>1, <2>1 DEF GlassesFilled, OrderedOK
<1>8. /\ Count(Bartender, {"take_scan", "take_put"}) = 0 /\ Count(Customer, {"submit_V"}) = 0
      /\ Count(Bartender, {"fill_scan", "fill_put"}) = 0 /\ Count(Customer, {"return_V"}) = 0
  <2>1. /\ {t \in Bartender : pc[t] \in {"take_scan", "take_put"}} = {}
        /\ {t \in Customer : pc[t] \in {"submit_V"}} = {}
        /\ {t \in Bartender : pc[t] \in {"fill_scan", "fill_put"}} = {}
        /\ {t \in Customer : pc[t] \in {"return_V"}} = {}
    BY <1>1
  <2> QED BY <2>1, FS_EmptySet DEF Count
<1>9. OrdersCounted /\ GlassesCounted
  <2>1. DOMAIN orders = Slot /\ DOMAIN glasses = Glass
    BY DEF Init
  <2>2. Found(orders, 1) = {} /\ Found(glasses, 0) = Glass
    BY <1>1, <2>1 DEF Found
  <2>3. Cardinality(Found(orders, 1)) = 0 /\ Cardinality(Found(glasses, 0)) = NGlasses
    BY <2>2, FS_EmptySet, BarSizes
  <2>4. ordersready = 0 /\ emptyglasses = NGlasses /\ NGlasses \in Nat
    BY BarAssumption DEF Init
  <2> QED BY <1>8, <2>3, <2>4 DEF OrdersCounted, GlassesCounted
<1>10. ndrinkers = Cardinality(Drinking)
  <2>1. Drinking = Customer
    BY <1>1 DEF Drinking
  <2> QED BY <2>1 DEF Init, NCustomers
<1>11. ~fault
  BY DEF Init
<1> QED BY <1>4, <1>5, <1>6, <1>7, <1>9, <1>10, <1>11 DEF BarInv

\* Every step of the bar preserves the invariant.
LEMMA NextBarInv == BarInv /\ [Next]_vars => BarInv'
<1> SUFFICES ASSUME BarInv, [Next]_vars PROVE BarInv'
  OBVIOUS
<1>1. CASE \E c \in Customer : customer(c)
  <2>1. PICK c \in Customer : customer(c)
    BY <1>1
  <2> QED BY <2>1,
           submit_scanInv, submit_putInv, submit_VInv, submit_PInv, submit_givenInv,
           drinkInv, return_glassInv, return_VInv, return_slotInv, crawl_homeInv,
           cgo_homeInv DEF customer
<1>2. CASE \E b \in Bartender : bartender(b)
  <2>1. PICK b \in Bartender : bartender(b)
    BY <1>2
  <2> QED BY <2>1,
           bgo_homeInv, drinkersInv, take_PInv, take_scanInv, take_putInv, fill_PInv,
           fill_scanInv, fill_putInv, fill_glassInv, fill_bottlesInv, pour_readInv,
           pour_writeInv, fill_doneInv, serve_orderInv DEF bartender
<1>3. CASE createbar \/ UNCHANGED vars
  BY <1>3, CreatebarInv
<1> QED BY <1>1, <1>2, <1>3 DEF Next

\* The invariant holds throughout: slots, orders and glasses have one owner, and
\* the semaphores count what the arrays hold.
THEOREM BarInvariant == Spec => []BarInv
  BY InitBarInv, NextBarInv, PTL DEF Spec

----------------------------------------------------------------------------
(* What follows for the bar *)

\* The semaphores stay within the arrays they count.
LEMMA CountsBounded ==
    ASSUME BarInv
    PROVE  /\ ordersready \in 0..NCustomers /\ emptyglasses \in 0..NGlasses
           /\ ndrinkers \in 0..NCustomers
<1>1. BarTypes /\ OrdersCounted /\ GlassesCounted /\ ndrinkers = Cardinality(Drinking)
  BY DEF BarInv
<1>2. \A S \in {Customer, Bartender} : \A L : Count(S, L) \in Nat
  <2> SUFFICES ASSUME NEW S \in {Customer, Bartender}, NEW L PROVE Count(S, L) \in Nat
    OBVIOUS
  <2>1. {t \in S : pc[t] \in L} \in SUBSET S /\ IsFiniteSet(S)
    BY BarSizes
  <2> QED BY <2>1, FS_Subset, FS_CardinalityType DEF Count
<1>3. /\ Cardinality(Found(orders, 1)) \in Nat /\ Cardinality(Found(orders, 1)) <= NCustomers
      /\ Cardinality(Found(glasses, 0)) \in Nat /\ Cardinality(Found(glasses, 0)) <= NGlasses
  <2>1. Found(orders, 1) \in SUBSET Slot /\ Found(glasses, 0) \in SUBSET Glass
    BY <1>1 DEF BarTypes, Found
  <2>2. IsFiniteSet(Found(orders, 1)) /\ IsFiniteSet(Found(glasses, 0))
    BY <2>1, BarSizes, FS_Subset
  <2>3. Cardinality(Found(orders, 1)) <= NCustomers /\ Cardinality(Found(glasses, 0)) <= NGlasses
    BY <2>1, BarSizes, FS_Subset
  <2> QED BY <2>2, <2>3, FS_CardinalityType
<1>4. Cardinality(Drinking) <= NCustomers
  <2>1. Drinking \in SUBSET Customer
    BY DEF Drinking
  <2> QED BY <2>1, BarSizes, FS_Subset DEF NCustomers
<1>5. ordersready \in Nat /\ emptyglasses \in Nat /\ ndrinkers \in Nat
  BY <1>1 DEF BarTypes
<1>6. ordersready <= NCustomers
  <2>1. Count(Bartender, {"take_scan", "take_put"}) \in Nat /\ Count(Customer, {"submit_V"}) \in Nat
    BY <1>2
  <2> QED BY <1>1, <1>3, <1>5, <2>1, BarSizes DEF OrdersCounted
<1>7. emptyglasses <= NGlasses
  <2>1. Count(Bartender, {"fill_scan", "fill_put"}) \in Nat /\ Count(Customer, {"return_V"}) \in Nat
    BY <1>2
  <2>2. NGlasses \in Nat
    BY BarAssumption
  <2> QED BY <1>1, <1>3, <1>5, <2>1, <2>2 DEF GlassesCounted
<1>8. NGlasses \in Nat /\ NCustomers \in Nat
  BY BarSizes, BarAssumption
<1> QED BY <1>1, <1>4, <1>5, <1>6, <1>7, <1>8

\* NoFault: whatever the number of customers, bartenders and glasses, submit_order
\* finds an unused slot, take_order does not panic, fill_order finds a glass, and
\* the semaphores keep their bounds.
THEOREM NobodyFaults == Spec => []NoFault
<1>1. BarInv => NoFault
  <2> SUFFICES ASSUME BarInv PROVE NoFault
    OBVIOUS
  <2>1. BarTypes /\ ~fault
    BY DEF BarInv
  <2>2. TypeOK
    BY <2>1, CountsBounded DEF TypeOK, BarTypes, OrderRecord, GlassRecord, Triple
  <2> QED BY <2>1, <2>2 DEF NoFault
<1> QED BY <1>1, BarInvariant, PTL

\* GlassExclusive: the threads that have a glass have different ones, and the
\* bartenders different orders.
THEOREM GlassesExclusive == Spec => []GlassExclusive
<1>1. BarInv => GlassExclusive
  <2> SUFFICES ASSUME BarInv, NEW t \in Thread, NEW u \in Thread, t # u
               PROVE  /\ /\ mine[t] # NONE /\ pc[t] \notin {"return_V", "return_slot"}
                         /\ pc[u] \notin {"return_V", "return_slot"}
                         => mine[t] # mine[u]
                      /\ {t, u} \subseteq Bartender /\ mine[t] # NONE /\ mine[u] # NONE
                         => slot[t] # slot[u]
    BY DEF GlassExclusive
  <2>1. BarTypes /\ MineOK /\ OrdersTaken
    BY DEF BarInv
  <2>2. \A b \in Bartender : mine[b] # NONE => pc[b] \in HasGlass \/ pc[b] = "fill_put"
    BY <2>1 DEF MineOK
  <2>3. \A c \in Customer : mine[c] # NONE /\ pc[c] \notin {"return_V", "return_slot"}
                            => pc[c] \in Given
    BY <2>1 DEF MineOK
  <2>4. /\ \A b \in Bartender : pc[b] = "fill_put" => glasses[mine[b]].state = 0
        /\ \A b, e \in Bartender : pc[b] = "fill_put" /\ pc[e] = "fill_put" => b = e
    BY <2>1 DEF MineOK
  <2>5. \A b, e \in Bartender : b # e /\ mine[b] # NONE /\ mine[e] # NONE
           => mine[b] # mine[e] /\ slot[b] # slot[e]
    <3>1. \A b, e \in Bartender : b # e /\ mine[b] # NONE /\ mine[e] # NONE => mine[b] # mine[e]
      BY <2>2, <2>4, Alone
    <3>2. \A b \in Bartender : mine[b] # NONE => pc[b] \in Fills
      BY <2>2 DEF HasGlass, Fills
    <3>3. \A b, e \in Bartender : b # e /\ mine[b] # NONE /\ mine[e] # NONE => slot[b] # slot[e]
      BY <2>1, <3>2 DEF OrdersTaken
    <3> QED BY <3>1, <3>3
  <2>6. \A b \in Bartender, c \in Customer :
           /\ mine[b] # NONE /\ mine[c] # NONE /\ pc[c] \notin {"return_V", "return_slot"}
           => mine[b] # mine[c]
    BY <2>2, <2>3, <2>4, Alone
  <2>7. \A c, d \in Customer :
           /\ c # d /\ mine[c] # NONE /\ pc[c] \notin {"return_V", "return_slot"}
           /\ mine[d] # NONE /\ pc[d] \notin {"return_V", "return_slot"}
           => mine[c] # mine[d]
    BY <2>3, Alone
  <2>8. CASE t \in Bartender /\ u \in Bartender
    BY <2>5, <2>8
  <2>9. CASE t \in Bartender /\ u \in Customer
    BY <2>6, <2>9, BarSizes
  <2>10. CASE t \in Customer /\ u \in Bartender
    BY <2>6, <2>10, BarSizes
  <2>11. CASE t \in Customer /\ u \in Customer
    BY <2>7, <2>11, BarSizes
  <2> QED BY <2>8, <2>9, <2>10, <2>11 DEF Thread
<1> QED BY <1>1, BarInvariant, PTL

\* RightDrink: what a customer is about to drink is the drink it ordered.
THEOREM DrinksAreRight == Spec => []RightDrink
<1>1. BarInv => RightDrink
  <2> SUFFICES ASSUME BarInv, NEW c \in Customer, pc[c] = "drink"
               PROVE  Poured(glasses[mine[c]].contents, Drink[c], 3)
    BY DEF RightDrink
  <2>1. Poured(glasses[mine[c]].contents, orders[slot[c]].ing, 3)
    BY DEF BarInv, GlassesFilled
  <2>2. orders[slot[c]].ing = Drink[c]
    <3>1. orders[slot[c]].ing = Ingredients(c) /\ dummy[c] = 0
      BY DEF BarInv, OrderedOK
    <3> QED BY <3>1 DEF Ingredients
  <2> QED BY <2>1, <2>2
<1> QED BY <1>1, BarInvariant, PTL

----------------------------------------------------------------------------
(* The doses *)

\* Where a customer's order is done with, and where its drink is being poured.
Completed == {"given", "drink", "return", "return_V", "return_slot"}
Pouring == {"pour", "pour_write"}

\* The k-th ingredient of the order in slot i is in its glass, with its dose counted.
SlotPoured(i, k) ==
    \/ ordercomplete[i] = 1
    \/ \E b \in Bartender :
         /\ slot[b] = i
         /\ \/ pc[b] = "serve"
            \/ pc[b] \in Pouring /\ k <= poured[b]

\* So it is for the k-th ingredient of the r-th drink of c.
DosePoured(c, r, k) ==
    \/ r <= round[c]
    \/ /\ r = round[c] + 1 /\ dummy[c] = 0
       /\ \/ pc[c] \in Completed
          \/ pc[c] \in {"submit_V", "submit_P"} /\ SlotPoured(slot[c], k)

\* The doses that were poured of bottle x.
PouredOf(x) == {d \in (Customer \X (1..3)) \X (1..Rounds) :
                  Drink[d[1][1]][d[1][2]] = x /\ DosePoured(d[1][1], d[2], d[1][2])}

DosesTypes ==
    /\ doses \in [0..(NBottles - 1) -> Nat] /\ reg \in [Bartender -> Nat]
    /\ round \in [Customer -> 0..Rounds] /\ waited \in Nat /\ alldone \in Nat

\* A customer orders its drinks until it has had Rounds of them, dummies and all
\* that follows afterwards.
RoundsOK ==
    \A c \in Customer :
       /\ pc[c] \in HasSlot \cup {"submit", "submit_put"} /\ dummy[c] = 0 => round[c] < Rounds
       /\ pc[c] \in {"crawl_home", "home", "gone"} \/ dummy[c] # 0 => round[c] = Rounds

\* Who pours holds the bottles, and the count it has read is still the one there.
BottlesHeld ==
    \A b \in Bartender :
       /\ pc[b] \in Pouring => bottleslock = b
       /\ pc[b] = "pour_write" => reg[b] = doses[orders[slot[b]].ing[Min(Left(b))]]

\* Those who have gone home have told createbar, which has counted some of them.
GoneCounted ==
    waited + alldone = Count(Customer, {"gone"}) + Count(Bartender, {"gone"})

DosesCounted == \A x \in 1..(NBottles - 1) : doses[x] = Cardinality(PouredOf(x))

DosesInv == DosesTypes /\ RoundsOK /\ BottlesHeld /\ GoneCounted /\ DosesCounted

----------------------------------------------------------------------------
(* Steps and doses *)

\* What a step of customer c leaves alone: the bottles, the bartenders, the other
\* customers, the ingredients of the orders being filled, and what is complete but
\* for the order it takes.
CustomerOnly(c) ==
    /\ UNCHANGED <<doses, bottleslock, poured, reg, waited>>
    /\ \A u \in Thread \ {c} : pc'[u] = pc[u] /\ slot'[u] = slot[u]
    /\ \A d \in Customer \ {c} : round'[d] = round[d] /\ dummy'[d] = dummy[d]
    /\ \A b \in Bartender : pc[b] \in Fills => orders'[slot[b]].ing = orders[slot[b]].ing
    /\ \A i \in Slot : ordercomplete'[i] = ordercomplete[i] \/ (submit_P(c) /\ i = slot[c])

\* Whoever goes home tells createbar.
Leaves(t) ==
    /\ pc' = [pc EXCEPT ![t] = pc'[t]] /\ pc[t] # "gone"
    /\ alldone' = IF pc'[t] = "gone" THEN alldone + 1 ELSE alldone

LEMMA CustomerStep ==
    ASSUME BarInv, DosesTypes, NEW c \in Customer, customer(c)
    PROVE  CustomerOnly(c) /\ Leaves(c)
<1>1. BarTypes /\ SlotsOwned /\ OrdersTaken /\ ~fault /\ c \in Thread
  BY BarSizes DEF BarInv
<1>2. /\ pc \in [Thread -> Labels] /\ slot \in [Thread -> Slot] /\ orders \in [Slot -> OrderRecord]
      /\ ordercomplete \in [Slot -> 0..1] /\ dummy \in [Customer -> 0..NBartenders]
      /\ round \in [Customer -> 0..Rounds] /\ Bartender \subseteq Thread
  BY <1>1, BarSizes DEF BarTypes, DosesTypes
<1>3. CASE submit_scan(c)
  BY <1>1, <1>2, <1>3 DEF submit_scan, At, Goto, sems, locks, locals, CustomerOnly, Leaves
<1>4. CASE submit_put(c)
  <2>1. /\ pc[c] = "submit_put" /\ pc' = [pc EXCEPT ![c] = "submit_V"]
        /\ UNCHANGED <<doses, bottleslock, poured, reg, waited, slot, round, dummy, alldone,
                       ordercomplete>>
    BY <1>4 DEF submit_put, At, Goto, sems, locks, locals
  <2>2. \A b \in Bartender : pc[b] \in Fills => slot[b] # slot[c]
    BY <1>1, <2>1 DEF SlotsOwned, OrdersTaken
  <2>3. \A i \in Slot : i # slot[c] => orders'[i] = orders[i]
    BY <1>2, <1>4 DEF submit_put
  <2> QED BY <1>1, <1>2, <2>1, <2>2, <2>3 DEF CustomerOnly, Leaves
<1>5. CASE submit_V(c)
  BY <1>1, <1>2, <1>5 DEF submit_V, At, Goto, sems, locks, locals, CustomerOnly, Leaves
<1>6. CASE submit_P(c)
  BY <1>1, <1>2, <1>6 DEF submit_P, At, Goto, sems, locks, locals, CustomerOnly, Leaves
<1>7. CASE submit_given(c)
  <2>1. \A i \in Slot : orders'[i].ing = orders[i].ing
    BY <1>1, <1>2, <1>7 DEF submit_given, OrderRecord
  <2> QED BY <1>1, <1>2, <1>7, <2>1 DEF submit_given, At, Goto, sems, locks, locals, CustomerOnly, Leaves
<1>8. CASE drink(c)
  BY <1>1, <1>2, <1>8 DEF drink, At, Goto, sems, locks, locals, CustomerOnly, Leaves
<1>9. CASE return_glass(c)
  BY <1>1, <1>2, <1>9 DEF return_glass, At, Goto, sems, locks, locals, CustomerOnly, Leaves
<1>10. CASE return_V(c)
  BY <1>1, <1>2, <1>10 DEF return_V, At, Goto, sems, locks, locals, CustomerOnly, Leaves
<1>11. CASE return_slot(c)
  <2>1. \A i \in Slot : orders'[i].ing = orders[i].ing
    BY <1>1, <1>2, <1>11 DEF return_slot, OrderRecord
  <2> QED BY <1>1, <1>2, <1>11, <2>1 DEF return_slot, At, Goto, sems, locks, locals, CustomerOnly, Leaves
<1>12. CASE crawl_home(c)
  BY <1>1, <1>2, <1>12 DEF crawl_home, At, Goto, sems, locks, locals, CustomerOnly, Leaves
<1>13. CASE go_home(c)
  BY <1>1, <1>2, <1>13 DEF go_home, At, Goto, sems, locks, locals, CustomerOnly, Leaves
<1> QED BY <1>3, <1>4, <1>5, <1>6, <1>7, <1>8, <1>9, <1>10, <1>11, <1>12, <1>13 DEF customer

\* What a step of bartender b leaves alone: the customers, the other bartenders, and
\* the ingredients of the orders.
BartenderOnly(b) ==
    /\ UNCHANGED <<round, dummy, waited>>
    /\ \A u \in Thread \ {b} : pc'[u] = pc[u] /\ slot'[u] = slot[u]
    /\ \A e \in Bartender \ {b} : poured'[e] = poured[e] /\ reg'[e] = reg[e]
    /\ \A i \in Slot : orders'[i].ing = orders[i].ing
    /\ ~pour_write(b) => doses' = doses
    /\ ~pour_read(b) => reg' = reg

LEMMA BartenderStep ==
    ASSUME BarInv, DosesTypes, NEW b \in Bartender, bartender(b)
    PROVE  BartenderOnly(b) /\ Leaves(b)
<1>1. BarTypes /\ ~fault /\ b \in Thread
  BY BarSizes DEF BarInv
<1>2. /\ pc \in [Thread -> Labels] /\ slot \in [Thread -> Slot] /\ orders \in [Slot -> OrderRecord]
      /\ poured \in [Bartender -> 0..3] /\ reg \in [Bartender -> Nat] /\ Bartender \subseteq Thread
  BY <1>1, BarSizes DEF BarTypes, DosesTypes
<1>3. CASE drinkers(b)
  BY <1>1, <1>2, <1>3 DEF drinkers, At, Goto, sems, locks, locals, BartenderOnly, Leaves
<1>4. CASE take_P(b)
  BY <1>1, <1>2, <1>4 DEF take_P, At, Goto, sems, locks, locals, BartenderOnly, Leaves
<1>5. CASE take_scan(b)
  BY <1>1, <1>2, <1>5 DEF take_scan, At, Goto, sems, locks, locals, BartenderOnly, Leaves
<1>6. CASE take_put(b)
  <2>1. \A i \in Slot : orders'[i].ing = orders[i].ing
    BY <1>1, <1>2, <1>6 DEF take_put, OrderRecord
  <2> QED BY <1>1, <1>2, <1>6, <2>1 DEF take_put, At, Goto, sems, locks, locals, BartenderOnly, Leaves
<1>7. CASE fill_P(b)
  BY <1>1, <1>2, <1>7 DEF fill_P, At, Goto, sems, locks, locals, BartenderOnly, Leaves
<1>8. CASE fill_scan(b)
  BY <1>1, <1>2, <1>8 DEF fill_scan, At, Goto, sems, locks, locals, BartenderOnly, Leaves
<1>9. CASE fill_put(b)
  BY <1>1, <1>2, <1>9 DEF fill_put, At, Goto, sems, locks, locals, BartenderOnly, Leaves
<1>10. CASE fill_glass(b)
  <2>1. \A i \in Slot : orders'[i].ing = orders[i].ing
    BY <1>1, <1>2, <1>10 DEF fill_glass, OrderRecord
  <2> QED BY <1>1, <1>2, <1>10, <2>1 DEF fill_glass, At, Goto, sems, locks, locals, BartenderOnly, Leaves
<1>11. CASE fill_bottles(b)
  BY <1>1, <1>2, <1>11 DEF fill_bottles, At, Goto, sems, locks, locals, BartenderOnly, Leaves
<1>12. CASE pour_read(b)
  BY <1>1, <1>2, <1>12 DEF pour_read, At, Goto, sems, locks, locals, BartenderOnly, Leaves
<1>13. CASE pour_write(b)
  BY <1>1, <1>2, <1>13 DEF pour_write, At, Goto, sems, locks, locals, BartenderOnly, Leaves
<1>14. CASE fill_done(b)
  BY <1>1, <1>2, <1>14 DEF fill_done, At, Goto, sems, locks, locals, BartenderOnly, Leaves
<1>15. CASE serve_order(b)
  BY <1>1, <1>2, <1>15 DEF serve_order, At, Goto, sems, locks, locals, BartenderOnly, Leaves
<1>16. CASE go_home(b)
  BY <1>1, <1>2, <1>16 DEF go_home, At, Goto, sems, locks, locals, BartenderOnly, Leaves
<1> QED BY <1>3, <1>4, <1>5, <1>6, <1>7, <1>8, <1>9, <1>10, <1>11, <1>12, <1>13, <1>14, <1>15, <1>16
        DEF bartender

\* Those who are gone, after a step of customer c or of bartender b.
LEMMA GoneStep ==
    ASSUME BarInv, DosesTypes, GoneCounted, NEW t \in Thread, Leaves(t), waited' = waited
    PROVE  GoneCounted' /\ alldone' \in Nat /\ waited' \in Nat
<1>1. BarTypes /\ waited \in Nat /\ alldone \in Nat
  BY DEF BarInv, DosesTypes
<1>2. PICK to : to = pc'[t]
  OBVIOUS
<1>3. pc' = [pc EXCEPT ![t] = to] /\ pc[t] # "gone"
  BY <1>2 DEF Leaves
<1>4. PICK m \in Nat : m = Count(Customer, {"gone"})
  BY <1>1, <1>3, CountStep
<1>5. PICK n \in Nat : n = Count(Bartender, {"gone"})
  BY <1>1, <1>3, CountStep
<1>6. waited + alldone = m + n
  BY <1>4, <1>5 DEF GoneCounted
<1>7. CASE t \in Customer
  <2>1. /\ Count(Bartender, {"gone"})' = n
        /\ Count(Customer, {"gone"})' = m + Ind(to \in {"gone"}) - Ind(pc[t] \in {"gone"})
    BY <1>1, <1>3, <1>4, <1>5, <1>7, CustomerCounts
  <2>2. CASE to = "gone"
    <3>1. Count(Customer, {"gone"})' = m + 1 /\ alldone' = alldone + 1
      BY <1>2, <1>3, <2>1, <2>2 DEF Ind, Leaves
    <3> QED BY <1>1, <1>6, <2>1, <3>1 DEF GoneCounted
  <2>3. CASE to # "gone"
    <3>1. Count(Customer, {"gone"})' = m /\ alldone' = alldone
      BY <1>2, <1>3, <2>1, <2>3 DEF Ind, Leaves
    <3> QED BY <1>1, <1>6, <2>1, <3>1 DEF GoneCounted
  <2> QED BY <2>2, <2>3
<1>8. CASE t \in Bartender
  <2>1. /\ Count(Customer, {"gone"})' = m
        /\ Count(Bartender, {"gone"})' = n + Ind(to \in {"gone"}) - Ind(pc[t] \in {"gone"})
    BY <1>1, <1>3, <1>4, <1>5, <1>8, BartenderCounts
  <2>2. CASE to = "gone"
    <3>1. Count(Bartender, {"gone"})' = n + 1 /\ alldone' = alldone + 1
      BY <1>2, <1>3, <2>1, <2>2 DEF Ind, Leaves
    <3> QED BY <1>1, <1>6, <2>1, <3>1 DEF GoneCounted
  <2>3. CASE to # "gone"
    <3>1. Count(Bartender, {"gone"})' = n /\ alldone' = alldone
      BY <1>2, <1>3, <2>1, <2>3 DEF Ind, Leaves
    <3> QED BY <1>1, <1>6, <2>1, <3>1 DEF GoneCounted
  <2> QED BY <2>2, <2>3
<1> QED BY <1>7, <1>8 DEF Thread

\* The rounds of a customer.
LEMMA CustomerRounds ==
    ASSUME BarInv, DosesTypes, RoundsOK, NEW c \in Customer, customer(c)
    PROVE  round' \in [Customer -> 0..Rounds] /\ RoundsOK'
<1>1. /\ pc \in [Thread -> Labels] /\ dummy \in [Customer -> 0..NBartenders] /\ ~fault
      /\ NBartenders \in Nat \ {0} /\ c \in Thread /\ Customer \subseteq Thread
  BY BarSizes DEF BarInv, BarTypes
<1>2. round \in [Customer -> 0..Rounds] /\ Rounds \in Nat \ {0}
  BY BarAssumption DEF DosesTypes
<1>3. CustomerOnly(c)
  BY CustomerStep
<1>4. SUFFICES
        /\ round' \in [Customer -> 0..Rounds]
        /\ pc'[c] \in HasSlot \cup {"submit", "submit_put"} /\ dummy'[c] = 0 => round'[c] < Rounds
        /\ pc'[c] \in {"crawl_home", "home", "gone"} \/ dummy'[c] # 0 => round'[c] = Rounds
  BY <1>1, <1>3 DEF RoundsOK, CustomerOnly
<1>5. /\ pc[c] \in HasSlot \cup {"submit", "submit_put"} /\ dummy[c] = 0 => round[c] < Rounds
      /\ pc[c] \in {"crawl_home", "home", "gone"} \/ dummy[c] # 0 => round[c] = Rounds
  BY DEF RoundsOK
<1>6. CASE return_slot(c)
  <2>1. pc[c] = "return_slot" /\ pc[c] \in HasSlot
    BY <1>6 DEF return_slot, At, HasSlot
  <2>2. CASE dummy[c] = 0
    <3>1. /\ round' = [round EXCEPT ![c] = round[c] + 1]
          /\ pc' = [pc EXCEPT ![c] = IF round[c] + 1 < Rounds THEN "submit" ELSE "crawl_home"]
          /\ dummy' = dummy
      BY <1>1, <1>6, <2>2 DEF return_slot, Goto
    <3>2. round[c] \in 0..Rounds /\ round[c] < Rounds
      BY <1>2, <1>5, <2>1, <2>2
    <3>3. round'[c] = round[c] + 1 /\ round' \in [Customer -> 0..Rounds]
      BY <1>2, <3>1, <3>2
    <3>4. CASE round[c] + 1 < Rounds
      BY <1>1, <1>2, <2>2, <3>1, <3>2, <3>3, <3>4
    <3>5. CASE ~(round[c] + 1 < Rounds)
      <4>1. pc'[c] = "crawl_home" /\ dummy'[c] = 0
        BY <1>1, <2>2, <3>1, <3>5
      <4>2. round'[c] = Rounds
        BY <1>2, <3>2, <3>3, <3>5
      <4> QED BY <3>3, <4>1, <4>2 DEF HasSlot
    <3> QED BY <3>4, <3>5
  <2>3. CASE dummy[c] # 0
    <3>1. round' = round /\ (pc'[c] = "home" \/ dummy'[c] # 0)
      BY <1>1, <1>6, <2>3 DEF return_slot, Goto
    <3> QED BY <1>2, <1>5, <2>3, <3>1 DEF HasSlot
  <2> QED BY <2>2, <2>3
<1>7. CASE crawl_home(c)
  <2>1. pc[c] = "crawl_home" /\ round' = round /\ (pc'[c] = "home" \/ dummy'[c] # 0)
    BY <1>1, <1>7 DEF crawl_home, At, Goto
  <2> QED BY <1>2, <1>5, <2>1 DEF HasSlot
<1>8. CASE go_home(c)
  <2>1. pc[c] = "home" /\ pc'[c] = "gone" /\ UNCHANGED <<round, dummy>>
    BY <1>1, <1>8 DEF go_home, At, Goto, locals
  <2> QED BY <1>2, <1>5, <2>1 DEF HasSlot
<1>9. CASE /\ ~return_slot(c) /\ ~crawl_home(c) /\ ~go_home(c)
  <2>1. /\ pc[c] \in HasSlot \cup {"submit", "submit_put"}
        /\ pc'[c] \notin {"crawl_home", "home", "gone"} /\ UNCHANGED <<round, dummy>>
    BY <1>1, <1>9 DEF customer, submit_scan, submit_put, submit_V, submit_P, submit_given, drink,
                      return_glass, return_V, At, Goto, locals, HasSlot
  <2> QED BY <1>2, <1>5, <2>1
<1> QED BY <1>6, <1>7, <1>8, <1>9

\* The bottles while a customer acts: no bartender notices.
LEMMA CustomerBottles ==
    ASSUME BarInv, DosesTypes, BottlesHeld, NEW c \in Customer, customer(c)
    PROVE  BottlesHeld'
<1>1. CustomerOnly(c)
  BY CustomerStep
<1>2. SUFFICES ASSUME NEW b \in Bartender
               PROVE  /\ pc'[b] \in Pouring => bottleslock' = b
                      /\ pc'[b] = "pour_write" => reg'[b] = (doses[orders[slot[b]].ing[Min(Left(b))]])'
  BY DEF BottlesHeld
<1>3. pc'[b] = pc[b] /\ slot'[b] = slot[b] /\ UNCHANGED <<doses, bottleslock, poured, reg>>
  BY <1>1, BarSizes DEF CustomerOnly
<1>4. pc[b] \in Pouring => orders'[slot[b]].ing = orders[slot[b]].ing
  BY <1>1 DEF CustomerOnly, Pouring, Fills
<1>5. CASE pc[b] = "pour_write"
  <2>1. Left(b)' = Left(b)
    BY <1>3, <1>4, <1>5 DEF Left, Pouring
  <2> QED BY <1>3, <1>4, <1>5, <2>1 DEF BottlesHeld, Pouring
<1>6. CASE pc[b] # "pour_write"
  BY <1>3, <1>6 DEF BottlesHeld
<1> QED BY <1>5, <1>6

\* Left is about the ingredients not dealt with.
LEMMA LeftIn ==
    ASSUME BarInv, NEW b \in Bartender, Left(b) # {}
    PROVE  /\ Min(Left(b)) \in 1..3 /\ Min(Left(b)) \in Left(b) /\ poured[b] < Min(Left(b))
           /\ \A k \in Left(b) : Min(Left(b)) <= k
           /\ orders[slot[b]].ing[Min(Left(b))] \in 1..(NBottles - 1)
<1>1. /\ orders \in [Slot -> OrderRecord] /\ poured[b] \in 0..3 /\ slot[b] \in Slot
  BY BarSizes DEF BarInv, BarTypes
<1>2. Left(b) \in SUBSET (1..3) /\ Left(b) \in SUBSET Nat
  BY <1>1 DEF Left
<1>3. PICK k : k = Min(Left(b))
  OBVIOUS
<1>4. k \in Left(b) /\ \A j \in Left(b) : k <= j
  BY <1>2, <1>3, MinIn
<1>5. k \in 1..3 /\ poured[b] < k /\ orders[slot[b]].ing[k] # NOTHING
  BY <1>1, <1>2, <1>4 DEF Left
<1>6. orders[slot[b]].ing \in Triple
  BY <1>1 DEF OrderRecord
<1>7. orders[slot[b]].ing[k] \in 0..(NBottles - 1)
  BY <1>5, <1>6 DEF Triple
<1>8. orders[slot[b]].ing[k] \in 1..(NBottles - 1)
  BY <1>5, <1>7 DEF NOTHING
<1> QED BY <1>3, <1>4, <1>5, <1>8

\* The bottles while a bartender acts: it has them alone.
LEMMA BartenderBottles ==
    ASSUME BarInv, DosesTypes, BottlesHeld, NEW b \in Bartender, bartender(b)
    PROVE  BottlesHeld' /\ reg' \in [Bartender -> Nat] /\ doses' \in [0..(NBottles - 1) -> Nat]
<1>1. /\ BarTypes /\ pc \in [Thread -> Labels] /\ slot \in [Thread -> Slot] /\ ~fault
      /\ reg \in [Bartender -> Nat] /\ doses \in [0..(NBottles - 1) -> Nat]
      /\ b \in Thread /\ Bartender \subseteq Thread /\ NONE \notin Bartender
  BY BarSizes DEF BarInv, BarTypes, DosesTypes
<1>2. BartenderOnly(b)
  BY BartenderStep
<1>3. /\ \A e \in Bartender : pc[e] \in Pouring => bottleslock = e
      /\ \A e \in Bartender : pc[e] = "pour_write" => reg[e] = doses[orders[slot[e]].ing[Min(Left(e))]]
  BY DEF BottlesHeld
<1>4. \A e \in Bartender \ {b} : pc'[e] = pc[e] /\ slot'[e] = slot[e] /\ Left(e)' = Left(e)
                                 /\ orders'[slot[e]].ing = orders[slot[e]].ing /\ reg'[e] = reg[e]
  BY <1>1, <1>2 DEF BartenderOnly, Left
<1>5. CASE fill_bottles(b)
  <2>1. bottleslock = NONE /\ bottleslock' = b /\ UNCHANGED <<doses, reg>> /\ pc'[b] = "pour"
    BY <1>1, <1>5 DEF fill_bottles, Goto, locals
  <2>2. \A e \in Bartender : pc[e] \notin Pouring
    BY <1>1, <1>3, <2>1
  <2> QED BY <1>1, <1>4, <2>1, <2>2 DEF BottlesHeld, Pouring
<1>6. CASE pour_read(b)
  <2>1. /\ pc[b] = "pour" /\ Left(b) # {} /\ UNCHANGED <<doses, bottleslock, orders, slot, poured>>
        /\ reg' = [reg EXCEPT ![b] = doses[orders[slot[b]].ing[Min(Left(b))]]]
        /\ pc'[b] = "pour_write"
    BY <1>1, <1>6 DEF pour_read, At, Goto, locks
  <2>2. orders[slot[b]].ing[Min(Left(b))] \in 0..(NBottles - 1)
    <3>1. orders[slot[b]].ing[Min(Left(b))] \in 1..(NBottles - 1)
      BY <2>1, LeftIn
    <3> QED BY <3>1
  <2>3. reg' \in [Bartender -> Nat] /\ reg'[b] = doses[orders[slot[b]].ing[Min(Left(b))]]
    BY <1>1, <2>1, <2>2
  <2>4. Left(b)' = Left(b)
    BY <2>1 DEF Left
  <2>5. bottleslock = b
    BY <1>3, <2>1 DEF Pouring
  <2> QED BY <1>1, <1>3, <1>4, <2>1, <2>3, <2>4, <2>5 DEF BottlesHeld, Pouring
<1>7. CASE pour_write(b)
  <2>1. /\ pc[b] = "pour_write" /\ UNCHANGED <<bottleslock, reg>> /\ pc'[b] = "pour"
        /\ doses' = [doses EXCEPT ![orders[slot[b]].ing[Min(Left(b))]] = reg[b] + 1]
    BY <1>1, <1>7 DEF pour_write, At, Goto, locks
  <2>2. \A e \in Bartender \ {b} : pc[e] \notin Pouring
    BY <1>3, <2>1 DEF Pouring
  <2>3. doses' \in [0..(NBottles - 1) -> Nat]
    <3>1. PICK n \in Nat : n = reg[b] + 1
      BY <1>1
    <3>2. PICK x : x = orders[slot[b]].ing[Min(Left(b))]
      OBVIOUS
    <3>3. doses' = [doses EXCEPT ![x] = n]
      BY <2>1, <3>1, <3>2
    <3> QED BY <1>1, <3>3
  <2> QED BY <1>1, <1>3, <1>4, <2>1, <2>2, <2>3 DEF BottlesHeld, Pouring
<1>8. CASE fill_done(b)
  <2>1. pc[b] = "pour" /\ UNCHANGED <<doses, reg>> /\ pc'[b] = "serve"
    BY <1>1, <1>8 DEF fill_done, At, Goto, locals
  <2>2. \A e \in Bartender \ {b} : pc[e] \notin Pouring
    BY <1>3, <2>1 DEF Pouring
  <2> QED BY <1>1, <1>4, <2>1, <2>2 DEF BottlesHeld, Pouring
<1>9. CASE ~fill_bottles(b) /\ ~pour_read(b) /\ ~pour_write(b) /\ ~fill_done(b)
  <2>1. UNCHANGED <<doses, reg, bottleslock>> /\ pc'[b] \notin Pouring
    BY <1>1, <1>9 DEF bartender, drinkers, take_P, take_scan, take_put, fill_P, fill_scan, fill_put,
                      fill_glass, serve_order, go_home, Goto, locks, locals, Pouring
  <2> QED BY <1>1, <1>3, <1>4, <2>1 DEF BottlesHeld, Pouring
<1> QED BY <1>5, <1>6, <1>7, <1>8, <1>9

\* No dose is poured, and none forgotten.
SameDoses ==
    \A c \in Customer, r \in 1..Rounds, k \in 1..3 :
       Drink[c][k] # NOTHING => (DosePoured(c, r, k)' <=> DosePoured(c, r, k))

LEMMA DosesStay ==
    ASSUME DosesCounted, SameDoses, doses' = doses
    PROVE  DosesCounted'
<1> SUFFICES ASSUME NEW x \in 1..(NBottles - 1) PROVE doses'[x] = Cardinality(PouredOf(x)')
  BY DEF DosesCounted
<1>1. x # NOTHING
  BY DEF NOTHING
<1>2. \A d \in (Customer \X (1..3)) \X (1..Rounds) :
         Drink[d[1][1]][d[1][2]] = x
         => (DosePoured(d[1][1], d[2], d[1][2])' <=> DosePoured(d[1][1], d[2], d[1][2]))
  BY <1>1 DEF SameDoses
<1>3. PouredOf(x)' = PouredOf(x)
  BY <1>2 DEF PouredOf
<1> QED BY <1>3 DEF DosesCounted

\* A customer pours nothing: it passes from an order that is complete to having been
\* given its drink, and from there to the next round.
LEMMA CustomerDoses ==
    ASSUME BarInv, DosesTypes, NEW c \in Customer, customer(c)
    PROVE  SameDoses
<1>1. /\ pc \in [Thread -> Labels] /\ dummy \in [Customer -> 0..NBartenders] /\ ~fault
      /\ slot \in [Thread -> Slot] /\ ordercomplete \in [Slot -> 0..1]
      /\ c \in Thread /\ Customer \subseteq Thread /\ Bartender \subseteq Thread
      /\ Customer \cap Bartender = {}
  BY BarSizes DEF BarInv, BarTypes
<1>2. round \in [Customer -> 0..Rounds] /\ Rounds \in Nat
  BY BarAssumption DEF DosesTypes
<1>3. CustomerOnly(c) /\ SlotsOwned /\ OrdersTaken
  BY CustomerStep DEF BarInv
<1>4. \A i \in Slot, k \in 1..3 : ordercomplete'[i] = ordercomplete[i]
                                  => (SlotPoured(i, k)' <=> SlotPoured(i, k))
  <2>1. poured' = poured /\ \A b \in Bartender : pc'[b] = pc[b] /\ slot'[b] = slot[b]
    BY <1>1, <1>3 DEF CustomerOnly
  <2> QED BY <2>1 DEF SlotPoured
<1>5. ASSUME NEW d \in Customer \ {c}, NEW r \in 1..Rounds, NEW k \in 1..3
      PROVE  DosePoured(d, r, k)' <=> DosePoured(d, r, k)
  <2>1. UNCHANGED <<pc[d], slot[d], round[d], dummy[d]>>
    BY <1>1, <1>3 DEF CustomerOnly
  <2>2. pc[d] \in {"submit_V", "submit_P"} => ordercomplete'[slot[d]] = ordercomplete[slot[d]]
    <3>1. submit_P(c) => pc[c] = "submit_P"
      BY DEF submit_P, At
    <3> QED BY <1>1, <1>3, <3>1 DEF CustomerOnly, SlotsOwned, HasSlot
  <2> QED BY <1>1, <1>4, <2>1, <2>2 DEF DosePoured
<1>6. ASSUME NEW r \in 1..Rounds, NEW k \in 1..3
      PROVE  DosePoured(c, r, k)' <=> DosePoured(c, r, k)
  <2>1. round[c] \in 0..Rounds
    BY <1>2
  <2>2. CASE submit_put(c)
    <3>1. /\ pc[c] = "submit_put" /\ pc'[c] = "submit_V"
          /\ UNCHANGED <<round, dummy, slot, ordercomplete>>
      BY <1>1, <2>2 DEF submit_put, At, Goto, sems, locals
    <3>2. orders[slot[c]].state = 0 /\ slot[c] \in Slot
      BY <1>1, <1>3, <3>1 DEF SlotsOwned
    <3>3. ~SlotPoured(slot[c], k)
      BY <1>3, <3>2 DEF OrdersTaken, SlotPoured, Fills, Pouring
    <3>4. ~SlotPoured(slot[c], k)'
      BY <1>4, <3>1, <3>2, <3>3
    <3> QED BY <3>1, <3>4 DEF DosePoured, Completed
  <2>3. CASE submit_V(c)
    <3>1. /\ pc[c] = "submit_V" /\ pc'[c] = "submit_P" /\ slot[c] \in Slot
          /\ UNCHANGED <<round, dummy, slot, ordercomplete>>
      BY <1>1, <2>3 DEF submit_V, At, Goto, sems, locals
    <3>2. SlotPoured(slot[c], k)' <=> SlotPoured(slot[c], k)
      BY <1>4, <3>1
    <3> QED BY <3>1, <3>2 DEF DosePoured, Completed
  <2>4. CASE submit_P(c)
    <3>1. /\ pc[c] = "submit_P" /\ pc'[c] = "given" /\ slot[c] \in Slot
          /\ ordercomplete[slot[c]] > 0 /\ UNCHANGED <<round, dummy>>
      BY <1>1, <2>4 DEF submit_P, At, Goto, sems, locals
    <3>2. SlotPoured(slot[c], k)
      BY <1>1, <3>1 DEF SlotPoured
    <3> QED BY <3>1, <3>2 DEF DosePoured, Completed
  <2>5. CASE return_slot(c)
    <3>0. NBartenders \in Nat \ {0}
      BY BarSizes
    <3>1. /\ pc[c] = "return_slot" /\ pc'[c] \notin Completed \cup {"submit_V", "submit_P"}
          /\ round' = IF dummy[c] = 0 THEN [round EXCEPT ![c] = round[c] + 1] ELSE round
      BY <1>1, <2>5, <3>0 DEF return_slot, At, Goto, Completed
    <3>2. DosePoured(c, r, k)' <=> r <= round'[c]
      BY <3>1 DEF DosePoured
    <3>3. DosePoured(c, r, k) <=> r <= round[c] \/ (r = round[c] + 1 /\ dummy[c] = 0)
      BY <3>1 DEF DosePoured, Completed
    <3>4. r \in Int /\ round[c] \in Int
      BY <1>2, <2>1
    <3>5. CASE dummy[c] = 0
      <4>1. round'[c] = round[c] + 1
        BY <1>2, <3>1, <3>5
      <4> QED BY <3>2, <3>3, <3>4, <3>5, <4>1
    <3>6. CASE dummy[c] # 0
      BY <3>1, <3>2, <3>3, <3>6
    <3> QED BY <3>5, <3>6
  <2>6. CASE submit_scan(c) \/ crawl_home(c) \/ go_home(c)
    <3>1. /\ pc[c] \notin Completed \cup {"submit_V", "submit_P"}
          /\ pc'[c] \notin Completed \cup {"submit_V", "submit_P"} /\ round' = round
      BY <1>1, <2>6 DEF submit_scan, crawl_home, go_home, At, Goto, locals, Completed
    <3> QED BY <3>1 DEF DosePoured
  <2>7. CASE submit_given(c) \/ drink(c) \/ return_glass(c) \/ return_V(c)
    <3>1. pc[c] \in Completed /\ pc'[c] \in Completed /\ UNCHANGED <<round, dummy>>
      BY <1>1, <2>7 DEF submit_given, drink, return_glass, return_V, At, Goto, locals, Completed
    <3> QED BY <3>1 DEF DosePoured
  <2> QED BY <2>2, <2>3, <2>4, <2>5, <2>6, <2>7 DEF customer
<1> QED BY <1>5, <1>6 DEF SameDoses

\* Nor does a bartender pour, but in pour_write: the doses of the ingredients it has
\* dealt with are those of the order that it serves and completes.
LEMMA BartenderDoses ==
    ASSUME BarInv, DosesTypes, NEW b \in Bartender, bartender(b), ~pour_write(b)
    PROVE  SameDoses
<1>1. /\ pc \in [Thread -> Labels] /\ slot \in [Thread -> Slot] /\ ordercomplete \in [Slot -> 0..1]
      /\ poured \in [Bartender -> 0..3] /\ ~fault
      /\ b \in Thread /\ Customer \subseteq Thread /\ Bartender \subseteq Thread
      /\ Customer \cap Bartender = {}
  BY BarSizes DEF BarInv, BarTypes
<1>2. BartenderOnly(b) /\ OrderedOK /\ OrdersTaken
  BY BartenderStep DEF BarInv
<1>3. /\ UNCHANGED <<round, dummy>>
      /\ \A c \in Customer : pc'[c] = pc[c] /\ slot'[c] = slot[c] /\ slot[c] \in Slot
      /\ \A e \in Bartender \ {b} : pc'[e] = pc[e] /\ slot'[e] = slot[e] /\ poured'[e] = poured[e]
  BY <1>1, <1>2 DEF BartenderOnly
<1>4. SUFFICES ASSUME NEW c \in Customer, NEW k \in 1..3, NEW s \in Slot, s = slot[c],
                      Drink[c][k] # NOTHING, dummy[c] = 0, pc[c] \in {"submit_V", "submit_P"}
               PROVE  SlotPoured(s, k)' <=> SlotPoured(s, k)
  BY <1>3 DEF SameDoses, DosePoured
<1>5. CASE fill_bottles(b)
  <2>1. /\ pc[b] = "fill_bottles" /\ poured'[b] = 0
        /\ UNCHANGED <<slot, ordercomplete>> /\ pc'[b] = "pour"
    BY <1>1, <1>5 DEF fill_bottles, At, Goto, sems
  <2> QED BY <1>3, <2>1 DEF SlotPoured, Pouring
<1>6. CASE pour_read(b)
  <2>1. /\ pc[b] = "pour" /\ pc'[b] = "pour_write" /\ UNCHANGED <<slot, poured, ordercomplete>>
    BY <1>1, <1>6 DEF pour_read, At, Goto, sems
  <2> QED BY <1>3, <2>1 DEF SlotPoured, Pouring
<1>7. CASE fill_done(b)
  <2>1. /\ pc[b] = "pour" /\ pc'[b] = "serve" /\ UNCHANGED <<slot, poured, ordercomplete>>
        /\ Left(b) = {}
    BY <1>1, <1>7 DEF fill_done, At, Goto, sems, locals
  <2>2. orders[s].ing = Drink[c]
    BY <1>2, <1>4 DEF OrderedOK, Ingredients
  <2>3. slot[b] = s => k <= poured[b]
    <3>1. slot[b] = s /\ ~(k <= poured[b]) => k \in Left(b)
      BY <1>1, <1>4, <2>2 DEF Left
    <3> QED BY <2>1, <3>1
  <2> QED BY <1>3, <2>1, <2>3 DEF SlotPoured, Pouring
<1>8. CASE serve_order(b)
  <2>1. /\ pc[b] = "serve" /\ pc'[b] = "while" /\ UNCHANGED <<slot, poured>>
        /\ ordercomplete' = [ordercomplete EXCEPT ![slot[b]] = ordercomplete[slot[b]] + 1]
        /\ ordercomplete[slot[b]] = 0
    BY <1>1, <1>2, <1>8 DEF serve_order, At, Goto, OrdersTaken, Fills
  <2>2. /\ ordercomplete'[slot[b]] = 1
        /\ \A i \in Slot \ {slot[b]} : ordercomplete'[i] = ordercomplete[i]
    BY <1>1, <2>1
  <2>3. CASE slot[b] = s
    BY <2>1, <2>2, <2>3 DEF SlotPoured
  <2>4. CASE slot[b] # s
    BY <1>3, <2>1, <2>2, <2>4 DEF SlotPoured
  <2> QED BY <2>3, <2>4
<1>9. CASE ~fill_bottles(b) /\ ~pour_read(b) /\ ~fill_done(b) /\ ~serve_order(b)
  <2>1. /\ pc[b] \notin Pouring \cup {"serve"} /\ pc'[b] \notin Pouring \cup {"serve"}
        /\ ordercomplete' = ordercomplete
    BY <1>1, <1>9 DEF bartender, drinkers, take_P, take_scan, take_put, fill_P, fill_scan, fill_put,
                      fill_glass, go_home, At, Goto, sems, Pouring
  <2> QED BY <1>3, <2>1 DEF SlotPoured
<1> QED BY <1>5, <1>6, <1>7, <1>8, <1>9

\* Whose drink bartender b pours, and that it has the k-th ingredient to pour.
LEMMA PoursFor ==
    ASSUME BarInv, NEW b \in Bartender, pc[b] = "pour_write"
    PROVE  \E c \in Customer :
              /\ pc[c] \in {"submit_V", "submit_P"} /\ slot[c] = slot[b] /\ dummy[c] = 0
              /\ orders[slot[b]].ing = Drink[c] /\ Left(b) # {}
              /\ \A d \in Customer \ {c} : pc[d] \in HasSlot => slot[d] # slot[b]
<1>1. /\ SlotsOwned /\ OrdersTaken /\ OrderedOK /\ Left(b) # {} /\ slot[b] \in Slot
      /\ orders[slot[b]].state = 2
  BY BarSizes DEF BarInv, BarTypes, GlassesFilled, OrdersTaken, Fills
<1>2. PICK c \in Customer : pc[c] \in HasSlot /\ slot[c] = slot[b]
  BY <1>1 DEF SlotsOwned
<1>3. pc[c] \in {"submit_V", "submit_P"}
  BY <1>1, <1>2 DEF SlotsOwned, OrdersTaken, HasSlot, Fills
<1>4. orders[slot[b]].ing = Ingredients(c)
  BY <1>1, <1>2, <1>3 DEF OrderedOK
<1>5. dummy[c] = 0
  <2>1. Min(Left(b)) \in 1..3 /\ orders[slot[b]].ing[Min(Left(b))] \in 1..(NBottles - 1)
    BY <1>1, LeftIn
  <2>2. SUFFICES ASSUME dummy[c] # 0 PROVE FALSE
    OBVIOUS
  <2>3. dummy[c] \in 0..NBartenders /\ NBartenders \in Nat
    BY BarSizes DEF BarInv, BarTypes
  <2>4. dummy[c] > 0
    BY <2>2, <2>3
  <2>5. PICK m \in 1..3 : m = Min(Left(b))
    BY <2>1
  <2>6. Ingredients(c)[m] = 0
    BY <2>4 DEF Ingredients, NOTHING
  <2> QED BY <1>4, <2>1, <2>5, <2>6
<1>6. orders[slot[b]].ing = Drink[c]
  BY <1>4, <1>5 DEF Ingredients
<1>7. \A d \in Customer \ {c} : pc[d] \in HasSlot => slot[d] # slot[b]
  BY <1>1, <1>2 DEF SlotsOwned
<1> QED BY <1>1, <1>2, <1>3, <1>5, <1>6, <1>7

\* The doses poured are finitely many.
LEMMA PouredFinite ==
    ASSUME NEW x
    PROVE  IsFiniteSet(PouredOf(x)) /\ Cardinality(PouredOf(x)) \in Nat
<1>1. Rounds \in Nat /\ IsFiniteSet(Customer)
  BY BarSizes, BarAssumption
<1>2. IsFiniteSet(1..Rounds) /\ IsFiniteSet(1..3)
  <2>1. 1 \in Int /\ 3 \in Int /\ Rounds \in Int
    BY <1>1
  <2>2. IsFiniteSet(1..Rounds)
    BY <2>1, FS_Interval
  <2>3. IsFiniteSet(1..3)
    BY <2>1, FS_Interval
  <2> QED BY <2>2, <2>3
<1>3. IsFiniteSet(Customer \X (1..3))
  BY <1>1, <1>2, FS_Product
<1>4. IsFiniteSet((Customer \X (1..3)) \X (1..Rounds))
  BY <1>2, <1>3, FS_Product
<1>5. PouredOf(x) \in SUBSET ((Customer \X (1..3)) \X (1..Rounds))
  BY DEF PouredOf
<1> QED BY <1>4, <1>5, FS_Subset, FS_CardinalityType

\* pour_write counts one dose of one bottle, and that dose is one more poured.
LEMMA PourDoses ==
    ASSUME BarInv, DosesTypes, RoundsOK, BottlesHeld, DosesCounted,
           NEW b \in Bartender, pour_write(b)
    PROVE  DosesCounted'
<1>1. /\ pc \in [Thread -> Labels] /\ slot \in [Thread -> Slot] /\ ordercomplete \in [Slot -> 0..1]
      /\ poured \in [Bartender -> 0..3] /\ ~fault /\ OrdersTaken
      /\ doses \in [0..(NBottles - 1) -> Nat] /\ reg \in [Bartender -> Nat]
      /\ round \in [Customer -> 0..Rounds] /\ Rounds \in Nat
      /\ b \in Thread /\ Customer \subseteq Thread /\ Bartender \subseteq Thread
      /\ Customer \cap Bartender = {}
  BY BarSizes, BarAssumption DEF BarInv, BarTypes, DosesTypes
<1>2. PICK s \in Slot : s = slot[b]
  BY <1>1
<1>3. pc[b] = "pour_write"
  BY DEF pour_write, At
<1>4. PICK c \in Customer :
         /\ pc[c] \in {"submit_V", "submit_P"} /\ slot[c] = s /\ dummy[c] = 0
         /\ orders[s].ing = Drink[c] /\ Left(b) # {}
         /\ \A d \in Customer \ {c} : pc[d] \in HasSlot => slot[d] # s
  BY <1>2, <1>3, PoursFor
<1>5. PICK k : k = Min(Left(b))
  OBVIOUS
<1>6. /\ k \in 1..3 /\ poured[b] < k /\ Drink[c][k] \in 1..(NBottles - 1)
      /\ \A j \in 1..3 : Drink[c][j] # NOTHING /\ j > poured[b] => k <= j
  <2>1. /\ k \in 1..3 /\ poured[b] < k /\ \A j \in Left(b) : k <= j
        /\ orders[slot[b]].ing[k] \in 1..(NBottles - 1)
    BY <1>4, <1>5, LeftIn
  <2>2. \A j \in 1..3 : Drink[c][j] # NOTHING /\ j > poured[b] => j \in Left(b)
    BY <1>1, <1>2, <1>4 DEF Left
  <2> QED BY <1>2, <1>4, <2>1, <2>2
<1>7. PICK x \in 1..(NBottles - 1) : x = Drink[c][k]
  BY <1>6
<1>8. PICK r : r = round[c] + 1
  OBVIOUS
<1>9. r \in 1..Rounds /\ round[c] \in 0..Rounds
  <2>1. round[c] \in 0..Rounds /\ round[c] < Rounds
    BY <1>1, <1>4 DEF RoundsOK, HasSlot
  <2> QED BY <1>1, <1>8, <2>1
<1>10. /\ pc' = [pc EXCEPT ![b] = "pour"] /\ poured' = [poured EXCEPT ![b] = k]
       /\ doses' = [doses EXCEPT ![x] = reg[b] + 1] /\ reg[b] = doses[x]
       /\ UNCHANGED <<slot, round, dummy, ordercomplete>>
  <2>1. orders[slot[b]].ing[Min(Left(b))] = x
    BY <1>2, <1>4, <1>5, <1>7
  <2>2. reg[b] = doses[orders[slot[b]].ing[Min(Left(b))]]
    BY <1>3 DEF BottlesHeld
  <2> QED BY <1>5, <2>1, <2>2 DEF pour_write, Goto, sems
<1>11. /\ pc'[b] = "pour" /\ poured'[b] = k
       /\ \A u \in Thread \ {b} : pc'[u] = pc[u]
       /\ \A e \in Bartender \ {b} : poured'[e] = poured[e]
  BY <1>1, <1>6, <1>10
<1>12. \A j \in 1..3 : /\ SlotPoured(s, j) <=> j <= poured[b]
                       /\ SlotPoured(s, j)' <=> j <= k
  <2>1. /\ ordercomplete[s] = 0 /\ ordercomplete'[s] = 0
        /\ \A e \in Bartender \ {b} : pc[e] \in Pouring \cup {"serve"} => slot[e] # s
    BY <1>1, <1>2, <1>3, <1>10 DEF OrdersTaken, Pouring, Fills
  <2>2. \A e \in Bartender \ {b} : pc'[e] = pc[e] /\ slot'[e] = slot[e] /\ slot'[b] = s
    BY <1>1, <1>2, <1>10, <1>11
  <2> SUFFICES ASSUME NEW j \in 1..3
               PROVE  /\ SlotPoured(s, j) <=> j <= poured[b]
                      /\ SlotPoured(s, j)' <=> j <= k
    OBVIOUS
  <2>3. SlotPoured(s, j) <=> j <= poured[b]
    BY <1>2, <1>3, <2>1 DEF SlotPoured, Pouring
  <2>4. SlotPoured(s, j)' <=> j <= k
    <3>1. \A e \in Bartender \ {b} : pc'[e] \in Pouring \cup {"serve"} => slot'[e] # s
      BY <2>1, <2>2
    <3>2. slot'[b] = s
      BY <1>2, <1>10
    <3>3. ordercomplete'[s] = 0 /\ pc'[b] = "pour" /\ poured'[b] = k
      BY <1>11, <2>1
    <3> QED BY <3>1, <3>2, <3>3 DEF SlotPoured, Pouring
  <2> QED BY <2>3, <2>4
<1>13. \A i \in Slot \ {s}, j \in 1..3 : SlotPoured(i, j)' <=> SlotPoured(i, j)
  <2>1. \A i \in Slot \ {s} : slot'[b] # i /\ slot[b] # i /\ ordercomplete'[i] = ordercomplete[i]
    BY <1>2, <1>10
  <2>2. \A e \in Bartender \ {b} : UNCHANGED <<pc[e], slot[e], poured[e]>>
    BY <1>1, <1>10, <1>11
  <2> QED BY <2>1, <2>2 DEF SlotPoured
<1>14. ASSUME NEW d \in Customer, NEW q \in 1..Rounds, NEW j \in 1..3, Drink[d][j] # NOTHING
       PROVE  /\ ~(d = c /\ q = r /\ j = k) => (DosePoured(d, q, j)' <=> DosePoured(d, q, j))
              /\ d = c /\ q = r /\ j = k => DosePoured(d, q, j)' /\ ~DosePoured(d, q, j)
  <2>1. UNCHANGED <<pc[d], slot[d], round[d], dummy[d]>> /\ slot[d] \in Slot
    BY <1>1, <1>10, <1>11
  <2>2. CASE d # c
    <3>1. pc[d] \in {"submit_V", "submit_P"} => slot[d] # s
      BY <1>4, <2>2 DEF HasSlot
    <3>2. pc[d] \in {"submit_V", "submit_P"} => (SlotPoured(slot[d], j)' <=> SlotPoured(slot[d], j))
      BY <1>13, <2>1, <3>1
    <3> QED BY <2>1, <2>2, <3>2 DEF DosePoured
  <2>3. CASE d = c
    <3>1. /\ SlotPoured(slot[d], j) <=> j <= poured[b]
          /\ SlotPoured(slot[d], j)' <=> j <= k
      BY <1>4, <1>12, <2>1, <2>3
    <3>2. /\ DosePoured(d, q, j) <=> q <= round[c] \/ (q = r /\ j <= poured[b])
          /\ DosePoured(d, q, j)' <=> q <= round[c] \/ (q = r /\ j <= k)
      BY <1>4, <1>8, <2>1, <2>3, <3>1 DEF DosePoured, Completed
    <3>3. j <= k => j <= poured[b] \/ j = k
      <4>1. j \in Int /\ k \in Int /\ poured[b] \in Int
        BY <1>1, <1>6
      <4>2. j > poured[b] => k <= j
        BY <1>6, <1>14, <2>3
      <4> QED BY <4>1, <4>2
    <3>4. j <= poured[b] => j <= k /\ j # k
      BY <1>1, <1>6
    <3>5. q = r => ~(q <= round[c])
      BY <1>8, <1>9
    <3> QED BY <1>6, <2>3, <3>2, <3>3, <3>4, <3>5
  <2> QED BY <2>2, <2>3
<1>15. PICK p : p = <<<<c, k>>, r>>
  OBVIOUS
<1>16. p \in PouredOf(x)' /\ p \notin PouredOf(x)
  <2>1. p \in (Customer \X (1..3)) \X (1..Rounds) /\ p[1][1] = c /\ p[1][2] = k /\ p[2] = r
    BY <1>6, <1>9, <1>15
  <2>2. x # NOTHING
    BY DEF NOTHING
  <2>3. DosePoured(c, r, k)' /\ ~DosePoured(c, r, k)
    BY <1>6, <1>7, <1>9, <1>14, <2>2
  <2> QED BY <1>7, <2>1, <2>3 DEF PouredOf
<1>17. ASSUME NEW y \in 1..(NBottles - 1), NEW v, v # p
       PROVE  v \in PouredOf(y)' <=> v \in PouredOf(y)
  <2>1. CASE v \in (Customer \X (1..3)) \X (1..Rounds)
    <3>1. PICK d \in Customer, q \in 1..Rounds, j \in 1..3 : v = <<<<d, j>>, q>>
      BY <2>1
    <3>2. ~(d = c /\ q = r /\ j = k)
      BY <1>15, <1>17, <3>1
    <3>3. Drink[d][j] = y => (DosePoured(d, q, j)' <=> DosePoured(d, q, j))
      BY <1>14, <3>2 DEF NOTHING
    <3>4. v[1][1] = d /\ v[1][2] = j /\ v[2] = q
      BY <3>1
    <3> QED BY <2>1, <3>3, <3>4 DEF PouredOf
  <2>2. CASE v \notin (Customer \X (1..3)) \X (1..Rounds)
    BY <2>2 DEF PouredOf
  <2> QED BY <2>1, <2>2
<1>18. SUFFICES ASSUME NEW y \in 1..(NBottles - 1) PROVE doses'[y] = Cardinality(PouredOf(y)')
  BY DEF DosesCounted
<1>19. doses[y] = Cardinality(PouredOf(y)) /\ y \in 0..(NBottles - 1) /\ doses[y] \in Nat
  <2>1. y \in 0..(NBottles - 1)
    OBVIOUS
  <2> QED BY <1>1, <2>1 DEF DosesCounted
<1>20. CASE y = x
  <2>1. PouredOf(x)' = PouredOf(x) \cup {p}
    BY <1>16, <1>17
  <2>2. Cardinality(PouredOf(x)') = Cardinality(PouredOf(x)) + 1
    BY <1>16, <2>1, PouredFinite, FS_AddElement
  <2>3. doses'[x] = doses[x] + 1
    BY <1>1, <1>10, <1>19, <1>20
  <2> QED BY <1>19, <1>20, <2>2, <2>3
<1>21. CASE y # x
  <2>1. p \notin PouredOf(y)' /\ p \notin PouredOf(y)
    <3>1. p[1][1] = c /\ p[1][2] = k
      BY <1>15
    <3> QED BY <1>7, <1>21, <3>1 DEF PouredOf
  <2>2. PouredOf(y)' = PouredOf(y)
    BY <1>17, <2>1
  <2>3. doses'[y] = doses[y]
    BY <1>1, <1>10, <1>19, <1>21
  <2> QED BY <1>19, <2>2, <2>3
<1> QED BY <1>20, <1>21

\* Every step keeps the doses counted.
LEMMA NextDosesInv == BarInv /\ DosesInv /\ [Next]_vars => DosesInv'
<1> SUFFICES ASSUME BarInv, DosesInv, [Next]_vars PROVE DosesInv'
  OBVIOUS
<1>1. DosesTypes /\ RoundsOK /\ BottlesHeld /\ GoneCounted /\ DosesCounted
  BY DEF DosesInv
<1>2. CASE \E c \in Customer : customer(c)
  <2>1. PICK c \in Customer : customer(c)
    BY <1>2
  <2>2. CustomerOnly(c) /\ Leaves(c) /\ c \in Thread
    BY <1>1, <2>1, CustomerStep, BarSizes
  <2>3. UNCHANGED <<doses, reg, waited>>
    BY <2>2 DEF CustomerOnly
  <2>4. GoneCounted' /\ alldone' \in Nat /\ waited' \in Nat
    BY <1>1, <2>2, <2>3, GoneStep
  <2>5. round' \in [Customer -> 0..Rounds] /\ RoundsOK'
    BY <1>1, <2>1, CustomerRounds
  <2>6. BottlesHeld'
    BY <1>1, <2>1, CustomerBottles
  <2>7. SameDoses
    BY <1>1, <2>1, CustomerDoses
  <2>8. DosesCounted'
    BY <1>1, <2>3, <2>7, DosesStay
  <2>9. DosesTypes'
    BY <1>1, <2>3, <2>4, <2>5 DEF DosesTypes
  <2> QED BY <2>4, <2>5, <2>6, <2>8, <2>9 DEF DosesInv
<1>3. CASE \E b \in Bartender : bartender(b)
  <2>1. PICK b \in Bartender : bartender(b)
    BY <1>3
  <2>2. BartenderOnly(b) /\ Leaves(b) /\ b \in Thread
    BY <1>1, <2>1, BartenderStep, BarSizes
  <2>3. UNCHANGED <<round, dummy, waited>> /\ \A c \in Customer : pc'[c] = pc[c]
    BY <2>2, BarSizes DEF BartenderOnly
  <2>4. GoneCounted' /\ alldone' \in Nat /\ waited' \in Nat
    BY <1>1, <2>2, <2>3, GoneStep
  <2>5. RoundsOK'
    BY <1>1, <2>3 DEF RoundsOK
  <2>6. BottlesHeld' /\ reg' \in [Bartender -> Nat] /\ doses' \in [0..(NBottles - 1) -> Nat]
    BY <1>1, <2>1, BartenderBottles
  <2>7. DosesCounted'
    <3>1. CASE pour_write(b)
      BY <1>1, <3>1, PourDoses
    <3>2. CASE ~pour_write(b)
      <4>1. SameDoses /\ doses' = doses
        BY <1>1, <2>1, <2>2, <3>2, BartenderDoses DEF BartenderOnly
      <4> QED BY <1>1, <4>1, DosesStay
    <3> QED BY <3>1, <3>2
  <2>8. DosesTypes'
    BY <1>1, <2>3, <2>4, <2>6 DEF DosesTypes
  <2> QED BY <2>4, <2>5, <2>6, <2>7, <2>8 DEF DosesInv
<1>4. CASE createbar \/ UNCHANGED vars
  <2>1. UNCHANGED <<orders, doses, ordercomplete, bottleslock, pc, slot, round, dummy, poured, reg>>
    BY <1>4 DEF createbar, vars, sems, locks, locals
  <2>2. waited \in Nat /\ alldone \in Nat
    BY <1>1 DEF DosesTypes
  <2>3. waited' \in Nat /\ alldone' \in Nat /\ waited' + alldone' = waited + alldone
    <3>1. CASE createbar
      BY <2>2, <3>1 DEF createbar
    <3>2. CASE UNCHANGED vars
      BY <2>2, <3>2 DEF vars, sems
    <3> QED BY <1>4, <3>1, <3>2
  <2>4. DosesTypes' /\ RoundsOK' /\ BottlesHeld'
    BY <1>1, <2>1, <2>3 DEF DosesTypes, RoundsOK, BottlesHeld, Left
  <2>5. GoneCounted'
    BY <1>1, <2>1, <2>3 DEF GoneCounted, Count
  <2>6. DosesCounted'
    BY <1>1, <2>1 DEF DosesCounted, PouredOf, DosePoured, SlotPoured
  <2> QED BY <2>4, <2>5, <2>6 DEF DosesInv
<1> QED BY <1>2, <1>3, <1>4 DEF Next

\* bar_open: no dose has been poured and none is counted.
LEMMA InitDosesInv == Init => DosesInv
<1> SUFFICES ASSUME Init PROVE DosesInv
  OBVIOUS
<1>1. /\ \A c \in Customer : pc[c] = "submit" /\ round[c] = 0 /\ dummy[c] = 0
      /\ \A b \in Bartender : pc[b] = "while"
  BY BarSizes DEF Init
<1>2. Rounds \in Nat \ {0}
  BY BarAssumption
<1>3. DosesTypes
  BY <1>2 DEF Init, DosesTypes
<1>4. RoundsOK /\ BottlesHeld
  BY <1>1, <1>2 DEF RoundsOK, BottlesHeld, Pouring
<1>5. GoneCounted
  <2>1. {t \in Customer : pc[t] \in {"gone"}} = {} /\ {t \in Bartender : pc[t] \in {"gone"}} = {}
    BY <1>1
  <2>2. Count(Customer, {"gone"}) = 0 /\ Count(Bartender, {"gone"}) = 0
    BY <2>1, FS_EmptySet DEF Count
  <2>3. waited = 0 /\ alldone = 0
    BY DEF Init
  <2> QED BY <2>2, <2>3 DEF GoneCounted
<1>6. DosesCounted
  <2> SUFFICES ASSUME NEW x \in 1..(NBottles - 1) PROVE doses[x] = Cardinality(PouredOf(x))
    BY DEF DosesCounted
  <2>1. \A c \in Customer, r \in 1..Rounds : \A k : ~DosePoured(c, r, k)
    BY <1>1 DEF DosePoured, Completed
  <2>2. PouredOf(x) = {}
    BY <2>1 DEF PouredOf
  <2>3. doses[x] = 0
    BY DEF Init
  <2> QED BY <2>2, <2>3, FS_EmptySet
<1> QED BY <1>3, <1>4, <1>5, <1>6 DEF DosesInv

\* The doses are counted throughout: doses[x] is the number of ingredients x that
\* have been poured, for the drinks of the rounds that are over and of the orders
\* being filled.
THEOREM DosesInvariant == Spec => []DosesInv
  BY InitDosesInv, NextDosesInv, BarInvariant, PTL DEF Spec

\* When createbar has counted everybody, everybody is gone and has had every drink.
LEMMA ClosedDone ==
    ASSUME BarInv, DosesInv, Closed, NEW c \in Customer
    PROVE  round[c] = Rounds
<1>1. waited \in Nat /\ alldone \in Nat /\ GoneCounted /\ RoundsOK
  BY DEF DosesInv, DosesTypes
<1>2. PICK G : G = {t \in Customer : pc[t] \in {"gone"}}
  OBVIOUS
<1>3. PICK H : H = {t \in Bartender : pc[t] \in {"gone"}}
  OBVIOUS
<1>4. G \in SUBSET Customer /\ H \in SUBSET Bartender
  BY <1>2, <1>3
<1>5. IsFiniteSet(G) /\ Cardinality(G) <= NCustomers /\ (Cardinality(G) = NCustomers => G = Customer)
  BY <1>4, BarSizes, FS_Subset DEF NCustomers
<1>6. IsFiniteSet(H) /\ Cardinality(H) <= NBartenders
  BY <1>4, BarSizes, FS_Subset DEF NBartenders
<1>7. Cardinality(G) \in Nat /\ Cardinality(H) \in Nat /\ NCustomers \in Nat /\ NBartenders \in Nat
  BY <1>5, <1>6, FS_CardinalityType, BarSizes
<1>8. NCustomers + NBartenders + alldone = Cardinality(G) + Cardinality(H)
  BY <1>1, <1>2, <1>3 DEF GoneCounted, Count, Closed
<1>9. Cardinality(G) = NCustomers
  BY <1>1, <1>5, <1>6, <1>7, <1>8
<1>10. pc[c] = "gone"
  BY <1>2, <1>5, <1>9
<1> QED BY <1>1, <1>10 DEF RoundsOK

\* DosesExact: for any number of customers and bartenders, and any drinks, the doses
\* that createbar prints are those of the drinks ordered; the bottleslock that pour
\* relies on loses none.
THEOREM DosesAreExact == Spec => []DosesExact
<1>1. BarInv /\ DosesInv => DosesExact
  <2> SUFFICES ASSUME BarInv, DosesInv, Closed, NEW x \in 1..(NBottles - 1)
               PROVE  doses[x] = Rounds * Cardinality({ck \in Customer \X (1..3) :
                                                         Drink[ck[1]][ck[2]] = x})
    BY DEF DosesExact
  <2>1. PICK D : D = {ck \in Customer \X (1..3) : Drink[ck[1]][ck[2]] = x}
    OBVIOUS
  <2>2. \A c \in Customer, r \in 1..Rounds, k \in 1..3 : DosePoured(c, r, k)
    BY ClosedDone DEF DosePoured
  <2>3. PouredOf(x) = D \X (1..Rounds)
    BY <2>1, <2>2 DEF PouredOf
  <2>4. IsFiniteSet(D)
    <3>1. 1 \in Int /\ 3 \in Int /\ IsFiniteSet(Customer)
      BY BarSizes
    <3>2. IsFiniteSet(1..3)
      BY <3>1, FS_Interval
    <3>3. IsFiniteSet(Customer \X (1..3))
      BY <3>1, <3>2, FS_Product
    <3>4. D \in SUBSET (Customer \X (1..3))
      BY <2>1
    <3> QED BY <3>3, <3>4, FS_Subset
  <2>5. IsFiniteSet(1..Rounds) /\ Cardinality(1..Rounds) = Rounds /\ Rounds \in Nat
    <3>1. 1 \in Int /\ Rounds \in Int /\ Rounds \in Nat \ {0}
      BY BarAssumption
    <3>2. IsFiniteSet(1..Rounds) /\ Cardinality(1..Rounds) = IF 1 > Rounds THEN 0 ELSE Rounds - 1 + 1
      BY <3>1, FS_Interval
    <3> QED BY <3>1, <3>2
  <2>6. Cardinality(PouredOf(x)) = Cardinality(D) * Rounds
    BY <2>3, <2>4, <2>5, FS_Product
  <2>7. doses[x] = Cardinality(PouredOf(x)) /\ Cardinality(D) \in Nat
    BY <2>4, FS_CardinalityType DEF DosesInv, DosesCounted
  <2>8. Cardinality(D) * Rounds = Rounds * Cardinality(D)
    BY <2>5, <2>7
  <2> QED BY <2>1, <2>6, <2>7, <2>8
<1> QED BY <1>1, BarInvariant, DosesInvariant, PTL
=============================================================================
