----------------------------- MODULE ListLemmas -----------------------------
(***************************************************************************)
(* What the operations on lists that the kernel's run queue and arrays are *)
(* modelled with do to the elements of a list, that a first one of a set   *)
(* of numbers exists, and how sizes change, for the proof modules.         *)
(***************************************************************************)
EXTENDS Integers, SequencesExt, FiniteSetTheorems, SequenceTheorems,
        WellFoundedInduction, TLAPS

\* array_remove deletes position i and moves the later elements down by one.
LEMMA RemoveAtProperties ==
    ASSUME NEW S, NEW s \in Seq(S), NEW i \in 1..Len(s)
    PROVE  /\ RemoveAt(s, i) \in Seq(S)
           /\ Len(RemoveAt(s, i)) = Len(s) - 1
           /\ DOMAIN RemoveAt(s, i) = 1..(Len(s) - 1)
           /\ \A j \in 1..(Len(s) - 1) :
                 RemoveAt(s, i)[j] = IF j < i THEN s[j] ELSE s[j + 1]
<1> DEFINE a == SubSeq(s, 1, i - 1)
           b == SubSeq(s, i + 1, Len(s))
<1>1. a \in Seq(S) /\ Len(a) = i - 1 /\ \A j \in 1..(i - 1) : a[j] = s[j]
  OBVIOUS
<1>2. b \in Seq(S) /\ Len(b) = Len(s) - i
      /\ \A j \in 1..(Len(s) - i) : b[j] = s[i + j]
  OBVIOUS
<1> HIDE DEF a, b
<1>3. a \o b \in Seq(S) /\ Len(a \o b) = Len(s) - 1
  <2>1. a \o b \in Seq(S) /\ Len(a \o b) = Len(a) + Len(b)
    BY <1>1, <1>2, ConcatProperties
  <2>2. Len(s) \in Nat
    BY LenProperties
  <2> QED BY <1>1, <1>2, <2>1, <2>2
<1>4. \A j \in 1..(Len(s) - 1) :
         (a \o b)[j] = IF j < i THEN s[j] ELSE s[j + 1]
  <2> TAKE j \in 1..(Len(s) - 1)
  <2>1. CASE j < i
    BY <1>1, <1>2, <2>1
  <2>2. CASE j >= i
    <3>1. (a \o b)[j] = b[j - (i - 1)]
      BY <1>1, <1>2, <2>2
    <3>2. b[j - (i - 1)] = s[i + (j - (i - 1))]
      BY <1>2, <2>2
    <3> QED BY <3>1, <3>2, <2>2
  <2>3. j < i \/ j >= i
    BY LenProperties
  <2> QED BY <2>1, <2>2, <2>3
<1>5. DOMAIN (a \o b) = 1..(Len(s) - 1)
  BY <1>3
<1> QED BY <1>3, <1>4, <1>5 DEF RemoveAt, a, b

\* Waking a thread makes no other thread a sleeper.
LEMMA RemoveAtElements ==
    ASSUME NEW S, NEW s \in Seq(S), NEW k \in DOMAIN s
    PROVE  \A j \in DOMAIN RemoveAt(s, k) : \E i \in DOMAIN s : RemoveAt(s, k)[j] = s[i]
<1>1. k \in 1..Len(s) /\ DOMAIN s = 1..Len(s) /\ Len(s) \in Nat
  OBVIOUS
<1>2. TAKE j \in DOMAIN RemoveAt(s, k)
<1>3. j \in 1..(Len(s) - 1)
      /\ RemoveAt(s, k)[j] = IF j < k THEN s[j] ELSE s[j + 1]
  BY <1>1, RemoveAtProperties
<1>4. j \in DOMAIN s /\ j + 1 \in DOMAIN s
  BY <1>1, <1>3
<1> QED BY <1>3, <1>4

\* q_addtail and array_add: one more element, at the end.
LEMMA AppendSet ==
    ASSUME NEW S, NEW s \in Seq(S), NEW e \in S
    PROVE  /\ Append(s, e) \in Seq(S)
           /\ ToSet(Append(s, e)) = ToSet(s) \cup {e}
           /\ IsInjective(s) /\ e \notin ToSet(s) => IsInjective(Append(s, e))
<1>1. /\ Append(s, e) \in Seq(S) /\ Len(s) \in Nat
      /\ DOMAIN s = 1..Len(s) /\ DOMAIN Append(s, e) = 1..(Len(s) + 1)
      /\ Append(s, e)[Len(s) + 1] = e
      /\ \A i \in 1..Len(s) : Append(s, e)[i] = s[i]
  OBVIOUS
<1>2. ToSet(Append(s, e)) = ToSet(s) \cup {e}
  <2>1. ASSUME NEW x \in ToSet(Append(s, e)) PROVE x \in ToSet(s) \cup {e}
    BY <1>1, <2>1 DEF ToSet
  <2>2. ASSUME NEW x \in ToSet(s) PROVE x \in ToSet(Append(s, e))
    <3>1. PICK i \in 1..Len(s) : x = s[i]
      BY <1>1, <2>2 DEF ToSet
    <3>2. i \in DOMAIN Append(s, e) /\ Append(s, e)[i] = x
      BY <1>1, <3>1
    <3> QED BY <3>2 DEF ToSet
  <2>3. e \in ToSet(Append(s, e))
    <3>1. Len(s) + 1 \in DOMAIN Append(s, e)
      BY <1>1
    <3> QED BY <1>1, <3>1 DEF ToSet
  <2> QED BY <2>1, <2>2, <2>3
<1>3. ASSUME IsInjective(s), e \notin ToSet(s) PROVE IsInjective(Append(s, e))
  <2> SUFFICES ASSUME NEW i \in 1..(Len(s) + 1), NEW j \in 1..(Len(s) + 1),
                      Append(s, e)[i] = Append(s, e)[j]
               PROVE  i = j
    BY <1>1 DEF IsInjective
  <2>1. \A k \in 1..Len(s) : s[k] # e
    BY <1>1, <1>3 DEF ToSet
  <2>2. \A k, l \in 1..Len(s) : s[k] = s[l] => k = l
    BY <1>1, <1>3 DEF IsInjective
  <2> QED BY <1>1, <2>1, <2>2
<1> QED BY <1>1, <1>2, <1>3

\* q_remhead: the first element is taken off.
LEMMA TailSet ==
    ASSUME NEW S, NEW s \in Seq(S), s # << >>
    PROVE  /\ Head(s) \in S /\ Head(s) \in ToSet(s)
           /\ Tail(s) \in Seq(S)
           /\ IsInjective(s) => /\ IsInjective(Tail(s))
                               /\ ToSet(Tail(s)) = ToSet(s) \ {Head(s)}
<1>1. /\ Head(s) = s[1] /\ Head(s) \in S /\ Tail(s) \in Seq(S) /\ Len(s) \in Nat
      /\ Len(s) > 0 /\ DOMAIN s = 1..Len(s) /\ DOMAIN Tail(s) = 1..(Len(s) - 1)
      /\ \A i \in 1..(Len(s) - 1) : Tail(s)[i] = s[i + 1]
  OBVIOUS
<1>2. Head(s) \in ToSet(s)
  BY <1>1 DEF ToSet
<1>3. ASSUME IsInjective(s) PROVE IsInjective(Tail(s)) /\ ToSet(Tail(s)) = ToSet(s) \ {Head(s)}
  <2>1. \A k, l \in 1..Len(s) : s[k] = s[l] => k = l
    BY <1>1, <1>3 DEF IsInjective
  <2>2. IsInjective(Tail(s))
    <3> SUFFICES ASSUME NEW i \in 1..(Len(s) - 1), NEW j \in 1..(Len(s) - 1),
                        Tail(s)[i] = Tail(s)[j]
                 PROVE  i = j
      BY <1>1 DEF IsInjective
    <3>1. i + 1 \in 1..Len(s) /\ j + 1 \in 1..Len(s) /\ s[i + 1] = s[j + 1]
      BY <1>1
    <3>2. i + 1 = j + 1
      BY <2>1, <3>1
    <3> QED BY <3>2
  <2>3. ASSUME NEW x \in ToSet(Tail(s)) PROVE x \in ToSet(s) \ {Head(s)}
    <3>1. PICK i \in 1..(Len(s) - 1) : x = Tail(s)[i]
      BY <1>1, <2>3 DEF ToSet
    <3>2. i + 1 \in 1..Len(s) /\ 1 \in 1..Len(s) /\ i + 1 # 1 /\ x = s[i + 1]
      BY <1>1, <3>1
    <3> QED BY <1>1, <2>1, <3>2 DEF ToSet
  <2>4. ASSUME NEW x \in ToSet(s) \ {Head(s)} PROVE x \in ToSet(Tail(s))
    <3>1. PICK i \in 1..Len(s) : x = s[i]
      BY <1>1, <2>4 DEF ToSet
    <3>2. i # 1
      BY <1>1, <2>4, <3>1
    <3>3. i - 1 \in DOMAIN Tail(s) /\ Tail(s)[i - 1] = x
      BY <1>1, <3>1, <3>2
    <3> QED BY <3>3 DEF ToSet
  <2> QED BY <2>2, <2>3, <2>4
<1> QED BY <1>1, <1>2, <1>3

\* array_remove takes the element at position k out of a list without duplicates.
LEMMA RemoveAtSet ==
    ASSUME NEW S, NEW s \in Seq(S), NEW k \in DOMAIN s, IsInjective(s)
    PROVE  /\ s[k] \in S /\ s[k] \in ToSet(s)
           /\ RemoveAt(s, k) \in Seq(S)
           /\ IsInjective(RemoveAt(s, k))
           /\ ToSet(RemoveAt(s, k)) = ToSet(s) \ {s[k]}
<1> DEFINE r == RemoveAt(s, k)
<1>1. k \in 1..Len(s) /\ DOMAIN s = 1..Len(s) /\ Len(s) \in Nat /\ s[k] \in S
  OBVIOUS
<1>2. /\ r \in Seq(S) /\ DOMAIN r = 1..(Len(s) - 1)
      /\ \A j \in 1..(Len(s) - 1) : r[j] = IF j < k THEN s[j] ELSE s[j + 1]
  BY <1>1, RemoveAtProperties
<1>3. \A i, j \in 1..Len(s) : s[i] = s[j] => i = j
  BY <1>1 DEF IsInjective
<1>4. s[k] \in ToSet(s)
  BY DEF ToSet
<1> HIDE DEF r
<1>5. IsInjective(r)
  <2> SUFFICES ASSUME NEW i \in 1..(Len(s) - 1), NEW j \in 1..(Len(s) - 1), r[i] = r[j]
               PROVE  i = j
    BY <1>2 DEF IsInjective
  <2> DEFINE f(n) == IF n < k THEN n ELSE n + 1
  <2>1. f(i) \in 1..Len(s) /\ f(j) \in 1..Len(s) /\ r[i] = s[f(i)] /\ r[j] = s[f(j)]
    BY <1>1, <1>2
  <2>2. f(i) = f(j)
    BY <1>3, <2>1
  <2> QED BY <1>1, <2>2
<1>6. ASSUME NEW x \in ToSet(r) PROVE x \in ToSet(s) \ {s[k]}
  <2>1. PICK j \in 1..(Len(s) - 1) : x = r[j]
    BY <1>2, <1>6 DEF ToSet
  <2>2. PICK i \in 1..Len(s) : x = s[i] /\ i # k
    BY <1>1, <1>2, <2>1
  <2> QED BY <1>1, <1>3, <2>2 DEF ToSet
<1>7. ASSUME NEW x \in ToSet(s) \ {s[k]} PROVE x \in ToSet(r)
  <2>1. PICK i \in 1..Len(s) : x = s[i]
    BY <1>1, <1>7 DEF ToSet
  <2>2. i # k
    BY <1>7, <2>1
  <2>3. PICK j \in 1..(Len(s) - 1) : r[j] = x
    <3>1. CASE i < k
      BY <1>1, <1>2, <2>1, <3>1
    <3>2. CASE i > k
      <4>1. i - 1 \in 1..(Len(s) - 1) /\ ~(i - 1 < k) /\ (i - 1) + 1 = i
        BY <1>1, <3>2
      <4>2. r[i - 1] = s[i]
        BY <1>2, <4>1
      <4> QED BY <2>1, <4>1, <4>2
    <3> QED BY <1>1, <2>2, <3>1, <3>2
  <2> QED BY <1>2, <2>3 DEF ToSet
<1> QED BY <1>1, <1>2, <1>4, <1>5, <1>6, <1>7 DEF r

\* The empty list.
LEMMA EmptySet ==
    /\ ToSet(<< >>) = {} /\ IsInjective(<< >>)
    /\ \A S : << >> \in Seq(S)
  BY DEF ToSet, IsInjective

\* In a list without duplicates an element stands at one position.
LEMMA CountInList ==
    ASSUME NEW S, NEW s \in Seq(S), IsInjective(s), NEW e
    PROVE  LET at == {i \in DOMAIN s : s[i] = e}
           IN  /\ e \in ToSet(s) => Cardinality(at) = 1 /\ at # {}
               /\ e \notin ToSet(s) => Cardinality(at) = 0 /\ at = {}
<1> DEFINE at == {i \in DOMAIN s : s[i] = e}
<1>1. ASSUME e \in ToSet(s) PROVE Cardinality(at) = 1 /\ at # {}
  <2>1. PICK i \in DOMAIN s : s[i] = e
    BY <1>1 DEF ToSet
  <2>2. at = {i}
    BY <2>1 DEF IsInjective
  <2> QED BY <2>2, FS_Singleton
<1>2. ASSUME e \notin ToSet(s) PROVE Cardinality(at) = 0 /\ at = {}
  <2>1. at = {}
    BY <1>2 DEF ToSet
  <2> QED BY <2>1, FS_EmptySet
<1> QED BY <1>1, <1>2

\* The searches of the tables from their first entry find a least one.
LEMMA LeastNatural ==
    ASSUME NEW S \in SUBSET Nat, S # {}
    PROVE  \E m \in S : \A k \in S : m <= k
<1>1. \E x \in S : \A y \in S : ~ (<<y, x>> \in OpToRel(<, Nat))
  BY WFMin, NatLessThanWellFounded
<1>2. PICK x \in S : \A y \in S : ~ (<<y, x>> \in OpToRel(<, Nat))
  BY <1>1
<1>3. \A y \in S : ~(y < x)
  BY <1>2 DEF OpToRel
<1> QED BY <1>3

\* 1 or 0, to count with.
Ind(P) == IF P THEN 1 ELSE 0

\* A set that may gain or lose x.
LEMMA SetStep ==
    ASSUME NEW A, IsFiniteSet(A), NEW B, NEW x, B \ {x} = A \ {x}
    PROVE  /\ IsFiniteSet(B) /\ Cardinality(A) \in Nat /\ Cardinality(B) \in Nat
           /\ Cardinality(B) = Cardinality(A) + Ind(x \in B) - Ind(x \in A)
<1>1. CASE x \in B /\ x \notin A
  <2>1. B = A \cup {x}
    BY <1>1
  <2>2. IsFiniteSet(B) /\ Cardinality(B) = Cardinality(A) + 1
    BY <1>1, <2>1, FS_AddElement
  <2> QED BY <1>1, <2>2, FS_CardinalityType DEF Ind
<1>2. CASE x \notin B /\ x \in A
  <2>1. B = A \ {x}
    BY <1>2
  <2>2. IsFiniteSet(B) /\ Cardinality(B) = Cardinality(A) - 1
    BY <1>2, <2>1, FS_RemoveElement
  <2> QED BY <1>2, <2>2, FS_CardinalityType DEF Ind
<1>3. CASE x \in B <=> x \in A
  <2>1. B = A
    BY <1>3
  <2> QED BY <2>1, FS_CardinalityType DEF Ind
<1> QED BY <1>1, <1>2, <1>3

\* A new element at the front.
LEMMA PrependSet ==
    ASSUME NEW S, NEW s \in Seq(S), NEW e \in S
    PROVE  /\ <<e>> \o s \in Seq(S) /\ Len(<<e>> \o s) = Len(s) + 1
           /\ ToSet(<<e>> \o s) = ToSet(s) \cup {e}
           /\ IsInjective(s) /\ e \notin ToSet(s) => IsInjective(<<e>> \o s)
<1> DEFINE q == <<e>> \o s
<1>1. /\ q \in Seq(S) /\ Len(s) \in Nat /\ Len(q) = Len(s) + 1
      /\ DOMAIN s = 1..Len(s) /\ DOMAIN q = 1..(Len(s) + 1)
  OBVIOUS
<1>2. q[1] = e /\ \A i \in 1..Len(s) : q[i + 1] = s[i]
  OBVIOUS
<1> HIDE DEF q
<1>3. \A j \in 1..(Len(s) + 1) : j = 1 \/ (j - 1 \in 1..Len(s) /\ q[j] = s[j - 1])
  <2>1. TAKE j \in 1..(Len(s) + 1)
  <2>2. CASE j # 1
    <3>1. j - 1 \in 1..Len(s) /\ (j - 1) + 1 = j
      BY <1>1, <2>2
    <3> QED BY <1>2, <3>1
  <2> QED BY <2>2
<1>4. ToSet(q) = ToSet(s) \cup {e}
  <2>1. ASSUME NEW x \in ToSet(q) PROVE x \in ToSet(s) \cup {e}
    <3>1. PICK j \in 1..(Len(s) + 1) : x = q[j]
      BY <1>1, <2>1 DEF ToSet
    <3> QED BY <1>1, <1>2, <1>3, <3>1 DEF ToSet
  <2>2. ASSUME NEW x \in ToSet(s) PROVE x \in ToSet(q)
    <3>1. PICK i \in 1..Len(s) : x = s[i]
      BY <1>1, <2>2 DEF ToSet
    <3>2. i + 1 \in DOMAIN q /\ q[i + 1] = x
      BY <1>1, <1>2, <3>1
    <3> QED BY <3>2 DEF ToSet
  <2>3. 1 \in DOMAIN q
    BY <1>1
  <2>4. e \in ToSet(q)
    BY <1>2, <2>3 DEF ToSet
  <2> QED BY <2>1, <2>2, <2>4
<1>5. ASSUME IsInjective(s), e \notin ToSet(s) PROVE IsInjective(q)
  <2>1. ASSUME NEW i \in 1..(Len(s) + 1), NEW j \in 1..(Len(s) + 1), q[i] = q[j] PROVE i = j
    <3>1. CASE i # 1 /\ j # 1
      <4>1. /\ i - 1 \in 1..Len(s) /\ j - 1 \in 1..Len(s) /\ s[i - 1] = s[j - 1]
        BY <1>3, <2>1, <3>1
      <4>2. i - 1 = j - 1
        BY <1>1, <1>5, <4>1 DEF IsInjective
      <4> QED BY <1>1, <4>2
    <3>2. \A k \in 1..(Len(s) + 1) : k # 1 => q[k] # e
      BY <1>1, <1>3, <1>5 DEF ToSet
    <3> QED BY <1>2, <2>1, <3>1, <3>2
  <2> QED BY <1>1, <2>1 DEF IsInjective
<1> QED BY <1>1, <1>4, <1>5 DEF q

\* Unlinking an element from a list without duplicates.
LEMMA RemoveFirstSet ==
    ASSUME NEW S, NEW s \in Seq(S), IsInjective(s), NEW e
    PROVE  /\ RemoveFirst(s, e) \in Seq(S) /\ IsInjective(RemoveFirst(s, e))
           /\ ToSet(RemoveFirst(s, e)) = ToSet(s) \ {e}
<1>1. Len(s) \in Nat /\ DOMAIN s = 1..Len(s)
  OBVIOUS
<1>2. CASE \E i \in 1..Len(s) : s[i] = e
  <2>1. PICK I : I = {i \in 1..Len(s) : s[i] = e}
    OBVIOUS
  <2>2. I \in SUBSET Nat /\ I # {}
    BY <1>1, <1>2, <2>1
  <2>3. PICK m : m = Min(I)
    OBVIOUS
  <2>4. m \in I
    <3>1. \E k \in I : \A l \in I : k <= l
      BY <2>2, LeastNatural
    <3> QED BY <2>3, <3>1 DEF Min
  <2>5. SelectInSeq(s, LAMBDA x : x = e) = m
    BY <2>1, <2>2, <2>3 DEF SelectInSeq
  <2>6. RemoveFirst(s, e) = RemoveAt(s, m)
    BY <1>2, <2>5 DEF RemoveFirst
  <2>7. m \in DOMAIN s /\ s[m] = e
    BY <1>1, <2>1, <2>4
  <2> QED BY <2>6, <2>7, RemoveAtSet
<1>3. CASE ~ \E i \in 1..Len(s) : s[i] = e
  <2>1. RemoveFirst(s, e) = s
    BY <1>3 DEF RemoveFirst
  <2>2. e \notin ToSet(s)
    BY <1>1, <1>3 DEF ToSet
  <2> QED BY <2>1, <2>2
<1> QED BY <1>2, <1>3

\* A list of members of a set is one of members of a larger set.
LEMMA SeqOfLarger ==
    ASSUME NEW S, NEW T, S \subseteq T, NEW s \in Seq(S)
    PROVE  s \in Seq(T)
  OBVIOUS

\* A list without duplicates that is as long as a set is large has all of the set.
LEMMA FullList ==
    ASSUME NEW n \in Nat, NEW s \in Seq(0..(n - 1)), IsInjective(s), Len(s) = n
    PROVE  ToSet(s) = 0..(n - 1)
<1>1. DOMAIN s = 1..n /\ s \in [1..n -> ToSet(s)] /\ ToSet(s) \subseteq 0..(n - 1)
  BY DEF ToSet
<1>2. s \in Bijection(1..n, ToSet(s))
  BY <1>1 DEF Bijection, Injection, Surjection, IsInjective, ToSet
<1>3. IsFiniteSet(1..n) /\ Cardinality(1..n) = n
  BY FS_Interval, 1 \in Int
<1>4. IsFiniteSet(0..(n - 1)) /\ Cardinality(0..(n - 1)) = n
  BY FS_Interval, 0 \in Int, n - 1 \in Int
<1>5. Cardinality(ToSet(s)) = n
  BY <1>2, <1>3, FS_Bijection DEF ExistsBijection
<1> QED BY <1>1, <1>4, <1>5, FS_Subset
=============================================================================
